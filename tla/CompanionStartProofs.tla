------------------------ MODULE CompanionStartProofs ------------------------
(***************************************************************************)
(* What holds of CompanionStart for any processes, commands, manifests and *)
(* platform: the worker a companion has verified stays the one of its      *)
(* manifest, and no installed file is ever half written.                   *)
(*                                                                         *)
(* The argument.  Only the rename changes a worker file.  A process gets   *)
(* there with an accepted manifest that names a download, and with its     *)
(* temporary file, which is of its own pid, full.  So the file it replaces *)
(* becomes the build of its manifest; if any other process has verified    *)
(* the file at that path, both manifests name the same build there.        *)
(***************************************************************************)
EXTENDS CompanionStart, TLAPS

Loaded == {"access", "open", "write", "rename", "hash"}
Verified == {"listen", "truncate", "record"} \cup Running
Elsewhere == {"idle", "wait"} \cup Stopping

(* What a process may rely on, by its place in a start or a stop.          *)
Sound(p) ==
    /\ proc[p].pc \in Starting \cup Running => Manifest(p) \in Manifests
    /\ proc[p].pc \in Loaded \cup Verified => Accepted(Manifest(p))
    /\ proc[p].pc \in Loaded \ {"hash"} => Downloads(Manifest(p))
    /\ At(p, "rename") => download[Temporary(p)] = Sha(p)
    /\ proc[p].pc \in Verified => disk[Path(p)] = Sha(p)
    /\ At(p, "kill") => proc[p].stops \in Pids

IInv ==
    /\ TypeOK
    /\ NeverHalfInstalled
    /\ \A p \in Pids : Sound(p)

-----------------------------------------------------------------------------
(* An accepted manifest has a build for this platform, and its path is one *)
(* of the worker files.                                                    *)
LEMMA AcceptedBuild ==
    ASSUME NEW m \in Manifests, Accepted(m)
    PROVE  BinaryPath(m) \in Paths /\ Selected(m).sha \in Hashes
<1>1. BinaryPath(m) \in Paths
  BY DEF Paths
<1>2. Selected(m) \in Build
  BY StartAssumption DEF Accepted, PlatformAccepted, Selected
<1>3. QED
  BY <1>1, <1>2 DEF Build

(* A process that is in no start has nothing to rely on but its types.     *)
LEMMA ElsewhereIsSound ==
    ASSUME NEW p \in Pids, proc[p].pc \in Elsewhere,
           At(p, "kill") => proc[p].stops \in Pids
    PROVE  Sound(p)
BY DEF Elsewhere, Stopping, Sound, Starting, Running, Loaded, Verified, At

(* A process that has not moved relies on the same things, if the files it *)
(* relies on are the same.                                                 *)
LEMMA UnmovedIsSound ==
    ASSUME NEW p \in Pids, Sound(p), proc'[p] = proc[p],
           At(p, "rename") => download'[Temporary(p)] = download[Temporary(p)],
           proc[p].pc \in Verified => disk'[Path(p)] = disk[Path(p)]
    PROVE  Sound(p)'
BY DEF Sound, At, Manifest, Path, Sha, Temporary

LEMMA InitSound == Init => IInv
<1> SUFFICES ASSUME Init PROVE IInv
  OBVIOUS
<1>1. TypeOK
  <2>1. disk \in [Paths -> Contents]
    BY DEF Init, Contents
  <2>2. download \in [Paths \X Pids -> Contents]
    BY DEF Init, Contents
  <2>3. port \in Pids \cup {None} /\ record \in Pids \cup {"absent", "torn"}
    BY DEF Init
  <2>4. proc \in [Pids ->
           [pc : {"idle", "wait"} \cup Starting \cup Running \cup Stopping,
            manifest : Manifests \cup {None}, stops : Pids \cup {None}]]
    BY DEF Init, Idle
  <2>5. QED
    BY <2>1, <2>2, <2>3, <2>4 DEF TypeOK
<1>2. NeverHalfInstalled
  BY DEF Init, NeverHalfInstalled, Hashes
<1>3. ASSUME NEW p \in Pids PROVE Sound(p)
  BY ElsewhereIsSound DEF Init, Idle, Elsewhere, At
<1>4. QED
  BY <1>1, <1>2, <1>3 DEF IInv

-----------------------------------------------------------------------------
(* Every step keeps the types of what is not a file.                       *)
ProcTypes ==
    /\ port \in Pids \cup {None}
    /\ record \in Pids \cup {"absent", "torn"}
    /\ proc \in [Pids ->
           [pc : {"idle", "wait"} \cup Starting \cup Running \cup Stopping,
            manifest : Manifests \cup {None}, stops : Pids \cup {None}]]

LEMMA ProcTypesStep == ProcTypes /\ [Next]_vars => ProcTypes'
<1> SUFFICES ASSUME ProcTypes, [Next]_vars PROVE ProcTypes'
  OBVIOUS
<1> USE DEF ProcTypes
<1>1. CASE UNCHANGED vars
  BY <1>1 DEF vars
<1>2. ASSUME NEW p \in Pids, NEW m \in Manifests, Start(p, m) \/ Detach(p, m)
      PROVE  ProcTypes'
  <2>1. Begun(m) = [pc |-> "health", manifest |-> m, stops |-> None]
    BY DEF Begun
  <2>2. [Idle EXCEPT !.pc = "wait"] = [pc |-> "wait", manifest |-> None, stops |-> None]
    BY DEF Idle
  <2>3. CASE Start(p, m)
    BY <2>1, <2>3 DEF Start, Become, Starting
  <2>4. CASE Detach(p, m)
    <3>1. PICK c \in Pids :
              proc' = [proc EXCEPT ![c] = Begun(m), ![p] = [Idle EXCEPT !.pc = "wait"]]
      BY <2>4 DEF Detach
    <3>2. QED
      BY <2>1, <2>2, <2>4, <3>1 DEF Detach, Starting
  <2>5. QED
    BY <1>2, <2>3, <2>4
<1>3. ASSUME NEW p \in Pids, Stop(p) \/ Interrupt(p) PROVE ProcTypes'
  BY <1>3 DEF Stop, Interrupt, Become, Goto, Idle, Running, Stopping
<1>4. ASSUME NEW p \in Pids, Load(p) \/ Access(p) \/ Hash(p) PROVE ProcTypes'
  BY <1>4 DEF Load, Access, Hash, Become, Goto, End, Idle, Starting
<1>5. ASSUME NEW p \in Pids, Open(p) \/ Write(p) \/ Rename(p) PROVE ProcTypes'
  BY <1>5 DEF Open, Write, Rename, Become, Goto, End, Idle, Starting
<1>6. ASSUME NEW p \in Pids, Listen(p) \/ TruncateRecord(p) PROVE ProcTypes'
  BY <1>6 DEF Listen, TruncateRecord, Become, Goto, End, Idle, Starting
<1>7. ASSUME NEW p \in Pids, WriteRecord(p) \/ RemoveRecord(p) PROVE ProcTypes'
  BY <1>7 DEF WriteRecord, RemoveRecord, Become, Goto, End, Idle, Running
<1>8. ASSUME NEW p \in Pids, ReadRecord(p) \/ Remove(p) PROVE ProcTypes'
  <2>1. CASE ReadRecord(p)
    BY <2>1 DEF ReadRecord, Become, End, Idle, Stopping
  <2>2. CASE Remove(p)
    BY <2>2 DEF Remove, Become, End, Idle
  <2>3. QED
    BY <1>8, <2>1, <2>2
<1>9. ASSUME NEW p \in Pids, Kill(p) PROVE ProcTypes'
  BY <1>9 DEF Kill, At, Idle, Running, Stopping
<1>10. ASSUME NEW p \in Pids, Wait(p) \/ Crash(p) PROVE ProcTypes'
  BY <1>10 DEF Wait, Crash, Dies, Become, End, Idle
<1>11. QED
  BY <1>1, <1>2, <1>3, <1>4, <1>5, <1>6, <1>7, <1>8, <1>9, <1>10
     DEF Next, Asked, Installs, Serves, Stops

(* A step that changes no file keeps the invariant, if every process that  *)
(* moves is where it may be.                                               *)
LEMMA MovesAreSound ==
    ASSUME IInv, [Next]_vars, UNCHANGED <<disk, download>>,
           \A q \in Pids : proc'[q] = proc[q] \/ Sound(q)'
    PROVE  IInv'
<1>1. ProcTypes'
  BY ProcTypesStep DEF IInv, TypeOK, ProcTypes
<1>2. TypeOK' /\ NeverHalfInstalled'
  BY <1>1 DEF IInv, TypeOK, ProcTypes, NeverHalfInstalled
<1>3. \A q \in Pids : Sound(q)'
  BY UnmovedIsSound DEF IInv
<1>4. QED
  BY <1>2, <1>3 DEF IInv

LEMMA EndIsSound ==
    ASSUME TypeOK, NEW p \in Pids, proc'[p] = Idle
    PROVE  Sound(p)'
BY DEF Idle, Sound, Starting, Running, Loaded, Verified, At

LEMMA StartSound ==
    ASSUME IInv, NEW p \in Pids, NEW m \in Manifests, Start(p, m) \/ Detach(p, m)
    PROVE  IInv'
<1>1. [Next]_vars /\ UNCHANGED <<disk, download>>
  BY DEF Next, Asked, Start, Detach
<1>2. ASSUME NEW q \in Pids PROVE proc'[q] = proc[q] \/ Sound(q)'
  <2>1. \/ proc'[q] = proc[q]
        \/ proc'[q] = Begun(m)
        \/ proc'[q] = [Idle EXCEPT !.pc = "wait"]
    BY DEF IInv, TypeOK, Start, Detach, Become
  <2>2. CASE proc'[q] = Begun(m)
    BY <2>2 DEF Begun, Sound, Starting, Running, Loaded, Verified, At, Manifest
  <2>3. CASE proc'[q] = [Idle EXCEPT !.pc = "wait"]
    BY <2>3 DEF Idle, Sound, Starting, Running, Loaded, Verified, At
  <2>4. QED
    BY <2>1, <2>2, <2>3
<1>3. QED
  BY <1>1, <1>2, MovesAreSound

LEMMA LoadSound ==
    ASSUME IInv, NEW p \in Pids, Load(p) \/ Access(p) \/ Hash(p)
    PROVE  IInv'
<1>1. [Next]_vars /\ UNCHANGED <<disk, download>>
  BY DEF Next, Installs, Load, Access, Hash
<1>2. ASSUME NEW q \in Pids PROVE proc'[q] = proc[q] \/ Sound(q)'
  <2>1. CASE q # p
    BY <2>1 DEF IInv, TypeOK, Load, Access, Hash, Become, Goto, End
  <2>2. CASE q = p
    <3>1. Sound(p)
      BY DEF IInv
    <3>2. CASE Load(p)
      BY <2>2, <3>1, <3>2 DEF IInv, TypeOK, Load, Become, Goto, End, Idle, Sound, Starting,
         Running, Loaded, Verified, At, Manifest
    <3>3. CASE Access(p)
      BY <2>2, <3>1, <3>3 DEF IInv, TypeOK, Access, Become, Goto, End, Idle, Sound, Starting,
         Running, Loaded, Verified, At, Manifest
    <3>4. CASE Hash(p)
      BY <1>1, <2>2, <3>1, <3>4 DEF IInv, TypeOK, Hash, Become, Goto, End, Idle, Sound,
         Starting, Running, Loaded, Verified, At, Manifest, Path, Sha
    <3>5. QED
      BY <3>2, <3>3, <3>4
  <2>3. QED
    BY <2>1, <2>2
<1>3. QED
  BY <1>1, <1>2, MovesAreSound

(* What serves and what stops moves between places that rely on the same.  *)
LEMMA ServeSound ==
    ASSUME IInv, NEW p \in Pids, Serves(p) \/ Interrupt(p)
    PROVE  IInv'
<1>1. [Next]_vars /\ UNCHANGED <<disk, download>>
  BY DEF Next, Asked, Serves, Listen, TruncateRecord, WriteRecord, RemoveRecord, Interrupt
<1>2. ASSUME NEW q \in Pids PROVE proc'[q] = proc[q] \/ Sound(q)'
  <2>1. Sound(p)
    BY DEF IInv
  <2>2. \/ q # p /\ proc'[q] = proc[q]
        \/ q = p /\ proc'[p] = Idle
        \/ /\ q = p /\ proc[p].pc \in Verified
           /\ \E l \in Verified : proc'[p] = [proc[p] EXCEPT !.pc = l]
    BY DEF IInv, TypeOK, Serves, Listen, TruncateRecord, WriteRecord, RemoveRecord, Interrupt,
           Become, Goto, End, At, Verified, Running
  <2>3. CASE q = p /\ proc'[p] = Idle
    BY <2>3, EndIsSound DEF IInv
  <2>4. ASSUME q = p, proc[p].pc \in Verified, NEW l \in Verified,
               proc'[p] = [proc[p] EXCEPT !.pc = l]
        PROVE  Sound(p)'
    BY <1>1, <2>1, <2>4 DEF IInv, TypeOK, Sound, Starting, Running, Loaded, Verified, At,
       Manifest, Path, Sha
  <2>5. QED
    BY <2>2, <2>3, <2>4
<1>3. QED
  BY <1>1, <1>2, MovesAreSound

LEMMA StopSound ==
    ASSUME IInv, NEW p \in Pids, Stop(p) \/ Stops(p) \/ Wait(p) \/ Crash(p)
    PROVE  IInv'
<1>1. [Next]_vars /\ UNCHANGED <<disk, download>>
  BY DEF Next, Asked, Stop, Stops, ReadRecord, Kill, Remove, Wait, Crash
<1>2. ASSUME NEW q \in Pids PROVE proc'[q] = proc[q] \/ Sound(q)'
  <2>1. CASE Stop(p) \/ ReadRecord(p) \/ Remove(p) \/ Wait(p) \/ Crash(p)
    <3>1. \/ proc'[q] = proc[q]
          \/ proc'[q] = Idle
          \/ proc'[q] = [Idle EXCEPT !.pc = "read"]
          \/ record \in Pids /\ proc'[q] = [pc |-> "kill", manifest |-> None, stops |-> record]
      BY <2>1 DEF IInv, TypeOK, Stop, ReadRecord, Remove, Wait, Crash, Dies, Become, End
    <3>2. CASE proc'[q] \in {Idle, [Idle EXCEPT !.pc = "read"]}
      BY <3>2 DEF Idle, Sound, Starting, Running, Loaded, Verified, At
    <3>3. CASE record \in Pids /\ proc'[q] = [pc |-> "kill", manifest |-> None, stops |-> record]
      BY <3>3 DEF IInv, TypeOK, Sound, Starting, Running, Loaded, Verified, At
    <3>4. QED
      BY <3>1, <3>2, <3>3
  <2>2. CASE Kill(p)
    <3>1. Sound(p) /\ Sound(q)
      BY DEF IInv
    <3>2. proc[p].stops \in Pids
      BY <2>2, <3>1 DEF Kill, Sound
    <3>3. \/ proc'[q] = proc[q]
          \/ proc'[q].pc \in {"idle", "poll"}
          \/ At(q, "running") /\ proc'[q] = [proc[q] EXCEPT !.pc = "closing"]
      BY <2>2, <3>2 DEF IInv, TypeOK, Kill, At, Idle
    <3>4. CASE proc'[q].pc \in {"idle", "poll"}
      BY <3>4 DEF Sound, Starting, Running, Loaded, Verified, At
    <3>5. CASE At(q, "running") /\ proc'[q] = [proc[q] EXCEPT !.pc = "closing"]
      BY <1>1, <3>1, <3>5 DEF IInv, TypeOK, Sound, Starting, Running, Loaded, Verified, At,
         Manifest, Path, Sha
    <3>6. QED
      BY <3>3, <3>4, <3>5
  <2>3. QED
    BY <2>1, <2>2 DEF Stops
<1>3. QED
  BY <1>1, <1>2, MovesAreSound

-----------------------------------------------------------------------------
(* Opening and writing touch only the temporary file of the process.       *)
LEMMA TemporaryIsOwn ==
    ASSUME NEW p \in Pids, NEW q \in Pids, q # p
    PROVE  Temporary(q) # Temporary(p)
BY DEF Temporary

LEMMA WriteSound ==
    ASSUME IInv, NEW p \in Pids, Open(p) \/ Write(p)
    PROVE  IInv'
<1>1. Sound(p) /\ TypeOK
  BY DEF IInv
<1>2. Manifest(p) \in Manifests /\ Accepted(Manifest(p))
  BY <1>1 DEF Open, Write, Sound, At, Starting, Loaded
<1>3. Path(p) \in Paths /\ Sha(p) \in Hashes
  BY <1>2, AcceptedBuild DEF Path, Sha
<1>4. Temporary(p) \in Paths \X Pids
  BY <1>3 DEF Temporary
<1>5. PICK content \in {"partial", Sha(p)} : download' = [download EXCEPT ![Temporary(p)] = content]
  BY DEF Open, Write
<1>6. [Next]_vars /\ UNCHANGED disk
  BY DEF Next, Installs, Open, Write
<1>7. ProcTypes'
  BY <1>1, <1>6, ProcTypesStep DEF TypeOK, ProcTypes
<1>8. download' \in [Paths \X Pids -> Contents]
  BY <1>1, <1>3, <1>5 DEF TypeOK, Contents
<1>9. TypeOK' /\ NeverHalfInstalled'
  BY <1>1, <1>6, <1>7, <1>8 DEF IInv, TypeOK, ProcTypes, NeverHalfInstalled
<1>10. Sound(p)'
  <2>1. CASE Open(p)
    BY <1>1, <2>1 DEF TypeOK, Open, Become, Goto, Sound, Starting, Running, Loaded, Verified, At,
       Manifest
  <2>2. CASE Write(p)
    <3>1. /\ proc'[p] = [proc[p] EXCEPT !.pc = "rename"]
          /\ download'[Temporary(p)] = Sha(p)
      BY <1>1, <1>4, <2>2 DEF TypeOK, Write, Become, Goto
    <3>2. Manifest(p)' = Manifest(p)
      BY <1>1, <3>1 DEF TypeOK, Manifest
    <3>3. Sha(p)' = Sha(p) /\ Temporary(p)' = Temporary(p)
      BY <3>2 DEF Sha, Temporary, Path
    <3>4. Downloads(Manifest(p))
      BY <1>1, <2>2 DEF Write, Sound, At, Loaded
    <3>5. QED
      BY <1>1, <1>2, <3>1, <3>2, <3>3, <3>4 DEF TypeOK, Sound, Starting, Running, Loaded,
         Verified, At
  <2>3. QED
    BY <2>1, <2>2
<1>11. ASSUME NEW q \in Pids, q # p PROVE Sound(q)'
  <2>1. proc'[q] = proc[q]
    BY <1>1, <1>11 DEF TypeOK, Open, Write, Become, Goto
  <2>2. At(q, "rename") => download'[Temporary(q)] = download[Temporary(q)]
    <3>1. SUFFICES ASSUME At(q, "rename")
                   PROVE  download'[Temporary(q)] = download[Temporary(q)]
      OBVIOUS
    <3>2. Temporary(q) \in Paths \X Pids
      BY <3>1, AcceptedBuild DEF IInv, Sound, At, Starting, Loaded, Path, Temporary
    <3>3. QED
      BY <1>1, <1>5, <1>11, <3>2, TemporaryIsOwn DEF TypeOK
  <2>3. QED
    BY <1>6, <2>1, <2>2, UnmovedIsSound DEF IInv
<1>12. QED
  BY <1>9, <1>10, <1>11 DEF IInv

(* The rename puts the whole download in place.  A process that has        *)
(* verified a file at that path has the same build there.                  *)
LEMMA RenameSound ==
    ASSUME PathsNameBuilds, IInv, NEW p \in Pids, Rename(p)
    PROVE  IInv'
<1>1. Sound(p) /\ TypeOK /\ At(p, "rename")
  BY DEF IInv, Rename
<1>2. /\ Manifest(p) \in Manifests /\ Accepted(Manifest(p)) /\ Downloads(Manifest(p))
      /\ download[Temporary(p)] = Sha(p)
  BY <1>1 DEF Sound, At, Starting, Loaded
<1>3. Path(p) \in Paths /\ Sha(p) \in Hashes
  BY <1>2, AcceptedBuild DEF Path, Sha
<1>4. /\ disk' = [disk EXCEPT ![Path(p)] = Sha(p)]
      /\ download' = [download EXCEPT ![Temporary(p)] = "absent"]
      /\ proc' = [proc EXCEPT ![p] = [proc[p] EXCEPT !.pc = "hash"]]
  BY <1>2, <1>3 DEF Rename, Goto, Become, Hashes
<1>5. ProcTypes'
  <2>1. [Next]_vars
    BY DEF Next, Installs
  <2>2. QED
    BY <1>1, <2>1, ProcTypesStep DEF TypeOK, ProcTypes
<1>6. TypeOK'
  <2>1. disk' \in [Paths -> Contents]
    BY <1>1, <1>3, <1>4 DEF TypeOK, Contents
  <2>2. download' \in [Paths \X Pids -> Contents]
    BY <1>1, <1>4 DEF TypeOK, Contents
  <2>3. QED
    BY <1>5, <2>1, <2>2 DEF TypeOK, ProcTypes
<1>7. NeverHalfInstalled'
  BY <1>1, <1>3, <1>4 DEF IInv, TypeOK, NeverHalfInstalled, Hashes
<1>8. Sound(p)'
  <2>1. proc'[p] = [proc[p] EXCEPT !.pc = "hash"]
    BY <1>1, <1>4 DEF TypeOK
  <2>2. Manifest(p)' = Manifest(p)
    BY <1>1, <2>1 DEF TypeOK, Manifest
  <2>3. QED
    BY <1>1, <1>2, <2>1, <2>2 DEF TypeOK, Sound, Starting, Running, Loaded, Verified, At
<1>9. ASSUME NEW q \in Pids, q # p PROVE Sound(q)'
  <2>1. proc'[q] = proc[q] /\ Sound(q)
    BY <1>1, <1>4, <1>9 DEF IInv, TypeOK
  <2>2. At(q, "rename") => download'[Temporary(q)] = download[Temporary(q)]
    <3>1. SUFFICES ASSUME At(q, "rename")
                   PROVE  download'[Temporary(q)] = download[Temporary(q)]
      OBVIOUS
    <3>2. Temporary(q) \in Paths \X Pids
      BY <2>1, <3>1, AcceptedBuild DEF Sound, At, Starting, Loaded, Path, Temporary
    <3>3. QED
      BY <1>1, <1>4, <1>9, <3>2, TemporaryIsOwn DEF TypeOK
  <2>3. proc[q].pc \in Verified => disk'[Path(q)] = disk[Path(q)]
    <3>1. SUFFICES ASSUME proc[q].pc \in Verified PROVE disk'[Path(q)] = disk[Path(q)]
      OBVIOUS
    <3>2. /\ Manifest(q) \in Manifests /\ Accepted(Manifest(q))
          /\ disk[Path(q)] = Sha(q)
      BY <2>1, <3>1 DEF Sound, Verified, Starting, Running
    <3>3. Path(q) \in Paths
      BY <3>2, AcceptedBuild DEF Path
    <3>4. CASE Path(q) # Path(p)
      BY <1>1, <1>4, <3>3, <3>4 DEF TypeOK
    <3>5. CASE Path(q) = Path(p)
      <4>1. Sha(q) = Sha(p)
        BY <1>2, <3>2, <3>5 DEF PathsNameBuilds, Path, Sha
      <4>2. QED
        BY <1>1, <1>3, <1>4, <3>2, <3>5, <4>1 DEF TypeOK
    <3>6. QED
      BY <3>4, <3>5
  <2>4. QED
    BY <2>1, <2>2, <2>3, UnmovedIsSound
<1>10. QED
  BY <1>6, <1>7, <1>8, <1>9 DEF IInv

LEMMA StepSound == PathsNameBuilds /\ IInv /\ [Next]_vars => IInv'
<1> SUFFICES ASSUME PathsNameBuilds, IInv, [Next]_vars PROVE IInv'
  OBVIOUS
<1>1. CASE UNCHANGED vars
  <2>1. \A q \in Pids : proc'[q] = proc[q]
    BY <1>1 DEF vars
  <2>2. QED
    BY <1>1, <2>1, MovesAreSound DEF vars
<1>2. ASSUME NEW p \in Pids,
             Asked(p) \/ Installs(p) \/ Serves(p) \/ Stops(p) \/ Wait(p) \/ Crash(p)
      PROVE  IInv'
  BY <1>2, StartSound, LoadSound, WriteSound, RenameSound, ServeSound, StopSound
     DEF Asked, Installs
<1>3. QED
  BY <1>1, <1>2 DEF Next

-----------------------------------------------------------------------------
(* The inductive invariant holds throughout.                               *)
THEOREM InstallsAreSound == PathsNameBuilds => (Spec => []IInv)
<1>1. PathsNameBuilds /\ IInv /\ [Next]_vars => IInv'
  BY StepSound
<1>2. Init => IInv
  BY InitSound
<1>3. SUFFICES ASSUME PathsNameBuilds PROVE Spec => []IInv
  OBVIOUS
<1>4. IInv /\ [Next]_vars => IInv'
  BY <1>1, <1>3
<1>5. QED
  BY <1>2, <1>4, PTL DEF Spec

(* From the check of its hash until it has ended, a companion's worker     *)
(* file is the build its manifest names (trust.ts, companion-command.ts).  *)
THEOREM VerifiedStaysHolds == PathsNameBuilds => (Spec => []VerifiedStays)
<1>1. IInv => VerifiedStays
  BY DEF IInv, Sound, Verified, VerifiedStays
<1>2. QED
  BY <1>1, InstallsAreSound, PTL

(* No installed worker file is half written, whoever dies installing it.   *)
THEOREM NeverHalfInstalledHolds == PathsNameBuilds => (Spec => []NeverHalfInstalled)
<1>1. IInv => NeverHalfInstalled
  BY DEF IInv
<1>2. QED
  BY <1>1, InstallsAreSound, PTL
=============================================================================
