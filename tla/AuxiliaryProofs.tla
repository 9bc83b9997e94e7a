-------------------------- MODULE AuxiliaryProofs --------------------------
(***************************************************************************)
(* Proofs about AuxiliaryOperations: an approval or a conversion that is   *)
(* out is written off by two answers of a wallet only, and content that is *)
(* not registered is never liquified, however many commands and recoveries *)
(* run at a time.                                                          *)
(***************************************************************************)
EXTENDS AuxiliaryOperations, TLAPS

(* Rows nothing has been attached to. *)
UnsentStates == {"ABSENT", "CREATED"}
LaterStates == UnresolvedStates \cup ConfirmedStates \cup FailedStates

(* Where a process has a row in hand; before it attaches the row to a      *)
(* provider request; and before its call goes out.                         *)
Preparing == {"proof", "simulate", "prepare"}
Submitting == {"proof", "simulate", "prepare", "submit"}
Working == Submitting \cup {"answer", "recover", "query", "lookup", "count",
                          "settle", "content"}

Answers == {"PENDING", "CONFIRMED", "REVERTED", "REPLACED", "UNKNOWN"}

(* What there is to an answer that fails a row, and stays so. *)
Ends(o, answer) ==
    \/ tx[o] \in {"reverted", "replaced"}
    \/ tx[o] = "done" /\ wallet = "eoa" /\ answer = "REPLACED"
    \/ handle[o] = "other" /\ answer = "REVERTED"

(* How what a process holds fits the ledger, the calls and the chain. *)
KnowsRow(local) ==
    /\ local.op # None =>
           /\ local.kind = row[local.op].kind
           /\ IF local.pc \in Preparing THEN row[local.op].state = "CREATED"
                                        ELSE row[local.op].state \notin UnsentStates
    /\ local.pc \in Working => local.op \in Operations
    /\ \A o \in local.todo : row[o].state \notin UnsentStates

KnowsCall(local) ==
    /\ local.pc \in Preparing => tx[local.op] = "none"
    /\ local.pc \in Submitting => tx[local.op] \in {"none", "replaced"}
    /\ local.pc = "settle" =>
           /\ local.answer \in Answers
           /\ local.answer \in {"REVERTED", "REPLACED"} => Ends(local.op, local.answer)

KnowsKind(local) ==
    /\ local.pc = "begin" => local.kind \in Kinds
    /\ local.pc \in {"proof", "content"} => local.kind = "CONTENT_REGISTER"

SawOutside(local) ==
    /\ local.pc \in {"prepare", "submit"} /\ local.kind = "LIQUIFY" => chain.registered
    /\ local.pc \in {"lookup", "count"} => wallet = "eoa"

Fits(local) ==
    KnowsRow(local) /\ KnowsCall(local) /\ KnowsKind(local) /\ SawOutside(local)

(* A row is submitted by the command that began it. *)
OneSubmits == \A p, q \in Procs :
    proc[p].pc \in Submitting /\ proc[q].pc \in Submitting
        /\ Op(p) = Op(q) => p = q

UnsentIsQuiet == \A o \in Operations :
    row[o].state \in UnsentStates => tx[o] = "none" /\ handle[o] = None

BegunHasKind == \A o \in Operations : row[o].state # "ABSENT" => row[o].kind \in Kinds

(* Of other rows than registrations, a failed one is one that was never    *)
(* sent and which no command will submit any more, one whose call had no   *)
(* effect, or one of the two that Tracked allows.                          *)
Over(o) ==
    \/ tx[o] = "none" /\ \A p \in Procs : proc[p].pc \in Submitting => Op(p) # o
    \/ tx[o] \in {"hollow", "reverted", "replaced"}
    \/ MinedUnseen(o)
    \/ TakenForAnother(o)

FailedIsOver == \A o \in Operations :
    row[o].kind # "CONTENT_REGISTER" /\ row[o].state \in FailedStates => Over(o)

(* Only what may look like another's is taken for it, and the wallet stays. *)
OthersAreAlike == \A o \in Operations : handle[o] = "other" => row[o].kind \in Alike
WalletStays == \E s \in Starts : wallet = s.wallet

AuxiliaryInv ==
    /\ TypeOK
    /\ \A p \in Procs : Fits(proc[p])
    /\ OneSubmits /\ UnsentIsQuiet /\ BegunHasKind /\ FailedIsOver
    /\ OthersAreAlike /\ WalletStays
    /\ LiquifiesRegistered

(* All a process does to what is not its own, but for the call it sends:   *)
(* it learns of a row that was sent whose operation it is.                 *)
Learns ==
    /\ UNCHANGED <<tx, chain, wallet>>
    /\ handle' \in [Operations -> {None, "own", "other"}]
    /\ \A o \in Operations :
           /\ handle[o] = "other" => handle'[o] = "other"
           /\ handle'[o] = "other" => handle[o] = "other" \/ row[o].kind \in Alike
           /\ row'[o].state \in UnsentStates => handle'[o] = handle[o]

LEMMA NothingLearnt ==
    ASSUME TypeOK, UNCHANGED outside
    PROVE  Learns
BY DEF TypeOK, outside, Learns

LEMMA TypesFacts ==
    /\ None \notin Operations /\ None # "own" /\ None # "other"
    /\ UnsentStates \cap LaterStates = {}
    /\ \A o \in Operations : o # None
BY AuxiliaryAssumption DEF Operations, UnsentStates, LaterStates, UnresolvedStates,
   ConfirmedStates, FailedStates

LEMMA Becomes ==
    ASSUME TypeOK, NEW p \in Procs, NEW local \in Process, Become(p, local)
    PROVE  /\ proc' \in [Procs -> Process]
           /\ proc'[p] = local
           /\ \A q \in Procs : q # p => proc'[q] = proc[q]
BY DEF TypeOK, Become

LEMMA Writes ==
    ASSUME TypeOK, NEW o \in Operations, NEW state \in LaterStates, SetState(o, state)
    PROVE  /\ row' \in [Operations -> Row]
           /\ row'[o].kind = row[o].kind /\ row'[o].state = state
           /\ \A i \in Operations : i # o => row'[i] = row[i]
<1>1. [row[o] EXCEPT !.state = state] \in Row
  BY DEF TypeOK, Row, LaterStates
<1>2. row' = [row EXCEPT ![o] = [row[o] EXCEPT !.state = state]]
  BY DEF SetState, TypeOK
<1> QED
  BY <1>1, <1>2 DEF TypeOK, Row

(* What is known of a call and an answer does not wear out. *)
LEMMA OthersKeepFit ==
    ASSUME TypeOK, NEW q \in Procs, Fits(proc[q]), Learns, proc'[q] = proc[q],
           KnowsRow(proc[q])'
    PROVE  Fits(proc[q])'
<1>1. proc[q].pc \in Working => proc[q].op \in Operations
  BY DEF Fits, KnowsRow
<1>2. KnowsCall(proc[q])'
  <2>1. CASE proc[q].pc = "settle"
    <3>1. proc[q].op \in Operations /\ KnowsCall(proc[q])
      BY <1>1, <2>1 DEF Working, Submitting, Fits
    <3> QED
      BY <2>1, <3>1 DEF KnowsCall, Ends, Learns, Submitting, Preparing
  <2>2. CASE proc[q].pc # "settle"
    BY <2>2 DEF Fits, KnowsCall, Learns
  <2> QED
    BY <2>1, <2>2
<1>3. KnowsKind(proc[q])' /\ SawOutside(proc[q])'
  BY DEF Fits, KnowsKind, SawOutside, Learns
<1> QED
  BY <1>2, <1>3 DEF Fits

(* A process moves and the ledger stays. *)
LEMMA MoveKeeps ==
    ASSUME AuxiliaryInv, NEW p \in Procs, NEW local \in Process, Become(p, local),
           UNCHANGED row, Learns, Fits(local)',
           local.pc \in Submitting => proc[p].pc \in Submitting /\ local.op = Op(p)
    PROVE  AuxiliaryInv'
<1> USE DEF AuxiliaryInv
<1>1. /\ proc' \in [Procs -> Process]
      /\ proc'[p] = local
      /\ \A q \in Procs : q # p => proc'[q] = proc[q]
  BY Becomes
<1>2. TypeOK'
  BY <1>1 DEF TypeOK, Learns
<1>3. ASSUME NEW q \in Procs, q # p PROVE Fits(proc[q])'
  BY <1>1, <1>3, OthersKeepFit DEF Fits, KnowsRow
<1>4. \A q \in Procs : Fits(proc[q])'
  BY <1>1, <1>3
<1>5. OneSubmits'
  BY <1>1 DEF OneSubmits, Op
<1>6. UnsentIsQuiet' /\ BegunHasKind' /\ LiquifiesRegistered'
  BY DEF UnsentIsQuiet, BegunHasKind, LiquifiesRegistered, Learns
<1>7. FailedIsOver'
  <2>1. \A q \in Procs : proc'[q].pc \in Submitting =>
            proc[q].pc \in Submitting /\ proc'[q].op = Op(q)
    BY <1>1 DEF Op
  <2> QED
    BY <2>1 DEF FailedIsOver, Over, MinedUnseen, TakenForAnother, Learns, Op
<1>8. OthersAreAlike' /\ WalletStays'
  BY DEF OthersAreAlike, WalletStays, Learns
<1> QED
  BY <1>2, <1>4, <1>5, <1>6, <1>7, <1>8

(* A process writes a state on the row it has in hand, and moves. *)
LEMMA WriteKeeps ==
    ASSUME AuxiliaryInv, NEW p \in Procs, NEW local \in Process, Become(p, local),
           Op(p) \in Operations, NEW state \in LaterStates, SetState(Op(p), state),
           Learns,
           Fits(local)', local.pc \notin Preparing,
           local.pc \in Submitting =>
               /\ proc[p].pc \in Submitting /\ local.op = Op(p)
               /\ state \notin FailedStates,
           state \in FailedStates =>
               \/ Kind(p) = "CONTENT_REGISTER"
               \/ proc[p].pc \in Preparing
               \/ Ends(Op(p), state)
    PROVE  AuxiliaryInv'
<1> USE DEF AuxiliaryInv
<1>0. PICK o \in Operations : o = Op(p)
  OBVIOUS
<1>1. /\ proc' \in [Procs -> Process]
      /\ proc'[p] = local
      /\ \A q \in Procs : q # p => proc'[q] = proc[q]
  BY Becomes
<1>2. /\ row' \in [Operations -> Row]
      /\ row'[o].kind = row[o].kind /\ row'[o].state = state
      /\ \A i \in Operations : i # o => row'[i] = row[i]
  BY <1>0, Writes
<1>3. TypeOK'
  BY <1>1, <1>2 DEF TypeOK, Learns
<1>4. /\ row[o].state = "CREATED" => proc[p].pc \in Preparing
      /\ Kind(p) = row[o].kind /\ Fits(proc[p])
  BY <1>0, TypesFacts DEF Fits, KnowsRow, UnsentStates, Op, Kind
<1>5. ASSUME NEW q \in Procs, q # p PROVE Fits(proc[q])'
  <2> DEFINE l == proc[q]
  <2>1. proc'[q] = l /\ Fits(l) /\ l \in Process
    BY <1>1, <1>5 DEF TypeOK
  <2>2. l.pc \in Preparing => l.op # o
    <3> SUFFICES ASSUME l.pc \in Preparing, l.op = o PROVE FALSE
      OBVIOUS
    <3>1. l.pc \in Submitting /\ row[o].state = "CREATED"
      BY <1>0, <2>1, TypesFacts DEF Fits, KnowsRow, Submitting, Preparing
    <3>2. proc[p].pc \in Submitting
      BY <1>4, <3>1 DEF Submitting, Preparing
    <3> QED
      BY <1>0, <1>5, <3>1, <3>2 DEF OneSubmits, Op
  <2>3. KnowsRow(l)'
    BY <1>2, <2>1, <2>2, TypesFacts DEF Fits, KnowsRow, Process
  <2> QED
    BY <2>1, <2>3, OthersKeepFit
<1>6. \A q \in Procs : Fits(proc[q])'
  BY <1>1, <1>5
<1>7. OneSubmits'
  BY <1>1 DEF OneSubmits, Op
<1>8. UnsentIsQuiet'
  BY <1>2, TypesFacts DEF UnsentIsQuiet, Learns
<1>9. FailedIsOver'
  <2>1. ASSUME NEW i \in Operations, i # o, Over(i) PROVE Over(i)'
    <3>1. \A q \in Procs : proc'[q].pc \in Submitting /\ Op(q)' = i =>
              proc[q].pc \in Submitting /\ Op(q) = i
      BY <1>0, <1>1, <2>1 DEF Op
    <3> QED
      BY <1>2, <2>1, <3>1 DEF Over, MinedUnseen, TakenForAnother, Learns
  <2>2. ASSUME row[o].kind # "CONTENT_REGISTER", state \in FailedStates PROVE Over(o)'
    <3>1. CASE proc[p].pc \in Preparing
      <4>1. tx[o] = "none" /\ proc[p].pc \in Submitting
        BY <1>0, <1>4, <3>1 DEF Fits, KnowsCall, Submitting, Preparing, Op
      <4> QED
        BY <1>0, <1>1, <2>2, <4>1 DEF OneSubmits, Op, Over, Learns
    <3>2. CASE Ends(o, state)
      BY <1>0, <1>2, <3>2 DEF Ends, Over, MinedUnseen, TakenForAnother, Learns
    <3> QED
      BY <1>0, <1>4, <2>2, <3>1, <3>2
  <2> QED
    BY <1>2, <2>1, <2>2 DEF FailedIsOver
<1>10. LiquifiesRegistered' /\ OthersAreAlike' /\ WalletStays'
  BY <1>2 DEF LiquifiesRegistered, OthersAreAlike, WalletStays, Learns
<1>11. BegunHasKind'
  <2>1. row[o].state # "ABSENT"
    BY <1>0, TypesFacts DEF Fits, KnowsRow, UnsentStates, Op
  <2> QED
    BY <1>2, <2>1 DEF BegunHasKind
<1> QED
  BY <1>3, <1>6, <1>7, <1>8, <1>9, <1>10, <1>11
-----------------------------------------------------------------------------
(* Where a command goes. *)

LEMMA IdleFits ==
    /\ Idle \in Process /\ Idle.pc = "idle" /\ Idle.op = None /\ Idle.todo = {}
    /\ Fits(Idle)
    /\ Fits(Idle)'
<1>1. Idle \in Process /\ Idle.pc = "idle" /\ Idle.op = None /\ Idle.todo = {}
  BY DEF Idle, Process, Labels
<1> QED
  BY <1>1 DEF Fits, KnowsRow, KnowsCall, KnowsKind, SawOutside, Submitting,
              Preparing, Working

(* A command at its end, or between two rows, or at its content. *)
Rests(p, local) ==
    /\ Become(p, local)
    /\ local.pc \in {"idle", "loop", "begin", "registered", "allowed", "content"}
    /\ local.todo \subseteq proc[p].todo
    /\ local.op # None => local.op = Op(p) /\ local.kind = Kind(p)
    /\ local.pc = "content" => local.op = Op(p)
    /\ KnowsKind(local)

LEMMA ProcTyped ==
    ASSUME TypeOK, NEW p \in Procs
    PROVE  /\ proc[p] \in Process
           /\ \A label \in Labels :
                  /\ [proc[p] EXCEPT !.pc = label] \in Process
                  /\ [proc[p] EXCEPT !.pc = label].pc = label
                  /\ [proc[p] EXCEPT !.pc = label].op = Op(p)
                  /\ [proc[p] EXCEPT !.pc = label].kind = Kind(p)
                  /\ [proc[p] EXCEPT !.pc = label].todo = proc[p].todo
                  /\ [proc[p] EXCEPT !.pc = label].answer = proc[p].answer
BY DEF TypeOK, Process, Op, Kind

LEMMA LeaveRests ==
    ASSUME TypeOK, NEW p \in Procs, Leave(p)
    PROVE  Rests(p, Idle)
BY IdleFits DEF Leave, Rests, KnowsKind

LEMMA BeginsRests ==
    ASSUME TypeOK, NEW p \in Procs, NEW kind \in Kinds, Begins(p, kind)
    PROVE  \E local \in Process : Rests(p, local)
<1> DEFINE local == [proc[p] EXCEPT !.pc = "begin", !.kind = kind, !.op = None, !.answer = None]
<1>1. /\ local \in Process /\ local.pc = "begin" /\ local.kind = kind
      /\ local.op = None /\ local.todo = proc[p].todo
  BY DEF TypeOK, Process, Labels
<1>2. Become(p, local)
  BY DEF Begins
<1> HIDE DEF local
<1> QED
  BY <1>1, <1>2 DEF Rests, KnowsKind

LEMMA GoesOnRests ==
    ASSUME TypeOK, NEW p \in Procs, GoesOn(p)
    PROVE  \E local \in Process : Rests(p, local)
<1>1. CASE Become(p, [Idle EXCEPT !.pc = "allowed", !.command = "liquify"])
  <2> DEFINE local == [Idle EXCEPT !.pc = "allowed", !.command = "liquify"]
  <2>1. /\ local \in Process /\ local.pc = "allowed" /\ local.op = None
        /\ local.todo = {}
    BY DEF Idle, Process, Labels, AllCommands
  <2>2. Become(p, local)
    BY <1>1
  <2> HIDE DEF local
  <2> QED
    BY <2>1, <2>2 DEF Rests, KnowsKind
<1>2. CASE Begins(p, "LIQUIFY") \/ Begins(p, "REFORM")
  BY <1>2, BeginsRests DEF Kinds
<1>3. CASE Leave(p)
  BY <1>3, LeaveRests, IdleFits
<1> QED
  BY <1>1, <1>2, <1>3 DEF GoesOn

LEMMA ReturnedRests ==
    ASSUME TypeOK, NEW p \in Procs, NEW state, Returned(p, state)
    PROVE  \E local \in Process : Rests(p, local)
<1>1. CASE proc[p].command = "status"
  <2> DEFINE local == [Idle EXCEPT !.pc = "loop", !.command = "status", !.todo = proc[p].todo]
  <2>1. /\ local \in Process /\ local.pc = "loop" /\ local.op = None
        /\ local.todo = proc[p].todo
    BY DEF TypeOK, Idle, Process, Labels, AllCommands
  <2>2. Become(p, local)
    BY <1>1 DEF Returned
  <2> HIDE DEF local
  <2> QED
    BY <2>1, <2>2 DEF Rests, KnowsKind
<1>2. CASE Leave(p)
  BY <1>2, LeaveRests, IdleFits
<1>3. CASE /\ Kind(p) = "CONTENT_REGISTER"
           /\ Become(p, [proc[p] EXCEPT !.pc = "content", !.answer = None])
  <2> DEFINE local == [proc[p] EXCEPT !.pc = "content", !.answer = None]
  <2>1. /\ local \in Process /\ local.pc = "content" /\ local.op = Op(p)
        /\ local.kind = Kind(p) /\ local.todo = proc[p].todo
    BY DEF TypeOK, Process, Labels, Op, Kind
  <2>2. Become(p, local)
    BY <1>3
  <2> HIDE DEF local
  <2> QED
    BY <1>3, <2>1, <2>2 DEF Rests, KnowsKind
<1>4. CASE GoesOn(p)
  BY <1>4, GoesOnRests
<1> QED
  BY <1>1, <1>2, <1>3, <1>4 DEF Returned

(* A command may rest with the ledger as it is, unless it rests at content *)
(* with a row that was not sent,                                           *)
LEMMA RestKeeps ==
    ASSUME AuxiliaryInv, NEW p \in Procs, NEW local \in Process, Rests(p, local),
           UNCHANGED row, Learns, proc[p].pc \notin Preparing \/ local.op = None,
           local.pc = "content" => Op(p) \in Operations
    PROVE  AuxiliaryInv'
<1> USE DEF AuxiliaryInv
<1>1. Fits(local)'
  BY TypesFacts DEF Fits, Rests, KnowsRow, KnowsCall, SawOutside, Submitting,
                    Preparing, Working, Op, Kind
<1>2. local.pc \notin Submitting
  BY DEF Rests, Submitting, Preparing
<1> QED
  BY <1>1, <1>2, MoveKeeps DEF Rests

(* or after a write to the row it has in hand. *)
LEMMA WriteRestKeeps ==
    ASSUME AuxiliaryInv, NEW p \in Procs, NEW local \in Process, Rests(p, local),
           Op(p) \in Operations, NEW state \in LaterStates, SetState(Op(p), state),
           Learns,
           state \in FailedStates =>
               \/ Kind(p) = "CONTENT_REGISTER"
               \/ proc[p].pc \in Preparing
               \/ Ends(Op(p), state)
    PROVE  AuxiliaryInv'
<1> USE DEF AuxiliaryInv
<1>1. /\ row'[Op(p)].kind = row[Op(p)].kind /\ row'[Op(p)].state = state
      /\ \A i \in Operations : i # Op(p) => row'[i] = row[i]
  BY Writes
<1>2. /\ Kind(p) = row[Op(p)].kind
      /\ \A o \in proc[p].todo : o \in Operations /\ row[o].state \notin UnsentStates
  BY TypesFacts, ProcTyped DEF Fits, KnowsRow, Op, Kind, Process
<1>3. KnowsRow(local)'
  BY <1>1, <1>2, TypesFacts DEF Rests, KnowsRow, Working, Submitting, Preparing
<1>4. KnowsCall(local)' /\ KnowsKind(local)' /\ SawOutside(local)'
  BY DEF Rests, KnowsCall, KnowsKind, SawOutside, Submitting, Preparing
<1>5. local.pc \notin Submitting /\ local.pc \notin Preparing
  BY DEF Rests, Submitting, Preparing
<1> QED
  BY <1>3, <1>4, <1>5, WriteKeeps DEF Rests, Fits
-----------------------------------------------------------------------------
(* The steps. *)

LEMMA AuxiliaryInvInit == Init => AuxiliaryInv
<1> SUFFICES ASSUME Init PROVE AuxiliaryInv
  OBVIOUS
<1> USE DEF Init
<1>1. TypeOK
  BY IdleFits, AuxiliaryAssumption DEF TypeOK, Row, Outcomes
<1>2. \A p \in Procs : proc[p] = Idle
  OBVIOUS
<1>3. (\A p \in Procs : Fits(proc[p])) /\ OneSubmits
  BY <1>2, IdleFits DEF OneSubmits, Submitting, Preparing
<1>4. UnsentIsQuiet /\ BegunHasKind /\ FailedIsOver /\ LiquifiesRegistered
  BY DEF UnsentIsQuiet, BegunHasKind, FailedIsOver, LiquifiesRegistered, FailedStates
<1>5. OthersAreAlike /\ WalletStays
  BY AuxiliaryAssumption DEF OthersAreAlike, WalletStays
<1> QED
  BY <1>1, <1>3, <1>4, <1>5 DEF AuxiliaryInv

(* Before a row is in hand. *)
LEMMA CommandStep ==
    ASSUME AuxiliaryInv, NEW p \in Procs,
           \/ RegisterContent(p) \/ Liquify(p) \/ Reform(p)
           \/ ContentIsRegistered(p) \/ VaultMayTakeNft(p) \/ VaultMayLockArcl(p)
    PROVE  AuxiliaryInv'
<1> USE DEF AuxiliaryInv
<1>1. ASSUME NEW local \in Process, Rests(p, local), UNCHANGED row, Learns,
             proc[p].pc \in {"idle", "registered", "allowed"}, local.pc # "content"
      PROVE  AuxiliaryInv'
  BY <1>1, RestKeeps DEF Preparing
<1>2. CASE RegisterContent(p)
  <2> DEFINE local == [Idle EXCEPT !.pc = "begin", !.command = "register",
                                   !.kind = "CONTENT_REGISTER"]
  <2>1. /\ local \in Process /\ local.pc = "begin" /\ local.kind = "CONTENT_REGISTER"
        /\ local.op = None /\ local.todo = {}
    BY DEF Idle, Process, Labels, AllCommands, Kinds
  <2>2. Become(p, local) /\ proc[p].pc = "idle" /\ UNCHANGED row /\ Learns
    BY <1>2, NothingLearnt DEF RegisterContent, At, outside
  <2> HIDE DEF local
  <2>3. Rests(p, local)
    BY <2>1, <2>2 DEF Rests, KnowsKind, Kinds
  <2> QED
    BY <1>1, <2>1, <2>2, <2>3
<1>3. CASE Liquify(p)
  <2> DEFINE local == [Idle EXCEPT !.pc = "registered", !.command = "liquify"]
  <2>1. /\ local \in Process /\ local.pc = "registered"
        /\ local.op = None /\ local.todo = {}
    BY DEF Idle, Process, Labels, AllCommands
  <2>2. Become(p, local) /\ proc[p].pc = "idle" /\ UNCHANGED row /\ Learns
    BY <1>3, NothingLearnt DEF Liquify, At, outside
  <2> HIDE DEF local
  <2>3. Rests(p, local)
    BY <2>1, <2>2 DEF Rests, KnowsKind
  <2> QED
    BY <1>1, <2>1, <2>2, <2>3
<1>4. CASE Reform(p)
  <2> DEFINE local == [Idle EXCEPT !.pc = "allowed", !.command = "reform"]
  <2>1. /\ local \in Process /\ local.pc = "allowed"
        /\ local.op = None /\ local.todo = {}
    BY DEF Idle, Process, Labels, AllCommands
  <2>2. Become(p, local) /\ proc[p].pc = "idle" /\ UNCHANGED row /\ Learns
    BY <1>4, NothingLearnt DEF Reform, At, outside
  <2> HIDE DEF local
  <2>3. Rests(p, local)
    BY <2>1, <2>2 DEF Rests, KnowsKind
  <2> QED
    BY <1>1, <2>1, <2>2, <2>3
<1>5. ASSUME NEW kind \in Kinds, Begins(p, kind), UNCHANGED row, Learns,
             proc[p].pc \in {"registered", "allowed"}
      PROVE  AuxiliaryInv'
  <2> DEFINE local == [proc[p] EXCEPT !.pc = "begin", !.kind = kind, !.op = None, !.answer = None]
  <2>1. /\ local \in Process /\ local.pc = "begin" /\ local.kind = kind
        /\ local.op = None /\ local.todo = proc[p].todo
    BY DEF TypeOK, Process, Labels
  <2>2. Become(p, local)
    BY <1>5 DEF Begins
  <2> HIDE DEF local
  <2>3. Rests(p, local)
    BY <2>1, <2>2 DEF Rests, KnowsKind
  <2> QED
    BY <1>1, <1>5, <2>1, <2>3
<1>6. ASSUME Leave(p), UNCHANGED row, Learns,
             proc[p].pc \in {"registered", "allowed"}
      PROVE  AuxiliaryInv'
  BY <1>1, <1>6, LeaveRests, IdleFits
<1>7. ASSUME Goto(p, "allowed"), UNCHANGED row, Learns, proc[p].pc = "registered"
      PROVE  AuxiliaryInv'
  <2> DEFINE local == [proc[p] EXCEPT !.pc = "allowed"]
  <2>1. /\ local \in Process /\ local.pc = "allowed" /\ local.op = Op(p)
        /\ local.kind = Kind(p) /\ local.todo = proc[p].todo
    BY ProcTyped DEF Labels
  <2>2. Become(p, local)
    BY <1>7 DEF Goto
  <2> HIDE DEF local
  <2>3. Rests(p, local)
    BY <2>1, <2>2 DEF Rests, KnowsKind
  <2> QED
    BY <1>1, <1>7, <2>1, <2>3
<1>8. CASE ContentIsRegistered(p)
  <2>1. proc[p].pc = "registered" /\ UNCHANGED row /\ Learns
    BY <1>8, NothingLearnt DEF ContentIsRegistered, At, outside
  <2>2. Goto(p, "allowed") \/ Begins(p, "CONTENT_REGISTER") \/ Leave(p)
    BY <1>8 DEF ContentIsRegistered
  <2> QED
    BY <1>5, <1>6, <1>7, <2>1, <2>2 DEF Kinds
<1>9. CASE VaultMayTakeNft(p)
  <2>1. proc[p].pc = "allowed" /\ UNCHANGED row /\ Learns
    BY <1>9, NothingLearnt DEF VaultMayTakeNft, At, outside
  <2>2. Begins(p, "LIQUIFY") \/ Begins(p, "NFT_APPROVAL")
    BY <1>9 DEF VaultMayTakeNft
  <2> QED
    BY <1>5, <2>1, <2>2 DEF Kinds
<1>10. CASE VaultMayLockArcl(p)
  <2>1. proc[p].pc = "allowed" /\ UNCHANGED row /\ Learns
    BY <1>10, NothingLearnt DEF VaultMayLockArcl, At, outside
  <2>2. Begins(p, "REFORM") \/ Begins(p, "ARCL_APPROVAL")
    BY <1>10 DEF VaultMayLockArcl
  <2> QED
    BY <1>5, <2>1, <2>2 DEF Kinds
<1> QED
  BY <1>2, <1>3, <1>4, <1>8, <1>9, <1>10

(* What is known of the row in hand. *)
LEMMA InHand ==
    ASSUME AuxiliaryInv, NEW p \in Procs, proc[p].pc \in Working
    PROVE  /\ Op(p) \in Operations
           /\ Kind(p) = row[Op(p)].kind
           /\ proc[p].pc \notin Preparing => row[Op(p)].state \notin UnsentStates
           /\ \A o \in proc[p].todo : row[o].state \notin UnsentStates
BY TypesFacts DEF AuxiliaryInv, Fits, KnowsRow, Op, Kind

(* A failed write after which the command is left. *)
LEMMA FailKeeps ==
    ASSUME AuxiliaryInv, NEW p \in Procs, proc[p].pc \in Working,
           NEW state \in LaterStates, SetState(Op(p), state), Leave(p),
           Learns,
           Kind(p) = "CONTENT_REGISTER" \/ proc[p].pc \in Preparing
    PROVE  AuxiliaryInv'
<1>1. Rests(p, Idle) /\ Idle \in Process
  BY LeaveRests, IdleFits DEF AuxiliaryInv
<1> QED
  BY <1>1, InHand, WriteRestKeeps

LEMMA LeaveKeeps ==
    ASSUME AuxiliaryInv, NEW p \in Procs, Leave(p), UNCHANGED row, Learns
    PROVE  AuxiliaryInv'
<1>1. Rests(p, Idle) /\ Idle \in Process /\ Idle.pc = "idle" /\ Idle.op = None
  BY LeaveRests, IdleFits DEF AuxiliaryInv
<1> QED
  BY <1>1, RestKeeps

LEMMA ThrowsKeeps ==
    ASSUME AuxiliaryInv, NEW p \in Procs, proc[p].pc \in Working, Throws(p),
           Learns
    PROVE  AuxiliaryInv'
<1>1. CASE UNCHANGED row
  BY <1>1, LeaveKeeps DEF Throws
<1>2. CASE Kind(p) = "CONTENT_REGISTER" /\ SetState(Op(p), "FAILED_RETRYABLE")
  BY <1>2, FailKeeps DEF Throws, LaterStates, FailedStates
<1> QED
  BY <1>1, <1>2 DEF Throws

(* The process goes on with the row in hand at another label. *)
LEMMA GotoKeeps ==
    ASSUME AuxiliaryInv, NEW p \in Procs, proc[p].pc \in Working,
           NEW label \in Labels, Goto(p, label), UNCHANGED row, Learns,
           label \in Preparing => proc[p].pc \in Preparing,
           proc[p].pc \in Preparing => label \in Preparing,
           label \notin {"submit", "settle", "proof", "content", "begin"},
           label = "prepare" /\ Kind(p) = "LIQUIFY" => chain.registered,
           label \in {"lookup", "count"} => wallet = "eoa"
    PROVE  AuxiliaryInv'
<1> USE DEF AuxiliaryInv
<1>1. PICK local \in Process :
          /\ local = [proc[p] EXCEPT !.pc = label]
          /\ local.pc = label /\ local.op = Op(p)
          /\ local.kind = Kind(p) /\ local.todo = proc[p].todo
  BY ProcTyped
<1>2. Become(p, local)
  BY <1>1 DEF Goto
<1>3. label \in Submitting => label \in Preparing /\ proc[p].pc \in Submitting
  BY DEF Submitting, Preparing
<1>4. Fits(local)'
  <2>1. KnowsRow(local)'
    BY <1>1, InHand DEF Fits, KnowsRow, Op, Kind
  <2>2. KnowsCall(local)' /\ KnowsKind(local)' /\ SawOutside(local)'
    BY <1>1, <1>3 DEF Fits, KnowsCall, KnowsKind, SawOutside, Learns,
                              Preparing, Op, Kind
  <2> QED
    BY <2>1, <2>2 DEF Fits
<1> QED
  BY <1>1, <1>2, <1>3, <1>4, MoveKeeps

(* The same after a write that fails nothing. *)
LEMMA WriteGotoKeeps ==
    ASSUME AuxiliaryInv, NEW p \in Procs, proc[p].pc \in Working,
           NEW state \in LaterStates, SetState(Op(p), state), state \notin FailedStates,
           NEW label \in {"submit", "recover", "query"}, Goto(p, label),
           Learns,
           label = "submit" => proc[p].pc = "prepare"
    PROVE  AuxiliaryInv'
<1> USE DEF AuxiliaryInv
<1>0. label \in Labels
  BY DEF Labels
<1>1. PICK local \in Process :
          /\ local = [proc[p] EXCEPT !.pc = label]
          /\ local.pc = label /\ local.op = Op(p)
          /\ local.kind = Kind(p) /\ local.todo = proc[p].todo
  BY <1>0, ProcTyped
<1>2. Become(p, local)
  BY <1>1 DEF Goto
<1>3. /\ row'[Op(p)].kind = row[Op(p)].kind /\ row'[Op(p)].state = state
      /\ \A i \in Operations : i # Op(p) => row'[i] = row[i]
  BY InHand, Writes
<1>4. /\ Op(p) \in Operations /\ Kind(p) = row[Op(p)].kind
      /\ \A o \in proc[p].todo : o \in Operations /\ row[o].state \notin UnsentStates
  BY InHand, ProcTyped DEF Fits, KnowsRow, Process
<1>5. KnowsRow(local)'
  BY <1>1, <1>3, <1>4, TypesFacts DEF KnowsRow, Preparing
<1>6. KnowsCall(local)' /\ KnowsKind(local)' /\ SawOutside(local)'
  BY <1>1 DEF Fits, KnowsCall, KnowsKind, SawOutside, Learns, Submitting, Preparing,
              Op, Kind
<1>7. /\ local.pc \notin Preparing
      /\ local.pc \in Submitting => proc[p].pc \in Submitting
  BY <1>1 DEF Submitting, Preparing
<1> QED
  BY <1>1, <1>2, <1>4, <1>5, <1>6, <1>7, WriteKeeps DEF Fits

LEMMA BeginStep ==
    ASSUME AuxiliaryInv, NEW p \in Procs, NEW o \in Operations, BeginOperation(p, o)
    PROVE  AuxiliaryInv'
<1> USE DEF AuxiliaryInv
<1> DEFINE pc == IF Kind(p) = "CONTENT_REGISTER" THEN "proof" ELSE "simulate"
           to == [proc[p] EXCEPT !.op = o, !.pc = pc]
           new == [kind |-> Kind(p), state |-> "CREATED"]
<1>1. /\ proc[p].pc = "begin" /\ row[o].state = "ABSENT" /\ Kind(p) \in Kinds
      /\ Become(p, to) /\ row' = [row EXCEPT ![o] = new] /\ UNCHANGED outside
  BY DEF BeginOperation, At, Fits, KnowsKind, Kind
<1>2. PICK local \in Process :
          /\ local = to /\ local.pc = pc /\ local.op = o /\ local.kind = Kind(p)
          /\ local.todo = proc[p].todo
  <2>1. pc \in Labels
    BY DEF Labels
  <2> HIDE DEF pc
  <2>2. /\ to \in Process /\ to.pc = pc /\ to.op = o /\ to.kind = Kind(p)
        /\ to.todo = proc[p].todo
    BY <2>1 DEF TypeOK, Process, Kind
  <2> QED
    BY <2>2
<1>3. new \in Row /\ new.kind = Kind(p) /\ new.state = "CREATED"
  BY <1>1 DEF Row
<1>4. /\ row' \in [Operations -> Row] /\ row'[o] = new
      /\ \A i \in Operations : i # o => row'[i] = row[i]
  BY <1>1, <1>3 DEF TypeOK
<1>5. pc \in {"proof", "simulate"} /\ (pc = "proof" => Kind(p) = "CONTENT_REGISTER")
  OBVIOUS
<1> HIDE DEF to, pc, new
<1>6. /\ proc' \in [Procs -> Process]
      /\ proc'[p] = local
      /\ \A q \in Procs : q # p => proc'[q] = proc[q]
  BY <1>1, <1>2, Becomes
<1>7. TypeOK'
  BY <1>1, <1>4, <1>6 DEF TypeOK, outside
<1>8. \A q \in Procs : q # p => proc[q].op # o
  BY <1>1, TypesFacts DEF Fits, KnowsRow, UnsentStates
<1>9. \A q \in Procs : \A i \in proc[q].todo : i # o /\ i \in Operations
  BY <1>1 DEF Fits, KnowsRow, UnsentStates, TypeOK, Process
<1>10. Fits(local)'
  <2>1. KnowsRow(local)'
    BY <1>2, <1>3, <1>4, <1>5, <1>9 DEF Fits, KnowsRow, Preparing
  <2>2. tx[o] = "none"
    BY <1>1 DEF UnsentIsQuiet, UnsentStates
  <2>3. KnowsCall(local)' /\ KnowsKind(local)' /\ SawOutside(local)'
    BY <1>1, <1>2, <1>5, <2>2 DEF KnowsCall, KnowsKind, SawOutside, outside, Submitting,
                                  Preparing
  <2> QED
    BY <2>1, <2>3 DEF Fits
<1>11. ASSUME NEW q \in Procs, q # p PROVE Fits(proc[q])'
  <2> DEFINE l == proc[q]
  <2>1. proc'[q] = l /\ Fits(l) /\ l \in Process /\ l.op # o
    BY <1>6, <1>8, <1>11 DEF TypeOK
  <2>2. KnowsRow(l)'
    BY <1>4, <1>9, <2>1 DEF Fits, KnowsRow, Process
  <2> QED
    BY <1>1, <2>1, <2>2, NothingLearnt, OthersKeepFit
<1>12. OneSubmits'
  BY <1>2, <1>6, <1>8 DEF OneSubmits, Op
<1>13. UnsentIsQuiet'
  BY <1>1, <1>4 DEF UnsentIsQuiet, UnsentStates, outside
<1>14. FailedIsOver'
  <2>1. ASSUME NEW i \in Operations, i # o, Over(i) PROVE Over(i)'
    <3>1. \A q \in Procs : proc'[q].pc \in Submitting /\ Op(q)' = i =>
              proc[q].pc \in Submitting /\ Op(q) = i
      BY <1>2, <1>6, <2>1 DEF Op
    <3> QED
      BY <1>1, <1>4, <2>1, <3>1 DEF Over, MinedUnseen, TakenForAnother, outside
  <2> QED
    BY <1>3, <1>4, <2>1 DEF FailedIsOver, FailedStates
<1>15. LiquifiesRegistered' /\ OthersAreAlike' /\ WalletStays'
  BY <1>1, <1>4, TypesFacts DEF LiquifiesRegistered, OthersAreAlike, WalletStays, UnsentIsQuiet,
                    UnsentStates, outside
<1>16. BegunHasKind'
  BY <1>1, <1>3, <1>4 DEF BegunHasKind
<1> QED
  BY <1>6, <1>7, <1>10, <1>11, <1>12, <1>13, <1>14, <1>15, <1>16

(* Until the row is attached to a provider request. *)
LEMMA PrepareStep ==
    ASSUME AuxiliaryInv, NEW p \in Procs,
           GetPiProof(p) \/ Simulate(p) \/ Attach(p) \/ PrepareFails(p)
    PROVE  AuxiliaryInv'
<1> USE DEF AuxiliaryInv
<1>1. proc[p].pc \in Preparing /\ proc[p].pc \in Working
  BY DEF GetPiProof, Simulate, Attach, PrepareFails, At, Preparing, Working, Submitting
<1>2. \A state \in {"FAILED", "FAILED_RETRYABLE"} : state \in LaterStates
  BY DEF LaterStates, FailedStates
<1>3. ASSUME NEW state \in {"FAILED", "FAILED_RETRYABLE"}, SetState(Op(p), state), Leave(p),
             UNCHANGED outside
      PROVE  AuxiliaryInv'
  BY <1>1, <1>2, <1>3, NothingLearnt, FailKeeps
<1>4. CASE GetPiProof(p)
  <2>1. CASE UNCHANGED row /\ Goto(p, "simulate")
    BY <1>1, <1>4, <2>1, NothingLearnt, GotoKeeps DEF GetPiProof, Labels, Preparing
  <2> QED
    BY <1>3, <1>4, <2>1 DEF GetPiProof
<1>5. CASE Simulate(p)
  <2>1. CASE Accepts(Kind(p)) /\ UNCHANGED row /\ Goto(p, "prepare")
    <3>1. Kind(p) = "LIQUIFY" => chain.registered
      BY <2>1 DEF Accepts
    <3> QED
      BY <1>1, <1>5, <2>1, <3>1, NothingLearnt, GotoKeeps DEF Simulate, Labels, Preparing
  <2>2. CASE Throws(p)
    BY <1>1, <1>5, <2>2, NothingLearnt, ThrowsKeeps DEF Simulate
  <2> QED
    BY <1>3, <1>5, <2>1, <2>2 DEF Simulate
<1>6. CASE Attach(p)
  <2>1. Op(p) \in Operations /\ row[Op(p)].state = "CREATED"
    BY <1>1, <1>6, InHand DEF Attach
  <2>2. "WALLET_SUBMITTING" \in LaterStates \ FailedStates
    BY DEF LaterStates, UnresolvedStates, FailedStates
  <2>3. /\ row'[Op(p)].state = "WALLET_SUBMITTING"
        /\ \A i \in Operations : i # Op(p) => row'[i] = row[i]
    BY <1>6, <2>1, <2>2, Writes DEF Attach
  <2>4. handle[Op(p)] = None
    BY <2>1 DEF UnsentIsQuiet, UnsentStates
  <2>5. Learns
    BY <1>6, <2>1, <2>2, <2>3, <2>4, TypesFacts DEF Attach, Learns, TypeOK
  <2> QED
    BY <1>1, <1>6, <2>2, <2>5, WriteGotoKeeps DEF Attach, At
<1>7. CASE PrepareFails(p)
  BY <1>3, <1>7 DEF PrepareFails
<1> QED
  BY <1>4, <1>5, <1>6, <1>7

LEMMA SubmitStep ==
    ASSUME AuxiliaryInv, NEW p \in Procs, SubmitCall(p)
    PROVE  AuxiliaryInv'
<1> USE DEF AuxiliaryInv
<1>0. PICK o : o = Op(p)
  OBVIOUS
<1>1. PICK local \in Process :
          /\ local = [proc[p] EXCEPT !.pc = "answer"]
          /\ local.pc = "answer" /\ local.op = o
          /\ local.kind = Kind(p) /\ local.todo = proc[p].todo
  BY <1>0, ProcTyped DEF Labels
<1>2. /\ proc[p].pc = "submit" /\ Become(p, local) /\ UNCHANGED <<row, chain, handle, wallet>>
      /\ tx[o] = "none"
      /\ tx' = [tx EXCEPT ![o] = "out"]
  BY <1>0, <1>1 DEF SubmitCall, At, Goto
<1>3. proc[p].pc \in Submitting /\ proc[p].pc \in Working /\ proc[p].pc \notin Preparing
  BY <1>2 DEF Submitting, Working, Preparing
<1>4. /\ o \in Operations /\ Kind(p) = row[o].kind /\ row[o].state \notin UnsentStates
      /\ tx[o] = "none" /\ (Kind(p) = "LIQUIFY" => chain.registered)
      /\ \A i \in proc[p].todo : row[i].state \notin UnsentStates
  BY <1>0, <1>2, <1>3, InHand DEF Fits, KnowsCall, SawOutside, Op, Kind
<1>5. /\ proc' \in [Procs -> Process]
      /\ proc'[p] = local
      /\ \A q \in Procs : q # p => proc'[q] = proc[q]
  BY <1>1, <1>2, Becomes
<1>6. TypeOK'
  BY <1>2, <1>4, <1>5 DEF TypeOK, Outcomes
<1>7. tx'[o] = "out" /\ \A i \in Operations : i # o => tx'[i] = tx[i]
  BY <1>2, <1>4 DEF TypeOK
<1>8. Fits(local)'
  BY <1>1, <1>2, <1>4 DEF Fits, KnowsRow, KnowsCall, KnowsKind, SawOutside,
                          Preparing, Submitting, Working
<1>9. ASSUME NEW q \in Procs, q # p PROVE Fits(proc[q])'
  <2> DEFINE l == proc[q]
  <2>1. proc'[q] = l /\ Fits(l) /\ l \in Process
    BY <1>5, <1>9 DEF TypeOK
  <2>2. l.pc \in Submitting => l.op # o
    BY <1>0, <1>3, <1>9 DEF OneSubmits, Op
  <2>3. KnowsCall(l)'
    BY <1>2, <1>4, <1>7, <2>1, <2>2 DEF Fits, KnowsRow, KnowsCall, Ends, Working, Submitting,
                                       Preparing
  <2>4. KnowsRow(l)' /\ KnowsKind(l)' /\ SawOutside(l)'
    BY <1>2, <2>1 DEF Fits, KnowsRow, KnowsKind, SawOutside
  <2> QED
    BY <2>1, <2>3, <2>4 DEF Fits
<1>10. OneSubmits'
  <2>1. local.pc \notin Submitting
    BY <1>1 DEF Submitting, Preparing
  <2> QED
    BY <1>5, <2>1 DEF OneSubmits, Op
<1>11. UnsentIsQuiet'
  <2> SUFFICES ASSUME NEW i \in Operations, row'[i].state \in UnsentStates
               PROVE  tx'[i] = "none" /\ handle'[i] = None
    BY DEF UnsentIsQuiet
  <2>1. row[i].state \in UnsentStates /\ i # o
    BY <1>2, <1>4
  <2> QED
    BY <1>2, <1>7, <2>1 DEF UnsentIsQuiet
<1>12. FailedIsOver'
  <2>1. \A q \in Procs : proc'[q].pc \in Submitting =>
            proc[q].pc \in Submitting /\ proc'[q].op = Op(q)
    BY <1>1, <1>5 DEF Op, Submitting, Preparing
  <2>2. ASSUME NEW i \in Operations, i # o, Over(i) PROVE Over(i)'
    BY <1>2, <1>7, <2>1, <2>2 DEF Over, MinedUnseen, TakenForAnother, Op
  <2>3. Over(o) => Over(o)'
    BY <1>0, <1>2, <1>3 DEF Over, MinedUnseen, TakenForAnother
  <2> QED
    BY <1>2, <2>2, <2>3 DEF FailedIsOver
<1>13. LiquifiesRegistered'
  BY <1>2, <1>4, <1>7 DEF LiquifiesRegistered
<1>14. BegunHasKind' /\ OthersAreAlike' /\ WalletStays'
  BY <1>2 DEF BegunHasKind, OthersAreAlike, WalletStays
<1> QED
  BY <1>5, <1>6, <1>8, <1>9, <1>10, <1>11, <1>12, <1>13, <1>14

(* From the answer of the wallet on, and recovery. *)
LEMMA AnswerStep ==
    ASSUME AuxiliaryInv, NEW p \in Procs,
           RecordWalletHandle(p) \/ LoseSubmission(p)
    PROVE  AuxiliaryInv'
<1> USE DEF AuxiliaryInv
<1>1. "TX_PENDING" \in LaterStates \ FailedStates /\ "SUBMISSION_UNKNOWN" \in LaterStates \ FailedStates
  BY DEF LaterStates, UnresolvedStates, FailedStates
<1>2. CASE LoseSubmission(p)
  <2>1. proc[p].pc \in Working
    BY <1>2 DEF LoseSubmission, At, Working, Submitting
  <2> QED
    BY <1>1, <1>2, <2>1, NothingLearnt, WriteGotoKeeps DEF LoseSubmission
<1>3. CASE RecordWalletHandle(p)
  <2>1. /\ proc[p].pc = "answer" /\ proc[p].pc \in Working /\ proc[p].pc \notin Preparing
    BY <1>3 DEF RecordWalletHandle, At, Working, Preparing
  <2>2. Op(p) \in Operations
    BY <2>1, InHand
  <2>3. Goto(p, "recover") \/ Returned(p, row'[Op(p)].state)
    BY <1>3 DEF RecordWalletHandle
  <2>4. UNCHANGED row \/ SetState(Op(p), "TX_PENDING")
    BY <1>3 DEF RecordWalletHandle
  <2>8. row'[Op(p)].state \notin UnsentStates
    <3>1. row[Op(p)].state \notin UnsentStates
      BY <2>1, InHand
    <3>2. CASE SetState(Op(p), "TX_PENDING")
      BY <1>1, <2>2, <3>2, Writes, TypesFacts
    <3> QED
      BY <2>4, <3>1, <3>2
  <2>9. Learns
    BY <1>3, <2>2, <2>8 DEF RecordWalletHandle, Learns, TypeOK
  <2>5. CASE Goto(p, "recover") /\ UNCHANGED row
    BY <2>1, <2>5, <2>9, GotoKeeps DEF Labels, Preparing
  <2>6. CASE Goto(p, "recover") /\ SetState(Op(p), "TX_PENDING")
    BY <1>1, <2>1, <2>6, <2>9, WriteGotoKeeps
  <2>7. ASSUME NEW local \in Process, Rests(p, local) PROVE AuxiliaryInv'
    <3>1. CASE UNCHANGED row
      BY <2>1, <2>2, <2>7, <2>9, <3>1, RestKeeps
    <3>2. CASE SetState(Op(p), "TX_PENDING")
      BY <1>1, <2>1, <2>2, <2>7, <2>9, <3>2, WriteRestKeeps
    <3> QED
      BY <2>4, <3>1, <3>2
  <2> QED
    BY <2>3, <2>4, <2>5, <2>6, <2>7, ReturnedRests
<1> QED
  BY <1>2, <1>3
LEMMA LoopStep ==
    ASSUME AuxiliaryInv, NEW p \in Procs, RecoverOutstanding(p) \/ Loop(p)
    PROVE  AuxiliaryInv'
<1> USE DEF AuxiliaryInv
<1>1. CASE RecoverOutstanding(p)
  <2> DEFINE todo == {o \in Operations : row[o].state \in UnresolvedStates}
             next == [Idle EXCEPT !.pc = "loop", !.command = "status", !.todo = todo]
  <2>1. todo \subseteq Operations /\ \A o \in todo : row[o].state \notin UnsentStates
    BY DEF UnresolvedStates, UnsentStates
  <2>2. Become(p, next) /\ UNCHANGED row /\ Learns
    BY <1>1, NothingLearnt DEF RecoverOutstanding, outside
  <2> HIDE DEF todo
  <2>5. next \in Process /\ next.pc = "loop" /\ next.op = None /\ next.todo = todo
    BY <2>1 DEF Idle, Process, Labels, AllCommands
  <2> HIDE DEF next
  <2>3. PICK local \in Process :
            /\ local = next /\ local.pc = "loop" /\ local.op = None
            /\ local.todo = todo
    BY <2>5
  <2>4. Fits(local)' /\ local.pc \notin Submitting
    BY <2>1, <2>2, <2>3 DEF Fits, KnowsRow, KnowsCall, KnowsKind, SawOutside,
                      Submitting, Preparing, Working
  <2> QED
    BY <2>2, <2>3, <2>4, MoveKeeps
<1>2. ASSUME NEW o \in proc[p].todo, UNCHANGED row, Learns,
             Become(p, [proc[p] EXCEPT !.pc = "recover", !.op = o, !.kind = row[o].kind,
                                       !.todo = @ \ {o}])
      PROVE  AuxiliaryInv'
  <2> DEFINE next == [proc[p] EXCEPT !.pc = "recover", !.op = o, !.kind = row[o].kind,
                                     !.todo = proc[p].todo \ {o}]
  <2>1. /\ o \in Operations /\ proc[p].todo \subseteq Operations
        /\ \A i \in proc[p].todo : row[i].state \notin UnsentStates
        /\ row[o].kind \in Kinds \cup {None}
    BY DEF TypeOK, Process, Fits, KnowsRow, Row
  <2>5. /\ next \in Process /\ next.pc = "recover" /\ next.op = o
        /\ next.kind = row[o].kind /\ next.todo = proc[p].todo \ {o}
    BY <2>1 DEF TypeOK, Process, Labels
  <2>6. Become(p, next)
    BY <1>2
  <2> HIDE DEF next
  <2>2. PICK local \in Process :
            /\ local = next /\ local.pc = "recover" /\ local.op = o
            /\ local.kind = row[o].kind /\ local.todo = proc[p].todo \ {o}
    BY <2>5
  <2>3. Become(p, local)
    BY <2>2, <2>6
  <2>4. Fits(local)' /\ local.pc \notin Submitting
    BY <1>2, <2>1, <2>2 DEF Fits, KnowsRow, KnowsCall, KnowsKind, SawOutside,
                      Submitting, Preparing, Working
  <2> QED
    BY <1>2, <2>2, <2>3, <2>4, MoveKeeps
<1>3. CASE Loop(p) /\ Leave(p)
  BY <1>3, NothingLearnt, LeaveKeeps DEF Loop, outside
<1> QED
  BY <1>1, <1>2, <1>3, NothingLearnt DEF Loop, outside

(* The answer is one of those that can end the row, after the step. *)
LEMMA AnsweredKeeps ==
    ASSUME AuxiliaryInv, NEW p \in Procs, proc[p].pc \in {"query", "lookup", "count"},
           NEW o \in Operations, o = Op(p),
           NEW a \in Answers, Answered(p, a), UNCHANGED row, Learns,
           a \in {"REVERTED", "REPLACED"} => Ends(o, a)'
    PROVE  AuxiliaryInv'
<1> USE DEF AuxiliaryInv
<1> DEFINE next == [proc[p] EXCEPT !.pc = "settle", !.answer = a]
<1>0. /\ next \in Process /\ next.pc = "settle" /\ next.op = o /\ next.answer = a
      /\ next.kind = Kind(p) /\ next.todo = proc[p].todo
  BY DEF TypeOK, Process, Labels, Answers, Op, Kind
<1>7. Become(p, next)
  BY DEF Answered
<1> HIDE DEF next
<1>1. PICK local \in Process :
          /\ local = next /\ local.pc = "settle" /\ local.op = o /\ local.answer = a
          /\ local.kind = Kind(p) /\ local.todo = proc[p].todo
  BY <1>0
<1>2. Become(p, local)
  BY <1>1, <1>7
<1>3. local.pc \notin Submitting /\ local.pc \notin Preparing
  BY <1>1 DEF Submitting, Preparing
<1>4. proc[p].pc \in Working /\ proc[p].pc \notin Preparing
  BY DEF Working, Preparing
<1>5. KnowsRow(local)'
  BY <1>1, <1>3, <1>4, InHand DEF KnowsRow
<1>6. KnowsCall(local)' /\ KnowsKind(local)' /\ SawOutside(local)'
  BY <1>1, <1>3 DEF KnowsCall, KnowsKind, SawOutside
<1> QED
  BY <1>1, <1>2, <1>3, <1>5, <1>6, MoveKeeps DEF Fits

LEMMA QueryStep ==
    ASSUME AuxiliaryInv, NEW p \in Procs, Queries(p)
    PROVE  AuxiliaryInv'
<1> USE DEF AuxiliaryInv
<1>1. proc[p].pc \in {"query", "lookup", "count"} /\ proc[p].pc \in Working
      /\ proc[p].pc \notin Preparing
  BY DEF Queries, QueryCircle, ReadReceipt, LookupTransaction, CountTransactions, At,
         Working, Preparing
<1>2. PICK o \in Operations : o = Op(p)
  BY <1>1, InHand
<1>9. /\ tx[o] \in Outcomes /\ Kind(p) = row[o].kind /\ row[o].state \notin UnsentStates
  BY <1>1, <1>2, InHand DEF TypeOK
<1>3. ASSUME Throws(p), UNCHANGED outside PROVE AuxiliaryInv'
  BY <1>1, <1>3, NothingLearnt, ThrowsKeeps
<1>4. ASSUME NEW label \in {"lookup", "count"}, Goto(p, label), UNCHANGED <<row, outside>>,
             wallet = "eoa"
      PROVE  AuxiliaryInv'
  BY <1>1, <1>4, NothingLearnt, GotoKeeps DEF Labels, Preparing, outside
<1>5. CASE QueryCircle(p)
  <2>1. ASSUME NEW whose \in {"own", "other"}, AskCircle(p, whose), UNCHANGED <<tx, chain, wallet>>,
               whose = "other" => Kind(p) \in Alike
        PROVE  AuxiliaryInv'
    <3>1. Learns /\ handle'[o] = whose
      BY <1>2, <1>9, <2>1, TypesFacts DEF AskCircle, Learns, TypeOK
    <3>2. PICK a \in (IF whose = "own" THEN Truth(o) ELSE {"PENDING", "CONFIRMED", "REVERTED"}) :
              Answered(p, a)
      BY <1>2, <2>1 DEF AskCircle
    <3>3. a \in Answers /\ (a \in {"REVERTED", "REPLACED"} => Ends(o, a)')
      <4>1. CASE whose = "other"
        <5>1. a \in {"PENDING", "CONFIRMED", "REVERTED"}
          BY <3>2, <4>1
        <5>2. a = "REVERTED" => (handle'[o] = "other" /\ a = "REVERTED")
          BY <3>1, <4>1
        <5> QED
          BY <5>1, <5>2 DEF Answers, Ends
      <4>2. CASE whose = "own"
        BY <1>2, <1>9, <2>1, <3>2, <4>2 DEF Truth, Answers, Ends, Outcomes
      <4> QED
        BY <4>1, <4>2
    <3> QED
      BY <1>1, <2>1, <3>1, <3>2, <3>3, <1>2, AnsweredKeeps DEF AskCircle
  <2>2. ASSUME Answered(p, "UNKNOWN"), UNCHANGED <<row, outside>> PROVE AuxiliaryInv'
    BY <1>1, <2>2, NothingLearnt, <1>2, AnsweredKeeps DEF Answers, outside
  <2> QED
    BY <1>3, <1>5, <2>1, <2>2 DEF QueryCircle, outside
<1>6. CASE ReadReceipt(p)
  <2>1. ASSUME NEW a \in Truth(o), tx[o] \in {"done", "reverted"}, Answered(p, a)
        PROVE  AuxiliaryInv'
    <3>1. a \in Answers /\ (a \in {"REVERTED", "REPLACED"} => Ends(o, a)')
      BY <1>2, <1>9, <1>6, <2>1 DEF Truth, Answers, Ends, Outcomes, ReadReceipt, outside
    <3> QED
      BY <1>1, <1>6, <2>1, <3>1, NothingLearnt, <1>2, AnsweredKeeps DEF ReadReceipt, outside
  <2> QED
    BY <1>2, <1>4, <1>6, <2>1 DEF ReadReceipt
<1>7. CASE LookupTransaction(p)
  <2>1. CASE Answered(p, "PENDING")
    BY <1>1, <1>7, <2>1, NothingLearnt, <1>2, AnsweredKeeps DEF Answers, LookupTransaction, outside
  <2>2. wallet = "eoa"
    BY <1>7 DEF LookupTransaction, At, Fits, SawOutside
  <2> QED
    BY <1>4, <1>7, <2>1, <2>2 DEF LookupTransaction
<1>8. CASE CountTransactions(p)
  <2>0. PICK a : a = IF tx[o] \in {"done", "reverted", "replaced"} THEN "REPLACED" ELSE "UNKNOWN"
    OBVIOUS
  <2>1. ASSUME Answered(p, a), UNCHANGED row PROVE AuxiliaryInv'
    <3>1. UNCHANGED outside
      BY <1>8 DEF CountTransactions
    <3>2. tx[o] = "done" => wallet = "eoa"
      BY <1>8 DEF CountTransactions, At, Fits, SawOutside, Op
    <3>3. a \in Answers /\ (a \in {"REVERTED", "REPLACED"} => Ends(o, a)')
      BY <1>9, <2>0, <3>1, <3>2 DEF Answers, Ends, outside
    <3> QED
      BY <1>1, <2>1, <3>1, <3>3, NothingLearnt, <1>2, AnsweredKeeps
  <2> QED
    BY <1>2, <1>3, <1>8, <2>0, <2>1 DEF CountTransactions
<1> QED
  BY <1>5, <1>6, <1>7, <1>8 DEF Queries

LEMMA RecoveryStep ==
    ASSUME AuxiliaryInv, NEW p \in Procs, MarkRecovering(p)
    PROVE  AuxiliaryInv'
<1> USE DEF AuxiliaryInv
<1>1. /\ proc[p].pc = "recover" /\ proc[p].pc \in Working
      /\ proc[p].pc \notin Preparing /\ Learns
  BY NothingLearnt DEF MarkRecovering, At, Working, Preparing
<1>2. CASE SetState(Op(p), "RECOVERING") /\ Goto(p, "query")
  <2>1. "RECOVERING" \in LaterStates \ FailedStates
    BY DEF LaterStates, UnresolvedStates, FailedStates
  <2> QED
    BY <1>1, <1>2, <2>1, WriteGotoKeeps
<1>3. CASE Throws(p)
  BY <1>1, <1>3, ThrowsKeeps
<1> QED
  BY <1>2, <1>3 DEF MarkRecovering

LEMMA SettleStep ==
    ASSUME AuxiliaryInv, NEW p \in Procs, Settle(p) \/ ContentRegistered(p)
    PROVE  AuxiliaryInv'
<1> USE DEF AuxiliaryInv
<1>1. /\ proc[p].pc \in {"settle", "content"} /\ proc[p].pc \in Working
      /\ proc[p].pc \notin Preparing /\ Learns
  BY NothingLearnt DEF Settle, ContentRegistered, At, Working, Preparing
<1>2. Op(p) \in Operations
  BY <1>1, InHand
<1>3. CASE Settle(p)
  <2> DEFINE a == proc[p].answer
             state == CASE a = "PENDING" -> "TX_PENDING"
                        [] a = "CONFIRMED" -> ConfirmedState(Kind(p))
                        [] a \in {"REVERTED", "REPLACED"} -> a
                        [] a = "UNKNOWN" -> "SUBMISSION_UNKNOWN"
  <2>1. SetState(Op(p), state) /\ Returned(p, state)
    BY <1>3 DEF Settle
  <2>2. /\ a \in Answers
        /\ a \in {"REVERTED", "REPLACED"} => Ends(Op(p), a)
    BY <1>3 DEF Settle, At, Fits, KnowsCall, Op
  <2>3. ConfirmedState(Kind(p)) \in ConfirmedStates
    BY DEF ConfirmedState, ConfirmedStates
  <2>4. state \in LaterStates /\ (state \in FailedStates => Ends(Op(p), state))
    BY <2>2, <2>3 DEF LaterStates, UnresolvedStates, ConfirmedStates, FailedStates, Answers
  <2> HIDE DEF state
  <2>5. PICK local \in Process : Rests(p, local)
    BY <2>1, ReturnedRests
  <2> QED
    BY <1>1, <1>2, <2>1, <2>2, <2>4, <2>5, WriteRestKeeps
<1>4. CASE ContentRegistered(p)
  <2>1. proc[p].pc = "content" /\ Kind(p) = "CONTENT_REGISTER"
    BY <1>4 DEF ContentRegistered, At, Fits, KnowsKind, Kind
  <2>2. CASE UNCHANGED row /\ GoesOn(p)
    <3>1. PICK local \in Process : Rests(p, local)
      BY <2>2, GoesOnRests
    <3> QED
      BY <1>1, <1>2, <2>2, <3>1, RestKeeps
  <2>3. CASE SetState(Op(p), "FAILED") /\ Leave(p)
    BY <1>1, <2>1, <2>3, FailKeeps DEF LaterStates, FailedStates
  <2> QED
    BY <1>4, <2>2, <2>3 DEF ContentRegistered
<1> QED
  BY <1>3, <1>4

(* The contracts never unregister content. *)
LEMMA AfterKeeps ==
    ASSUME TypeOK, NEW kind \in Kinds
    PROVE  After(kind) \in Arcal /\ (chain.registered => After(kind).registered)
BY DEF TypeOK, After, Arcal, Kinds

LEMMA ChainStep ==
    ASSUME AuxiliaryInv, NEW o \in Operations,
           Land(o) \/ LandHollow(o) \/ Revert(o) \/ UseNonce(o)
    PROVE  AuxiliaryInv'
<1> USE DEF AuxiliaryInv
<1>1. /\ UNCHANGED <<row, handle, wallet, proc>>
      /\ \/ tx[o] = "out"
         \/ tx[o] = "none" /\ UseNonce(o)
      /\ \E end \in {"done", "hollow", "reverted", "replaced"} : tx' = [tx EXCEPT ![o] = end]
  BY DEF Land, LandHollow, Revert, UseNonce
<1>2. /\ tx' \in [Operations -> Outcomes]
      /\ tx'[o] \in {"done", "hollow", "reverted", "replaced"}
      /\ tx[o] = "none" => tx'[o] = "replaced"
      /\ \A i \in Operations : i # o => tx'[i] = tx[i]
  BY <1>1 DEF TypeOK, Outcomes, UseNonce
<1>3. row[o].state \notin UnsentStates
  BY <1>1 DEF UnsentIsQuiet, UseNonce, UnsentStates
<1>4. chain' \in Arcal /\ (chain.registered => chain'.registered)
  <2>1. CASE chain' = chain
    BY <2>1 DEF TypeOK
  <2>2. CASE Land(o)
    <3>1. row[o].kind \in Kinds
      BY <1>3 DEF BegunHasKind, UnsentStates
    <3> QED
      BY <2>2, <3>1, AfterKeeps DEF Land
  <2> QED
    BY <2>1, <2>2 DEF LandHollow, Revert, UseNonce
<1>5. TypeOK'
  BY <1>1, <1>2, <1>4 DEF TypeOK
<1>6. \A p \in Procs : Fits(proc[p])'
  <2>1. ASSUME NEW p \in Procs PROVE Fits(proc[p])'
    <3> DEFINE l == proc[p]
    <3>1. proc'[p] = l /\ Fits(l) /\ l \in Process
      BY <1>1 DEF TypeOK
    <3>2. l.pc \in Preparing => l.op # o
      <4> SUFFICES ASSUME l.pc \in Preparing, l.op = o PROVE FALSE
        OBVIOUS
      <4>1. row[o].state = "CREATED"
        BY <3>1, TypesFacts DEF Fits, KnowsRow
      <4> QED
        BY <1>3, <4>1 DEF UnsentStates
    <3>3. KnowsCall(l)'
      BY <1>1, <1>2, <3>1, <3>2 DEF Fits, KnowsRow, KnowsCall, Ends, Working, Submitting,
                                     Preparing
    <3>4. KnowsRow(l)' /\ KnowsKind(l)' /\ SawOutside(l)'
      BY <1>1, <1>4, <3>1 DEF Fits, KnowsRow, KnowsKind, SawOutside
    <3> QED
      BY <3>1, <3>3, <3>4 DEF Fits
  <2> QED
    BY <2>1
<1>7. OneSubmits'
  BY <1>1 DEF OneSubmits, Op
<1>8. UnsentIsQuiet'
  BY <1>1, <1>2, <1>3 DEF UnsentIsQuiet
<1>9. FailedIsOver'
  <2>1. ASSUME NEW i \in Operations, Over(i) PROVE Over(i)'
    BY <1>1, <1>2, <2>1 DEF Over, MinedUnseen, TakenForAnother, Op
  <2> QED
    BY <1>1, <2>1 DEF FailedIsOver
<1>10. LiquifiesRegistered'
  BY <1>1, <1>2, <1>4 DEF LiquifiesRegistered
<1>11. BegunHasKind' /\ OthersAreAlike' /\ WalletStays'
  BY <1>1 DEF BegunHasKind, OthersAreAlike, WalletStays
<1> QED
  BY <1>5, <1>6, <1>7, <1>8, <1>9, <1>10, <1>11

LEMMA AuxiliaryInvNext == AuxiliaryInv /\ [Next]_vars => AuxiliaryInv'
<1> SUFFICES ASSUME AuxiliaryInv, [Next]_vars PROVE AuxiliaryInv'
  OBVIOUS
<1>1. ASSUME NEW p \in Procs, Sends(p) PROVE AuxiliaryInv'
  BY <1>1, CommandStep, BeginStep, PrepareStep, SubmitStep, AnswerStep DEF Sends
<1>2. ASSUME NEW p \in Procs, Recovers(p) PROVE AuxiliaryInv'
  BY <1>2, LoopStep, RecoveryStep, QueryStep, SettleStep DEF Recovers
<1>3. ASSUME NEW p \in Procs, Crash(p) PROVE AuxiliaryInv'
  BY <1>3, NothingLearnt, LeaveKeeps DEF Crash, AuxiliaryInv, outside
<1>4. CASE UNCHANGED vars
  BY <1>4 DEF vars, outside, AuxiliaryInv, TypeOK, Fits, KnowsRow, KnowsCall, KnowsKind, Ends,
              SawOutside, OneSubmits, UnsentIsQuiet, BegunHasKind,
              FailedIsOver, Over, MinedUnseen, TakenForAnother, OthersAreAlike, WalletStays,
              LiquifiesRegistered, Op
<1> QED
  BY <1>1, <1>2, <1>3, <1>4, ChainStep DEF Next

(* What the commands and the recoveries know of the rows they work on:     *)
(* their kind, whether a request is attached and whether the content was   *)
(* seen registered; and that each row has at most one process that may     *)
(* send its call (executeAuxiliary, registerContentOperation,              *)
(* recoverOperation; agent.ts).                                            *)
THEOREM AuxiliaryInvHolds == Spec => []AuxiliaryInv
<1> QED
  BY AuxiliaryInvInit, AuxiliaryInvNext, PTL DEF Spec

(* What an approval or a conversion can be when it is lost. *)
LEMMA LostIsAnswered ==
    ASSUME AuxiliaryInv, NEW o \in Operations, row[o].kind # "CONTENT_REGISTER", Lost(o)
    PROVE  MinedUnseen(o) \/ TakenForAnother(o)
<1>1. row[o].state \notin UnsentStates
  BY DEF AuxiliaryInv, UnsentIsQuiet, Lost
<1>2. row[o].state \in {"ABSENT", "CREATED"} \cup UnresolvedStates
                          \cup ConfirmedStates \cup FailedStates
  BY DEF AuxiliaryInv, TypeOK, Row
<1>3. Over(o)
  BY <1>1, <1>2 DEF AuxiliaryInv, FailedIsOver, Lost, UnsentStates
<1> QED
  BY <1>3 DEF Over, Lost

(* With either wallet, whatever commands and recoveries run at a time, die *)
(* and overwrite each other: only a transaction mined between the reads of *)
(* a plain account and a Circle operation taken for another's make an      *)
(* approval or a conversion lost that is out or has taken effect.          *)
THEOREM NoneWrittenOff == Spec => []Tracked
<1>1. AuxiliaryInv => Tracked
  BY LostIsAnswered DEF Tracked
<1> QED
  BY <1>1, AuxiliaryInvHolds, PTL

(* A Circle wallet that takes no operation for an approval or a conversion *)
(* that is not that one's loses none.                                      *)
THEOREM CircleLosesNone ==
    ASSUME \A s \in Starts : s.wallet = "circle", Alike \subseteq {"CONTENT_REGISTER"}
    PROVE  Spec => []NeverLost
<1>1. AuxiliaryInv => NeverLost
  <2> SUFFICES ASSUME AuxiliaryInv, NEW o \in Operations, row[o].kind # "CONTENT_REGISTER", Lost(o)
               PROVE  FALSE
    BY DEF NeverLost
  <2>1. ~MinedUnseen(o)
    BY DEF AuxiliaryInv, WalletStays, MinedUnseen
  <2>2. ~TakenForAnother(o)
    BY DEF AuxiliaryInv, OthersAreAlike, TakenForAnother
  <2> QED
    BY <2>1, <2>2, LostIsAnswered
<1> QED
  BY <1>1, AuxiliaryInvHolds, PTL

(* A liquify that reaches a wallet is of registered content. *)
THEOREM OnlyRegisteredIsLiquified == Spec => []LiquifiesRegistered
<1>1. AuxiliaryInv => LiquifiesRegistered
  BY DEF AuxiliaryInv
<1> QED
  BY <1>1, AuxiliaryInvHolds, PTL
============================================================================
