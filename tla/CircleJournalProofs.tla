------------------------ MODULE CircleJournalProofs ------------------------
(***************************************************************************)
(* Proofs about CircleJournal: what the journal of the Circle driver never *)
(* loses, and that Mints, which go out one at a time and whose calls       *)
(* differ, are each bound to the operation Circle made of them and ended   *)
(* as that operation ended.                                                *)
(***************************************************************************)
EXTENDS CircleJournal, TLAPS

Operations == [state : States \cup {"none"}, createdAt : 0..MaxClock]

Waiting == [step : Steps, request : Requests \cup {None},
            record : Records \cup {None}, list : [Requests -> Operations],
            candidates : SUBSET Requests]

Made(r) == operation[r].state # "none"

Ended == {"COMPLETE", "FAILED", "DENIED"}

(* What record an asker has read is still so, though more may be known. *)
StillSays(record, r) ==
    /\ record.preparedAt = journal[r].preparedAt
    /\ record.operation # None => journal[r].operation = record.operation
    /\ record.hash => journal[r].hash

(* The list an asker has got shows each operation as it once was. *)
OnceWas(list, r) ==
    list[r].state # "none" =>
        /\ Made(r)
        /\ list[r].state \in Ended => operation[r].state = list[r].state

-----------------------------------------------------------------------------
(* What holds of any requests. *)

ProcessesTyped == process \in [Processes -> Waiting]

(* A request somebody works on is one on disk. *)
Journaled ==
    /\ \A r \in executed : journal[r] # None
    /\ \A p \in Processes : process[p].step # "idle" =>
           process[p].request \in Requests /\ journal[process[p].request] # None

(* One process has a prepared request in hand, and has not executed it. *)
PreparedOnce == \A p \in Processes : process[p].step = "prepared" =>
    /\ process[p].request \notin executed
    /\ \A q \in Processes :
           process[q].step = "prepared" /\ process[q].request = process[p].request => q = p

Remembered == \A p \in Processes : process[p].step \in {"listing", "reading"} =>
    /\ process[p].request \in executed
    /\ process[p].record # None
    /\ StillSays(process[p].record, process[p].request)

(* Circle makes an operation of an execute that has reached it, once. *)
MadeOnce ==
    /\ \A r \in Requests : Made(r) => r \in executed /\ r \notin wire
    /\ \A r \in shown : Made(r)

ListsAreOld == \A p \in Processes, r \in Requests : OnceWas(process[p].list, r)

JournalInv ==
    /\ TypeOK /\ ProcessesTyped /\ Journaled /\ PreparedOnce
    /\ Remembered /\ MadeOnce /\ ListsAreOld

-----------------------------------------------------------------------------
(* What holds of Mints. *)

(* Their calls differ, and one is out at a time. *)
MintsOnly ==
    /\ OneOut
    /\ \A r, s \in Requests : CallOf[r] = CallOf[s] => r = s

(* The agent is told an end only of what is bound. *)
ToldIsBound == \A r \in Requests : told[r] # {} => Bound(r)

OneUntold == \A r, s \in executed : told[r] = {} /\ told[s] = {} => r = s

MintsInv == BoundToOwn /\ ToldIsBound /\ OneUntold /\ ToldIsTrue
(* The same record, bound to op. *)
LEMMA BindEffect ==
    ASSUME journal \in [Requests -> Records \cup {None}],
           NEW r \in Requests, NEW op \in Requests, NEW hash \in BOOLEAN,
           journal[r] # None, ~Conflict(r, op), Bind(r, op, hash)
    PROVE  /\ journal' \in [Requests -> Records \cup {None}]
           /\ \A s \in Requests : s # r => journal'[s] = journal[s]
           /\ journal'[r] # None
           /\ journal'[r].preparedAt = journal[r].preparedAt
           /\ journal'[r].operation = op
           /\ Bound(r) => journal[r].operation = op
           /\ journal[r].hash => journal'[r].hash
<1> DEFINE new == [journal[r] EXCEPT !.operation = op, !.hash = hash \/ journal[r].hash]
<1>1. journal[r] \in Records
  OBVIOUS
<1>2. /\ new \in Records
      /\ new.preparedAt = journal[r].preparedAt
      /\ new.operation = op
      /\ journal[r].hash => new.hash
  BY <1>1 DEF Records
<1>3. journal' = [journal EXCEPT ![r] = new]
  BY DEF Bind
<1> HIDE DEF new
<1>4. new # None
  BY <1>2, NoRecordAssumption
<1> QED
  BY <1>2, <1>3, <1>4 DEF Conflict

(* An action of a process leaves the others as they were. *)
LEMMA ProcessMoves ==
    ASSUME ProcessesTyped, NEW p \in Processes, NEW state \in Waiting, Become(p, state)
    PROVE  /\ ProcessesTyped'
           /\ process'[p] = state
           /\ \A q \in Processes : q # p => process'[q] = process[q]
BY DEF ProcessesTyped, Become

LEMMA IdleTyped ==
    /\ Idle \in Waiting
    /\ Idle.step = "idle" /\ Idle.request = None /\ Idle.record = None
    /\ Idle.list = [r \in Requests |-> NoOperation] /\ Idle.candidates = {}
BY JournalAssumption DEF Idle, Waiting, Steps, Operations, NoOperation, States

LEMMA ListedTyped ==
    ASSUME TypeOK
    PROVE  Listed \in [Requests -> Operations]
BY JournalAssumption DEF TypeOK, Listed, Operations, NoOperation
(* What a step does to a record: it keeps what is in it. *)
Kept(r) ==
    journal[r] # None =>
           /\ journal'[r] # None
           /\ journal'[r].preparedAt = journal[r].preparedAt
           /\ Bound(r) => journal'[r].operation = journal[r].operation
           /\ journal[r].hash => journal'[r].hash

(* How a match ends: with the journal as it is, or bound to the one match. *)
LEMMA ConcludeEffect ==
    ASSUME NEW p \in Processes, NEW list, NEW matches,
           Conclude(p, list, matches)
    PROVE  /\ Become(p, Idle)
           /\ UNCHANGED <<operation, shown, wire, executed, now>>
           /\ \/ UNCHANGED <<journal, told>>
              \/ \E op \in matches :
                  /\ matches = {op}
                  /\ ~Conflict(process[p].request, op)
                  /\ Bind(process[p].request, op, list[op].state \in WithHash)
                  /\ Tell(process[p].request, StatusOf(list[op].state))
BY DEF Conclude, circleVars

(* A match is concluded from the list at hand or from the one before the   *)
(* chain was read.                                                         *)
LEMMA MatchEffect ==
    ASSUME JournalInv, NEW p \in Processes, MatchList(p) \/ MatchChain(p)
    PROVE  \E list \in [Requests -> Operations], matches \in SUBSET Requests :
               /\ process[p].step \in {"listing", "reading"}
               /\ \A r \in Requests : OnceWas(list, r)
               /\ Conclude(p, list, matches)
               /\ \/ \A op \in matches : CallOf[op] = CallOf[process[p].request]
                  \/ \A op \in matches :
                         list[op].state = "DENIED" /\ Unclaimed(op, process[p].request)
<1>1. CASE MatchList(p)
  <2>1. \A r \in Requests : OnceWas(Listed, r)
    BY DEF JournalInv, MadeOnce, OnceWas, Listed, NoOperation, Made
  <2>2. Listed \in [Requests -> Operations]
    BY ListedTyped DEF JournalInv
  <2>3. Matching(TRUE, Listed, process[p].request, process[p].record) \in SUBSET Requests
    BY DEF Matching
  <2>4. \A op \in Matching(TRUE, Listed, process[p].request, process[p].record) :
            CallOf[op] = CallOf[process[p].request]
    BY DEF Matching
  <2> QED
    BY <1>1, <2>1, <2>2, <2>3, <2>4 DEF MatchList, Unbound
<1>2. CASE MatchChain(p)
  <2>1. PICK verified \in SUBSET Carrying(p) : MatchVerified(p, verified)
    BY <1>2 DEF MatchChain
  <2>2. process[p].list \in [Requests -> Operations] /\ process[p].candidates \subseteq Requests
    BY DEF JournalInv, ProcessesTyped, Waiting
  <2>3. \A r \in Requests : OnceWas(process[p].list, r)
    BY DEF JournalInv, ListsAreOld
  <2>4. process[p].step \in {"listing", "reading"}
    BY <2>1 DEF MatchVerified, Unbound
  <2>5. CASE verified # {}
    <3>1. Conclude(p, process[p].list, verified)
      BY <2>1, <2>5 DEF MatchVerified
    <3>2. verified \in SUBSET Requests /\ \A op \in verified : CallOf[op] = CallOf[process[p].request]
      BY <2>2 DEF Carrying
    <3> QED
      BY <2>2, <2>3, <2>4, <3>1, <3>2
  <2>6. CASE verified = {}
    <3> DEFINE rejected == Rejected(process[p].list, process[p].request, process[p].record)
    <3>1. Conclude(p, process[p].list, rejected)
      BY <2>1, <2>6 DEF MatchVerified
    <3>2. /\ rejected \in SUBSET Requests
          /\ \A op \in rejected : /\ process[p].list[op].state = "DENIED"
                                  /\ Unclaimed(op, process[p].request)
      BY DEF Rejected, Candidates
    <3> QED
      BY <2>2, <2>3, <2>4, <3>1, <3>2
  <2> QED
    BY <2>5, <2>6
<1> QED
  BY <1>1, <1>2

LEMMA JournalStep ==
    ASSUME JournalInv, [Next]_vars
    PROVE  /\ journal' \in [Requests -> Records \cup {None}]
           /\ \A r \in Requests : Kept(r)
<1> USE DEF JournalInv
<1>1. ASSUME UNCHANGED journal
      PROVE  /\ journal' \in [Requests -> Records \cup {None}]
             /\ \A r \in Requests : Kept(r)
  BY <1>1 DEF TypeOK, Kept
<1>2. ASSUME NEW r \in Requests, NEW op \in Requests, NEW hash \in BOOLEAN,
             journal[r] # None, ~Conflict(r, op), Bind(r, op, hash)
      PROVE  /\ journal' \in [Requests -> Records \cup {None}]
             /\ \A s \in Requests : Kept(s)
  BY <1>2, BindEffect DEF TypeOK, Kept
<1>3. ASSUME NEW p \in Processes, NEW r \in Requests, Prepare(p, r)
      PROVE  /\ journal' \in [Requests -> Records \cup {None}]
             /\ \A s \in Requests : Kept(s)
  <2>1. [preparedAt |-> now, operation |-> None, hash |-> FALSE] \in Records
    BY DEF TypeOK, Records
  <2> QED
    BY <1>3, <2>1 DEF Prepare, TypeOK, Kept
<1>4. ASSUME NEW p \in Processes, Executed(p)
      PROVE  /\ journal' \in [Requests -> Records \cup {None}]
             /\ \A s \in Requests : Kept(s)
  <2>1. process[p].request \in Requests /\ journal[process[p].request] # None
    BY <1>4 DEF Executed, Journaled
  <2>2. PICK hash \in {FALSE, operation[process[p].request].state \in WithHash} :
            Bind(process[p].request, process[p].request, hash)
    BY <1>4 DEF Executed
  <2>3. ~Conflict(process[p].request, process[p].request)
    BY <1>4 DEF Executed
  <2>4. hash \in BOOLEAN
    <3>1. (operation[process[p].request].state \in WithHash) \in BOOLEAN
      OBVIOUS
    <3>2. hash = FALSE \/ hash = (operation[process[p].request].state \in WithHash)
      OBVIOUS
    <3> QED
      BY <3>1, <3>2
  <2>5. journal \in [Requests -> Records \cup {None}]
    BY DEF TypeOK
  <2> QED
    BY <1>2, <2>1, <2>2, <2>3, <2>4, <2>5, Zenon
<1>5. ASSUME NEW p \in Processes, MatchList(p) \/ MatchChain(p)
      PROVE  /\ journal' \in [Requests -> Records \cup {None}]
             /\ \A s \in Requests : Kept(s)
  <2>1. PICK list \in [Requests -> Operations], matches \in SUBSET Requests :
            process[p].step \in {"listing", "reading"} /\ Conclude(p, list, matches)
    BY <1>5, MatchEffect
  <2>2. process[p].request \in Requests /\ journal[process[p].request] # None
    BY <2>1 DEF Journaled
  <2>3. CASE UNCHANGED journal
    BY <1>1, <2>3
  <2>4. ASSUME NEW op \in matches, ~Conflict(process[p].request, op),
               Bind(process[p].request, op, list[op].state \in WithHash)
        PROVE  /\ journal' \in [Requests -> Records \cup {None}]
               /\ \A s \in Requests : Kept(s)
    <3>1. op \in Requests /\ (list[op].state \in WithHash) \in BOOLEAN
      OBVIOUS
    <3> QED
      BY <1>2, <2>2, <2>4, <3>1, Zenon
  <2> QED
    BY <2>1, <2>3, <2>4, ConcludeEffect
<1>6. ASSUME NEW p \in Processes,
             \/ \E r \in Requests : Query(p, r)
             \/ Execute(p) \/ ReadChain(p) \/ FoundById(p) \/ AskedChain(p) \/ Fails(p)
      PROVE  UNCHANGED journal
  BY <1>6 DEF Query, Execute, ReadChain, FoundById, AskedChain, Fails
<1>7. ASSUME \/ \E r \in Requests : Circle(r)
             \/ Tick
             \/ UNCHANGED vars
      PROVE  UNCHANGED journal
  BY <1>7 DEF Circle, Accept, Lose, Show, Advance, Tick, vars
<1> QED
  BY <1>1, <1>3, <1>4, <1>5, <1>6, <1>7 DEF Next, Driver, Answered
(* Operations come into being and end, and that is not undone. *)
LEMMA OperationStep ==
    ASSUME JournalInv, [Next]_vars
    PROVE  /\ operation' \in [Requests -> Operations]
           /\ now' \in 0..MaxClock
           /\ \A r \in Requests : Made(r) =>
                  /\ Made(r)'
                  /\ operation[r].state \in Ended => operation'[r].state = operation[r].state
<1> DEFINE Goal == /\ operation' \in [Requests -> Operations]
                   /\ now' \in 0..MaxClock
                   /\ \A r \in Requests : Made(r) =>
                          /\ Made(r)'
                          /\ operation[r].state \in Ended =>
                                 operation'[r].state = operation[r].state
<1> USE DEF JournalInv, TypeOK, Operations
<1>1. ASSUME UNCHANGED <<operation, now>> PROVE Goal
  BY <1>1 DEF Made
<1>2. ASSUME NEW r \in Requests, Accept(r) PROVE Goal
  <2>1. [state |-> "QUEUED", createdAt |-> now] \in Operations /\ ~Made(r)
    BY <1>2 DEF Accept, States, MadeOnce
  <2> QED
    BY <1>2, <2>1 DEF Accept, Made
<1>3. ASSUME NEW r \in Requests, Advance(r) PROVE Goal
  <2>1. PICK state \in CASE operation[r].state = "QUEUED" -> {"SENT", "DENIED"}
                         [] operation[r].state = "SENT" -> {"COMPLETE", "FAILED"}
                         [] OTHER -> {} :
            operation' = [operation EXCEPT ![r].state = state]
    BY <1>3 DEF Advance
  <2>2. state \in States /\ operation[r].state \notin Ended
    BY DEF States, Ended
  <2>3. now' = now
    BY <1>3 DEF Advance
  <2> QED
    BY <2>1, <2>2, <2>3 DEF Made, States
<1>4. ASSUME Tick PROVE Goal
  BY <1>4, JournalAssumption DEF Tick, circleVars, Made
<1>5. ASSUME \/ \E r \in Requests : Lose(r) \/ Show(r)
             \/ UNCHANGED vars
      PROVE  UNCHANGED <<operation, now>>
  BY <1>5 DEF Lose, Show, vars
<1>6. ASSUME NEW p \in Processes, MatchList(p) \/ MatchChain(p)
      PROVE  UNCHANGED <<operation, now>>
  BY <1>6, MatchEffect, ConcludeEffect
<1>7. ASSUME NEW p \in Processes,
             \/ \E r \in Requests : Prepare(p, r) \/ Query(p, r)
             \/ Execute(p) \/ Executed(p) \/ ReadChain(p)
             \/ FoundById(p) \/ AskedChain(p) \/ Fails(p)
      PROVE  UNCHANGED <<operation, now>>
  BY <1>7 DEF Prepare, Query, Execute, Executed, ReadChain, FoundById, AskedChain,
              Fails, circleVars
<1> QED
  BY <1>1, <1>2, <1>3, <1>4, <1>5, <1>6, <1>7 DEF Next, Driver, Answered, Circle

(* What a process does, as far as it concerns what it waits for. *)
Continues(p, state) ==
    /\ Become(p, state)
    /\ shown' = shown
    /\ \/ /\ state = Idle
          /\ UNCHANGED <<executed, wire>>
       \/ /\ state.step = "prepared" /\ state.request \in Requests
          /\ journal[state.request] = None /\ journal'[state.request] # None
          /\ state.list = Idle.list
          /\ UNCHANGED <<executed, wire>>
       \/ /\ process[p].step = "prepared" /\ state.step = "executing"
          /\ state.request = process[p].request /\ state.list = process[p].list
          /\ OneOut => \A s \in executed : told[s] # {}
          /\ executed' = executed \cup {state.request}
          /\ wire' = wire \cup {state.request}
          /\ journal' = journal /\ told' = told
       \/ /\ state.step = "listing" /\ state.request \in executed
          /\ state.record = journal[state.request]
          /\ state.list = Idle.list
          /\ UNCHANGED <<journal, executed, wire>>
       \/ /\ process[p].step = "listing" /\ state.step = "reading"
          /\ state.request = process[p].request /\ state.record = process[p].record
          /\ state.list = Listed
          /\ UNCHANGED <<journal, executed, wire>>

LEMMA DriverStep ==
    ASSUME JournalInv, NEW p \in Processes, Driver(p)
    PROVE  \E state \in Waiting : Continues(p, state)
<1> USE DEF JournalInv
<1>1. ASSUME Become(p, Idle), UNCHANGED <<shown, executed, wire>>
      PROVE  \E state \in Waiting : Continues(p, state)
  BY <1>1, IdleTyped DEF Continues
<1>2. ASSUME NEW r \in Requests, Prepare(p, r)
      PROVE  \E state \in Waiting : Continues(p, state)
  <2> DEFINE state == [Idle EXCEPT !.step = "prepared", !.request = r]
  <2>1. /\ state \in Waiting /\ state.step = "prepared" /\ state.request = r
        /\ state.list = Idle.list
    BY IdleTyped DEF Waiting, Steps
  <2>2. Become(p, state) /\ journal[r] = None /\ UNCHANGED <<shown, executed, wire>>
    BY <1>2 DEF Prepare, circleVars
  <2>3. journal'[r] = [preparedAt |-> now, operation |-> None, hash |-> FALSE]
    BY <1>2 DEF Prepare, TypeOK
  <2>4. journal'[r] # None
    <3>1. journal'[r] \in Records
      BY <2>3 DEF Records, TypeOK
    <3> QED
      BY <3>1, NoRecordAssumption
  <2> HIDE DEF state
  <2> QED
    BY <2>1, <2>2, <2>4 DEF Continues
<1>3. ASSUME NEW r \in Requests, Query(p, r)
      PROVE  \E state \in Waiting : Continues(p, state)
  <2> DEFINE state == [Idle EXCEPT !.step = "listing", !.request = r, !.record = journal[r]]
  <2>1. /\ state \in Waiting /\ state.step = "listing" /\ state.request = r
        /\ state.record = journal[r] /\ state.list = Idle.list
    BY IdleTyped DEF Waiting, Steps, TypeOK
  <2>2. /\ Become(p, state) /\ r \in executed
        /\ UNCHANGED <<journal, shown, executed, wire>>
    BY <1>3 DEF Query, circleVars
  <2> HIDE DEF state
  <2> QED
    BY <2>1, <2>2 DEF Continues
<1>4. ASSUME Execute(p)
      PROVE  \E state \in Waiting : Continues(p, state)
  <2> DEFINE state == [process[p] EXCEPT !.step = "executing"]
  <2>1. /\ state \in Waiting /\ state.step = "executing"
        /\ state.request = process[p].request /\ state.list = process[p].list
    BY DEF ProcessesTyped, Waiting, Steps
  <2>2. /\ Become(p, state) /\ process[p].step = "prepared"
        /\ OneOut => \A s \in executed : told[s] # {}
        /\ executed' = executed \cup {process[p].request}
        /\ wire' = wire \cup {process[p].request}
        /\ UNCHANGED <<journal, told, shown>>
    BY <1>4 DEF Execute
  <2> HIDE DEF state
  <2> QED
    BY <2>1, <2>2 DEF Continues
<1>5. ASSUME ReadChain(p)
      PROVE  \E state \in Waiting : Continues(p, state)
  <2> DEFINE candidates == Candidates(Listed, process[p].request, process[p].record)
             state == [process[p] EXCEPT !.step = "reading", !.list = Listed,
                                         !.candidates = candidates]
  <2>1. candidates \subseteq Requests
    BY DEF Candidates
  <2>2. Listed \in [Requests -> Operations]
    BY ListedTyped
  <2> HIDE DEF candidates
  <2>3. /\ state \in Waiting /\ state.step = "reading"
        /\ state.request = process[p].request /\ state.record = process[p].record
        /\ state.list = Listed
    BY <2>1, <2>2 DEF ProcessesTyped, Waiting, Steps
  <2>4. /\ Become(p, state) /\ process[p].step = "listing"
        /\ UNCHANGED <<journal, shown, executed, wire>>
    BY <1>5 DEF ReadChain, Unbound, circleVars, candidates
  <2> HIDE DEF state
  <2> QED
    BY <2>3, <2>4 DEF Continues
<1>6. ASSUME MatchList(p) \/ MatchChain(p)
      PROVE  \E state \in Waiting : Continues(p, state)
  BY <1>1, <1>6, MatchEffect, ConcludeEffect
<1>7. ASSUME Executed(p) \/ FoundById(p) \/ AskedChain(p) \/ Fails(p)
      PROVE  \E state \in Waiting : Continues(p, state)
  BY <1>1, <1>7 DEF Executed, FoundById, AskedChain, Fails, circleVars
<1> QED
  BY <1>2, <1>3, <1>4, <1>5, <1>6, <1>7 DEF Driver, Answered
(* A driver writes neither Circle's operations nor the clock, and an       *)
(* answer it gives is added to those given.                                *)
LEMMA DriverTells ==
    ASSUME JournalInv, NEW p \in Processes, Driver(p)
    PROVE  /\ UNCHANGED <<operation, now>>
           /\ told' \in [Requests -> SUBSET FinalAnswers]
           /\ \A r \in Requests : told[r] \subseteq told'[r]
<1> DEFINE Goal == /\ UNCHANGED <<operation, now>>
                   /\ told' \in [Requests -> SUBSET FinalAnswers]
                   /\ \A r \in Requests : told[r] \subseteq told'[r]
<1> USE DEF JournalInv
<1>1. ASSUME UNCHANGED <<operation, now, told>> PROVE Goal
  BY <1>1 DEF TypeOK
<1>2. ASSUME UNCHANGED <<operation, now>>, NEW r, NEW status, Tell(r, status) PROVE Goal
  BY <1>2 DEF TypeOK, Tell
<1>3. ASSUME MatchList(p) \/ MatchChain(p) PROVE Goal
  <2>1. PICK list \in [Requests -> Operations], matches \in SUBSET Requests :
            Conclude(p, list, matches)
    BY <1>3, MatchEffect
  <2>2. /\ UNCHANGED <<operation, now>>
        /\ \/ UNCHANGED told
           \/ \E op \in matches : Tell(process[p].request, StatusOf(list[op].state))
    BY <2>1, ConcludeEffect
  <2> QED
    BY <1>1, <1>2, <2>2
<1>4. ASSUME FoundById(p) PROVE Goal
  BY <1>2, <1>4 DEF FoundById, circleVars
<1>5. ASSUME AskedChain(p) PROVE Goal
  BY <1>2, <1>5 DEF AskedChain, circleVars
<1>6. ASSUME \/ \E r \in Requests : Prepare(p, r) \/ Query(p, r)
             \/ Execute(p) \/ Executed(p) \/ ReadChain(p) \/ Fails(p)
      PROVE  Goal
  BY <1>1, <1>6 DEF Prepare, Query, Execute, Executed, ReadChain, Fails, circleVars
<1> QED
  BY <1>3, <1>4, <1>5, <1>6 DEF Driver, Answered

LEMMA JournalInvInit == Init => JournalInv
<1> SUFFICES ASSUME Init PROVE JournalInv
  OBVIOUS
<1> USE DEF Init
<1>1. \A p \in Processes : process[p] = Idle
  OBVIOUS
<1>2. TypeOK
  BY <1>1, IdleTyped, JournalAssumption DEF TypeOK, Waiting, NoOperation
<1>3. ProcessesTyped
  BY IdleTyped DEF ProcessesTyped
<1>4. Journaled /\ PreparedOnce /\ Remembered
  BY <1>1, IdleTyped DEF Journaled, PreparedOnce, Remembered
<1>5. MadeOnce
  BY DEF MadeOnce, Made, NoOperation
<1>6. ListsAreOld
  BY <1>1, IdleTyped DEF ListsAreOld, OnceWas, NoOperation
<1> QED
  BY <1>2, <1>3, <1>4, <1>5, <1>6 DEF JournalInv

(* A step is that of one process, or none of them moves. *)
LEMMA WhoMoves ==
    ASSUME JournalInv, [Next]_vars
    PROVE  \/ \E p \in Processes, state \in Waiting : Continues(p, state) /\ Driver(p)
           \/ /\ \/ \E r \in Requests : Circle(r)
                 \/ Tick
                 \/ UNCHANGED vars
              /\ UNCHANGED <<journal, told, process, executed>>
BY DriverStep DEF Next, Circle, Accept, Lose, Show, Advance, Tick, vars

LEMMA JournalInvNext == JournalInv /\ [Next]_vars => JournalInv'
<1> SUFFICES ASSUME JournalInv, [Next]_vars PROVE JournalInv'
  OBVIOUS
<1> USE DEF JournalInv
<1>1. /\ journal' \in [Requests -> Records \cup {None}]
      /\ \A r \in Requests : Kept(r)
  BY JournalStep
<1>2. /\ operation' \in [Requests -> Operations]
      /\ now' \in 0..MaxClock
      /\ \A r \in Requests : Made(r) =>
             /\ Made(r)'
             /\ operation[r].state \in Ended => operation'[r].state = operation[r].state
  BY OperationStep
<1>3. ASSUME UNCHANGED <<journal, told, process, executed>>,
             \/ \E r \in Requests : Circle(r)
             \/ Tick
             \/ UNCHANGED vars
      PROVE  JournalInv'
  <2>1. shown' \subseteq Requests /\ wire' \subseteq wire
    BY <1>3 DEF Circle, Accept, Lose, Show, Advance, Tick, circleVars, vars, TypeOK
  <2>2. TypeOK'
    BY <1>1, <1>2, <1>3, <2>1 DEF TypeOK, Operations
  <2>3. ProcessesTyped' /\ Journaled' /\ PreparedOnce'
    BY <1>3 DEF ProcessesTyped, Journaled, PreparedOnce
  <2>4. Remembered'
    BY <1>3 DEF Remembered, StillSays
  <2>5. MadeOnce'
    <3>1. ASSUME NEW r \in Requests, Accept(r) PROVE MadeOnce'
      BY <1>3, <3>1 DEF Accept, MadeOnce, Made, TypeOK
    <3>2. ASSUME NEW r \in Requests, Lose(r) PROVE MadeOnce'
      BY <1>3, <3>2 DEF Lose, MadeOnce, Made
    <3>3. ASSUME NEW r \in Requests, Show(r) PROVE MadeOnce'
      BY <1>3, <3>3 DEF Show, MadeOnce, Made
    <3>4. ASSUME NEW r \in Requests, Advance(r) PROVE MadeOnce'
      <4>1. operation[r].state # "none" /\ \A s \in Requests : s # r => operation'[s] = operation[s]
        BY <3>4 DEF Advance, TypeOK
      <4> QED
        BY <1>2, <1>3, <3>4, <4>1 DEF Advance, MadeOnce, Made, TypeOK
    <3>5. CASE Tick \/ UNCHANGED vars
      BY <1>3, <3>5 DEF Tick, circleVars, vars, MadeOnce, Made
    <3> QED
      BY <1>3, <3>1, <3>2, <3>3, <3>4, <3>5 DEF Circle
  <2>6. ListsAreOld'
    BY <1>2, <1>3 DEF ListsAreOld, OnceWas, Made
  <2> QED
    BY <2>2, <2>3, <2>4, <2>5, <2>6
<1>4. ASSUME NEW p \in Processes, NEW state \in Waiting, Continues(p, state), Driver(p)
      PROVE  JournalInv'
  <2>1. /\ ProcessesTyped'
        /\ process'[p] = state
        /\ \A q \in Processes : q # p => process'[q] = process[q]
    BY <1>4, ProcessMoves DEF Continues
  <2>2. executed' \subseteq Requests /\ wire' \subseteq executed' /\ shown' = shown
    BY <1>4, <2>1 DEF Continues, TypeOK, Journaled
  <2>3. executed \subseteq executed'
    BY <1>4 DEF Continues
  <2>4. told' \in [Requests -> SUBSET FinalAnswers] /\ operation' = operation
    BY <1>4, DriverTells
  <2>5. TypeOK'
    BY <1>1, <1>2, <2>1, <2>2, <2>4 DEF TypeOK, Operations, ProcessesTyped, Waiting
  <2>6. Journaled'
    <3>1. \A r \in executed' : r \in Requests /\ journal'[r] # None
      BY <1>1, <1>4, <2>2 DEF Continues, Journaled, Kept, TypeOK
    <3>2. \A q \in Processes : q # p /\ process'[q].step # "idle" =>
              process'[q].request \in Requests /\ journal'[process'[q].request] # None
      BY <1>1, <2>1 DEF Journaled, Kept
    <3>3. state.step # "idle" =>
              state.request \in Requests /\ journal'[state.request] # None
      BY <1>1, <1>4, <2>2, IdleTyped DEF Continues, Journaled, Kept, TypeOK
    <3> QED
      BY <2>1, <3>1, <3>2, <3>3 DEF Journaled
  <2>7. PreparedOnce'
    <3>1. ASSUME UNCHANGED executed,
                 state.step = "prepared" => /\ journal[state.request] = None
                                            /\ state.request \notin executed
          PROVE  PreparedOnce'
      <4>1. \A q \in Processes : q # p /\ process[q].step = "prepared" =>
                /\ process'[q] = process[q]
                /\ journal[process[q].request] # None
        BY <2>1 DEF Journaled
      <4> QED
        BY <2>1, <3>1, <4>1 DEF PreparedOnce
    <3>2. CASE /\ process[p].step = "prepared" /\ state.step = "executing"
               /\ state.request = process[p].request
               /\ executed' = executed \cup {state.request}
      BY <2>1, <3>2 DEF PreparedOnce
    <3> QED
      BY <1>4, <3>1, <3>2, IdleTyped DEF Continues, Journaled
  <2>8. Remembered'
    <3>1. \A q \in Processes : q # p /\ process[q].step \in {"listing", "reading"} =>
              /\ process[q].request \in Requests
              /\ StillSays(process[q].record, process[q].request)'
      BY <1>1, <2>1 DEF Remembered, Journaled, StillSays, Kept, Bound
    <3>2. CASE state.step \notin {"listing", "reading"}
      BY <2>1, <2>3, <3>1, <3>2 DEF Remembered
    <3>3. CASE /\ state.step = "listing" /\ state.request \in executed
               /\ state.record = journal[state.request] /\ UNCHANGED journal
      <4>1. state.record # None
        BY <3>3 DEF Journaled
      <4>2. StillSays(state.record, state.request)'
        BY <2>1, <3>3 DEF StillSays
      <4> QED
        BY <2>1, <2>3, <3>1, <3>3, <4>1, <4>2 DEF Remembered
    <3>4. CASE /\ process[p].step = "listing" /\ state.step = "reading"
               /\ state.request = process[p].request /\ state.record = process[p].record
               /\ UNCHANGED journal
      BY <2>1, <2>3, <3>1, <3>4 DEF Remembered, StillSays
    <3> QED
      BY <1>4, <3>2, <3>3, <3>4, IdleTyped DEF Continues
  <2>9. MadeOnce'
    <3>1. CASE wire' = wire
      BY <2>2, <2>3, <2>4, <3>1 DEF MadeOnce, Made
    <3>2. CASE /\ process[p].step = "prepared" /\ state.request = process[p].request
               /\ wire' = wire \cup {state.request}
      BY <2>2, <2>3, <2>4, <3>2 DEF MadeOnce, Made, PreparedOnce
    <3> QED
      BY <1>4, <3>1, <3>2 DEF Continues
  <2>10. ListsAreOld'
    <3>1. \A r \in Requests : OnceWas(state.list, r)
      <4>1. \A r \in Requests : OnceWas(Idle.list, r)
        BY IdleTyped DEF OnceWas, NoOperation
      <4>2. \A r \in Requests : OnceWas(Listed, r)
        BY DEF MadeOnce, OnceWas, Listed, NoOperation, Made
      <4>3. \A r \in Requests : OnceWas(process[p].list, r)
        BY DEF ListsAreOld
      <4> QED
        BY <1>4, <4>1, <4>2, <4>3 DEF Continues
    <3> QED
      BY <2>1, <2>4, <3>1 DEF ListsAreOld, OnceWas, Made
  <2> QED
    BY <2>1, <2>5, <2>6, <2>7, <2>8, <2>9, <2>10
<1> QED
  BY <1>3, <1>4, WhoMoves

(* The journal, what each process holds of it and of Circle's list: all    *)
(* that was read once is still so, though more may be known by now         *)
(* (circle-cli-driver.ts).                                                 *)
THEOREM JournalInvHolds == Spec => []JournalInv
<1>1. Init => JournalInv
  BY JournalInvInit
<1>2. JournalInv /\ [Next]_vars => JournalInv'
  BY JournalInvNext
<1> QED
  BY <1>1, <1>2, PTL DEF Spec

(* Records, operations and waits are of their types. *)
THEOREM TypeCorrect == Spec => []TypeOK
<1>1. JournalInv => TypeOK
  BY DEF JournalInv
<1> QED
  BY <1>1, JournalInvHolds, PTL

(* What is on disk is only ever added to, whatever is asked, lost and      *)
(* matched by however many processes, and of requests of any kind.         *)
THEOREM NothingIsLost == Spec => JournalGrows
<1>1. JournalInv /\ [Next]_vars => [\A r \in Requests : Kept(r)]_vars
  BY JournalStep
<1>2. (\A r \in Requests : Kept(r)) => \A r \in Requests : journal[r] # None =>
           /\ journal'[r] # None
           /\ journal'[r].preparedAt = journal[r].preparedAt
           /\ Bound(r) => journal'[r].operation = journal[r].operation
           /\ journal[r].hash => journal'[r].hash
  BY DEF Kept
<1> QED
  BY <1>1, <1>2, JournalInvHolds, PTL DEF Spec, JournalGrows
-----------------------------------------------------------------------------
(* Mints. *)

LEMMA MintsInvInit == Init => MintsInv
BY DEF Init, MintsInv, BoundToOwn, Bound, ToldIsBound, OneUntold, ToldIsTrue

(* A final answer is the end of an operation that has ended. *)
LEMMA FinalStatus ==
    ASSUME NEW state, StatusOf(state) \in FinalAnswers
    PROVE  state \in Ended
BY DEF StatusOf, FinalAnswers, Ended

(* No other operation can be taken for that of an unbound Mint: one that   *)
(* carries its call is its own, and of one Circle rejected the request has *)
(* been told, so it is claimed.                                            *)
LEMMA OwnMatch ==
    ASSUME JournalInv, MintsOnly, MintsInv,
           NEW p \in Processes, MatchList(p) \/ MatchChain(p)
    PROVE  \/ UNCHANGED <<journal, told>>
           \/ LET r == process[p].request
              IN  \E hash \in BOOLEAN, list \in [Requests -> Operations] :
                      /\ OnceWas(list, r)
                      /\ Bind(r, r, hash)
                      /\ Tell(r, StatusOf(list[r].state))
<1> USE DEF JournalInv, MintsInv
<1> DEFINE r == process[p].request
<1>1. PICK list \in [Requests -> Operations], matches \in SUBSET Requests :
          /\ process[p].step \in {"listing", "reading"}
          /\ \A op \in Requests : OnceWas(list, op)
          /\ Conclude(p, list, matches)
          /\ \/ \A op \in matches : CallOf[op] = CallOf[r]
             \/ \A op \in matches : list[op].state = "DENIED" /\ Unclaimed(op, r)
  BY MatchEffect
<1>2. r \in executed /\ r \in Requests
  BY <1>1 DEF Remembered, TypeOK
<1>3. ASSUME NEW op \in matches, ~Conflict(r, op) PROVE op = r
  <2>1. CASE CallOf[op] = CallOf[r]
    BY <1>2, <2>1 DEF MintsOnly
  <2>2. CASE list[op].state = "DENIED" /\ Unclaimed(op, r) /\ op # r
    <3>1. op \in executed
      BY <1>1, <2>2 DEF OnceWas, MadeOnce
    <3>2. ~Bound(r)
      BY <1>2, <1>3, <2>2 DEF Conflict, BoundToOwn
    <3>3. told[op] # {}
      BY <1>2, <2>2, <3>1, <3>2 DEF ToldIsBound, OneUntold
    <3>4. Bound(op) /\ journal[op].operation = op
      BY <3>3 DEF ToldIsBound, BoundToOwn
    <3> QED
      BY <2>2, <3>4 DEF Unclaimed
  <2> QED
    BY <1>1, <2>1, <2>2
<1>4. CASE UNCHANGED <<journal, told>>
  BY <1>4
<1>5. ASSUME NEW op \in matches, ~Conflict(r, op),
             Bind(r, op, list[op].state \in WithHash),
             Tell(r, StatusOf(list[op].state))
      PROVE  \E hash \in BOOLEAN, some \in [Requests -> Operations] :
                 /\ OnceWas(some, r)
                 /\ Bind(r, r, hash)
                 /\ Tell(r, StatusOf(some[r].state))
  <2>1. op = r
    BY <1>3, <1>5
  <2>2. (list[op].state \in WithHash) \in BOOLEAN
    OBVIOUS
  <2>3. OnceWas(list, r)
    BY <1>1, <1>2
  <2> QED
    BY <1>5, <2>1, <2>2, <2>3, Zenon
<1> QED
  BY <1>1, <1>4, <1>5, ConcludeEffect

(* The request is bound after the step. *)
IsThenBound(r) == journal'[r] # None /\ journal'[r].operation # None

(* A Mint that is told an end is bound to its own operation, which has     *)
(* come to that end.                                                       *)
LEMMA OwnAnswer ==
    ASSUME JournalInv, MintsOnly, MintsInv,
           NEW p \in Processes, Driver(p)
    PROVE  /\ BoundToOwn'
           /\ \/ told' = told
              \/ \E status \in Statuses :
                     /\ Tell(process[p].request, status)
                     /\ IsThenBound(process[p].request)
                     /\ status \in FinalAnswers =>
                            /\ operation[process[p].request].state \in Ended
                            /\ status = StatusOf(operation[process[p].request].state)
<1> USE DEF JournalInv, MintsInv
<1> DEFINE r == process[p].request
           Goal == /\ BoundToOwn'
                   /\ \/ told' = told
                      \/ \E status \in Statuses :
                             /\ Tell(process[p].request, status)
                             /\ IsThenBound(process[p].request)
                             /\ status \in FinalAnswers =>
                                    /\ operation[process[p].request].state \in Ended
                                    /\ status = StatusOf(operation[process[p].request].state)
<1>0. \A state : StatusOf(state) \in Statuses
  BY DEF StatusOf, Statuses
<1>1. ASSUME UNCHANGED <<journal, told>> PROVE Goal
  BY <1>1 DEF BoundToOwn, Bound
<1>2. ASSUME r \in Requests, journal[r] # None,
             NEW hash \in BOOLEAN, ~Conflict(r, r), Bind(r, r, hash)
      PROVE  BoundToOwn' /\ IsThenBound(r)
  <2>1. /\ \A s \in Requests : s # r => journal'[s] = journal[s]
        /\ journal'[r] # None /\ journal'[r].operation = r
    BY <1>2, BindEffect DEF TypeOK
  <2> QED
    BY <1>2, <2>1, JournalAssumption DEF BoundToOwn, Bound, IsThenBound
<1>3. r \in Requests => ~Conflict(r, r)
  BY DEF BoundToOwn, Conflict
<1>4. CASE MatchList(p) \/ MatchChain(p)
  <2>1. process[p].step \in {"listing", "reading"}
    BY <1>4, MatchEffect
  <2>2. r \in Requests /\ journal[r] # None
    BY <2>1 DEF Journaled
  <2>3. ASSUME NEW hash \in BOOLEAN, NEW list \in [Requests -> Operations],
               OnceWas(list, r), Bind(r, r, hash), Tell(r, StatusOf(list[r].state))
        PROVE  Goal
    <3>1. BoundToOwn' /\ IsThenBound(r)
      BY <1>2, <1>3, <2>2, <2>3
    <3>2. StatusOf(list[r].state) \in FinalAnswers =>
              operation[r].state \in Ended /\ list[r].state = operation[r].state
      BY <2>3, FinalStatus DEF OnceWas, Ended
    <3> QED
      BY <1>0, <2>3, <3>1, <3>2
  <2> QED
    BY <1>1, <1>4, <2>3, OwnMatch
<1>5. CASE FoundById(p)
  <2>1. /\ process[p].step = "listing" /\ process[p].record.operation # None
        /\ Listed[process[p].record.operation].state # "none"
        /\ Tell(r, StatusOf(Listed[process[p].record.operation].state))
        /\ UNCHANGED journal
    BY <1>5 DEF FoundById
  <2>2. r \in Requests /\ Bound(r) /\ process[p].record.operation = r
    BY <2>1 DEF Journaled, Remembered, StillSays, Bound, BoundToOwn
  <2>3. Listed[r] = operation[r]
    BY <2>1, <2>2 DEF Listed, NoOperation
  <2> QED
    BY <1>0, <2>1, <2>2, <2>3, FinalStatus DEF BoundToOwn, Bound, IsThenBound
<1>6. CASE AskedChain(p)
  <2>1. /\ process[p].step = "listing" /\ process[p].record.operation # None
        /\ Tell(r, StatusOf(operation[process[p].record.operation].state))
        /\ UNCHANGED journal
    BY <1>6 DEF AskedChain
  <2>2. r \in Requests /\ Bound(r) /\ process[p].record.operation = r
    BY <2>1 DEF Journaled, Remembered, StillSays, Bound, BoundToOwn
  <2> QED
    BY <1>0, <2>1, <2>2, FinalStatus DEF BoundToOwn, Bound, IsThenBound
<1>7. CASE Executed(p)
  <2>1. r \in Requests /\ journal[r] # None
    BY <1>7 DEF Executed, Journaled
  <2>2. PICK hash \in {FALSE, operation[r].state \in WithHash} : Bind(r, r, hash)
    BY <1>7 DEF Executed
  <2>3. hash \in BOOLEAN
    <3>1. (operation[r].state \in WithHash) \in BOOLEAN
      OBVIOUS
    <3>2. hash = FALSE \/ hash = (operation[r].state \in WithHash)
      OBVIOUS
    <3> QED
      BY <3>1, <3>2
  <2>4. told' = told
    BY <1>7 DEF Executed
  <2> QED
    BY <1>2, <1>3, <2>1, <2>2, <2>3, <2>4
<1>8. ASSUME NEW s \in Requests, Prepare(p, s) PROVE Goal
  <2>1. told' = told
    BY <1>8 DEF Prepare
  <2>2. journal' = [journal EXCEPT ![s] =
                        [preparedAt |-> now, operation |-> None, hash |-> FALSE]]
    BY <1>8 DEF Prepare
  <2> QED
    BY <2>1, <2>2 DEF BoundToOwn, Bound, TypeOK
<1>9. CASE \/ \E s \in Requests : Query(p, s)
           \/ Execute(p) \/ ReadChain(p) \/ Fails(p)
  BY <1>1, <1>9 DEF Query, Execute, ReadChain, Fails
<1> QED
  BY <1>4, <1>5, <1>6, <1>7, <1>8, <1>9 DEF Driver, Answered

LEMMA MintsInvNext ==
    ASSUME JournalInv, MintsOnly, MintsInv, [Next]_vars
    PROVE  MintsInv'
<1> USE DEF JournalInv, MintsInv
<1>1. \A r \in Requests : Kept(r)
  BY JournalStep
<1>2. \A r \in Requests : operation[r].state \in Ended =>
          operation'[r].state = operation[r].state
  BY OperationStep DEF Made, Ended
<1>3. CASE UNCHANGED <<journal, told, process, executed>>
  BY <1>2, <1>3 DEF BoundToOwn, Bound, ToldIsBound, OneUntold, ToldIsTrue, Ended
<1>4. ASSUME NEW p \in Processes, NEW state \in Waiting, Continues(p, state), Driver(p)
      PROVE  MintsInv'
  <2>1. /\ operation' = operation
        /\ told' \in [Requests -> SUBSET FinalAnswers]
        /\ \A r \in Requests : told[r] \subseteq told'[r]
    BY <1>4, DriverTells
  <2>2. BoundToOwn'
    BY <1>4, OwnAnswer
  <2>3. ASSUME told' # told
        PROVE  \E status \in Statuses :
                   /\ Tell(process[p].request, status)
                   /\ IsThenBound(process[p].request)
                   /\ status \in FinalAnswers =>
                          /\ operation[process[p].request].state \in Ended
                          /\ status = StatusOf(operation[process[p].request].state)
    BY <1>4, <2>3, OwnAnswer
  <2>4. \A r \in Requests : Bound(r) => Bound(r)'
    BY <1>1 DEF Bound, Kept
  <2>5. ToldIsBound'
    BY <2>1, <2>3, <2>4 DEF ToldIsBound, Tell, TypeOK, IsThenBound, Bound
  <2>6. ToldIsTrue'
    BY <2>1, <2>3 DEF ToldIsTrue, Tell, TypeOK, Ended
  <2>7. OneUntold'
    <3>1. CASE executed' = executed
      BY <2>1, <3>1 DEF OneUntold, TypeOK
    <3>2. CASE /\ OneOut => \A s \in executed : told[s] # {}
               /\ executed' = executed \cup {state.request}
               /\ told' = told
      BY <3>2 DEF OneUntold, MintsOnly
    <3> QED
      BY <1>4, <3>1, <3>2 DEF Continues
  <2> QED
    BY <2>2, <2>5, <2>6, <2>7
<1> QED
  BY <1>3, <1>4, WhoMoves

(* Of Mints alone, every binding is to the request's own operation and at  *)
(* most one has not been told an end (queryOperation, queryRequest;        *)
(* circle-cli-driver.ts).                                                  *)
THEOREM MintsInvHolds == ASSUME MintsOnly PROVE Spec => []MintsInv
<1>1. Init => MintsInv
  BY MintsInvInit
<1>2. JournalInv /\ MintsInv /\ [Next]_vars => MintsInv'
  BY MintsInvNext
<1> QED
  BY <1>1, <1>2, JournalInvHolds, PTL DEF Spec

(* However its operation was found, by the answer, by the list or by the   *)
(* chain, a Mint is bound to that and to no other.                         *)
THEOREM MintsAreBoundToOwn == ASSUME MintsOnly PROVE Spec => []BoundToOwn
<1>1. MintsInv => BoundToOwn
  BY DEF MintsInv
<1> QED
  BY <1>1, MintsInvHolds, PTL

(* No operation of Circle's is claimed for two Mints. *)
THEOREM MintsClaimOnce == ASSUME MintsOnly PROVE Spec => []OneClaim
<1>1. MintsInv => OneClaim
  BY DEF MintsInv, BoundToOwn, OneClaim
<1> QED
  BY <1>1, MintsInvHolds, PTL

(* The end the agent is told of a Mint is the one it has come to. *)
THEOREM MintsAreToldTrue == ASSUME MintsOnly PROVE Spec => []ToldIsTrue
<1>1. MintsInv => ToldIsTrue
  BY DEF MintsInv
<1> QED
  BY <1>1, MintsInvHolds, PTL

(* A Mint told REVERTED is never executed. *)
THEOREM RevertedMintsNeverRun == ASSUME MintsOnly PROVE Spec => []RevertedNeverRuns
<1>1. MintsInv => RevertedNeverRuns
  BY DEF MintsInv, ToldIsTrue, RevertedNeverRuns, StatusOf
<1> QED
  BY <1>1, MintsInvHolds, PTL
==============================================================================
