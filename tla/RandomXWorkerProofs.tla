-------------------------- MODULE RandomXWorkerProofs --------------------------
(***************************************************************************)
(* Proofs about RandomXWorker, for any caller whose job ids are fresh, any *)
(* number of searches and any epochs; and about RandomXMiner, which is     *)
(* such a caller: what it has of the worker, for any calls, epochs, aborts *)
(* and times, whether or not the worker dies.                              *)
(***************************************************************************)
EXTENDS RandomXMiner, SequenceTheorems, FiniteSetTheorems, WellFoundedInduction, TLAPS

------------------------------------------------------------------------------
(* Type correctness.                                                       *)

LEMMA EmitType ==
    ASSUME log \in Seq(Messages), NEW type \in Types, NEW job \in JobIds, Emit(type, job)
    PROVE  log' \in Seq(Messages)
<1>1. [type |-> type, jobId |-> job, context |-> None] \in Messages
  BY DEF Messages
<1>. QED
  BY <1>1, AppendProperties DEF Emit

LEMMA AtHand ==
    ASSUME TypeOK, doing.step \in {"join", "serve", "building"}
    PROVE  /\ doing.command \in Commands
           /\ doing.command.jobId \in JobIds
           /\ doing.step = "join" => doing.command \in Prepares \cup SearchCommands
           /\ doing.step = "building" => doing.command \in Prepares
BY DEF TypeOK, Commands, Prepares, SearchCommands, Cancels

LEMMA RefuseType ==
    ASSUME TypeOK, doing.step \in {"serve", "building"}, Refuse
    PROVE  log' \in Seq(Messages) /\ doing' = Reading
<1>1. "INVALID_REQUEST" \in Types
  BY DEF Types
<1>2. log \in Seq(Messages)
  BY DEF TypeOK
<1>. QED
  BY <1>1, <1>2, AtHand, EmitType DEF Refuse

LEMMA CurrentType ==
    ASSUME TypeOK, NEW e \in Epochs
    PROVE  /\ MakeCurrent(e) \in Seq(Epochs)
           /\ Len(MakeCurrent(e)) <= 2
           /\ MakeCurrent(e) # <<>> /\ Head(MakeCurrent(e)) = e
<1>1. CASE contexts = <<>>
  BY <1>1 DEF MakeCurrent
<1>2. CASE contexts # <<>> /\ Head(contexts) = e
  BY <1>2 DEF MakeCurrent, TypeOK
<1>3. CASE contexts # <<>> /\ Head(contexts) # e
  <2>1. Head(contexts) \in Epochs
    BY <1>3, HeadTailProperties DEF TypeOK
  <2>. QED
    BY <1>3, <2>1 DEF MakeCurrent
<1>. QED
  BY <1>1, <1>2, <1>3

(* TypeOK is not inductive alone: cancel writes the flag of the search     *)
(* `active` points to, so active must point to the one search there is.    *)
OneThread ==
    process = "running" =>
        /\ active # None =>
              /\ search \in Searches /\ search.job = active
              /\ search.phase \in {"hashing", "told"}
              /\ contexts # <<>> /\ Head(contexts) = search.context
        /\ search.phase \in {"hashing", "told"} => active # None
        /\ doing.step = "building" => active = None

LEMMA MainType == ASSUME WorkerAssumption, TypeOK, OneThread, MainThread PROVE TypeOK'
<1>1. CASE Read
  <2>1. Head(stdin) \in Commands /\ Tail(stdin) \in Seq(Commands)
    BY <1>1, HeadTailProperties DEF Read, TypeOK
  <2>2. doing' \in [step : {"join"}, command : Prepares \cup SearchCommands]
             \cup [step : {"serve"}, command : Commands]
    BY <1>1, <2>1 DEF Read, Commands, Prepares, SearchCommands, Cancels
  <2>. QED
    BY <1>1, <2>1, <2>2 DEF Read, TypeOK
<1>2. CASE JoinCompletedSearch
  <2>1. doing' \in [step : {"serve"}, command : Commands]
    BY <1>2, AtHand DEF JoinCompletedSearch, TypeOK
  <2>. QED
    BY <1>2, <2>1 DEF JoinCompletedSearch, TypeOK
<1>3. CASE Prepare
  <2>1. CASE Refuse
    BY <1>3, <2>1, RefuseType DEF Prepare, TypeOK, Reading
  <2>2. CASE doing' = [doing EXCEPT !.step = "building"] /\ UNCHANGED log
    <3>1. doing.command \in Prepares
      BY <1>3, AtHand DEF Prepare, Commands, SearchCommands, Cancels
    <3>2. doing' \in [step : {"building"}, command : Prepares]
      BY <1>3, <2>2, <3>1 DEF Prepare, TypeOK
    <3>. QED
      BY <1>3, <2>2, <3>2 DEF Prepare, TypeOK
  <2>. QED
    BY <1>3, <2>1, <2>2 DEF Prepare
<1>4. CASE Built
  <2>1. log' \in Seq(Messages)
    BY <1>4, AtHand, EmitType DEF Built, TypeOK, Types
  <2>2. doing.command.arg \in Epochs
    BY <1>4, AtHand DEF Built, Prepares
  <2>3. contexts' \in Seq(Epochs) /\ Len(contexts') <= 2
    BY <1>4, <2>2, CurrentType DEF Built
  <2>. QED
    BY <1>4, <2>1, <2>3 DEF Built, TypeOK, Reading
<1>5. CASE BuildFails
  BY <1>5, RefuseType DEF BuildFails, TypeOK, Reading
<1>6. CASE Search
  <2>1. CASE active # None \/ contexts = <<>>
    BY <1>6, <2>1, RefuseType DEF Search, TypeOK, Reading
  <2>2. CASE active = None /\ contexts # <<>>
    <3>1. Head(contexts) \in Epochs
      BY <2>2, HeadTailProperties DEF TypeOK
    <3>2. doing.command.jobId \in JobIds
      BY <1>6, AtHand DEF Search
    <3>3. log' \in Seq(Messages)
      BY <1>6, <2>2, <3>2, EmitType DEF Search, TypeOK, Types
    <3>4. search' \in Searches \cup {NoSearch}
      <4>1. [job |-> doing.command.jobId, phase |-> "hashing", cancel |-> FALSE,
             context |-> Head(contexts)] \in Searches
        BY <3>1, <3>2 DEF Searches, WorkerAssumption
      <4>2. search \in Searches \cup {NoSearch}
        BY DEF TypeOK
      <4>. QED
        BY <1>6, <2>2, <4>1, <4>2 DEF Search
    <3>. QED
      BY <1>6, <2>2, <3>2, <3>3, <3>4 DEF Search, TypeOK, Reading
  <2>. QED
    BY <2>1, <2>2
<1>7. CASE Cancel
  <2>1. CASE active = doing.command.arg
    <3>1. doing.command \in Cancels
      BY <1>7, AtHand DEF Cancel, Commands, Prepares, SearchCommands
    <3>2. search \in Searches
      BY <1>7, <2>1, <3>1 DEF Cancel, Cancels, OneThread, WorkerAssumption
    <3>3. search' \in Searches
      BY <1>7, <2>1, <3>2 DEF Cancel, Searches
    <3>4. log' \in Seq(Messages)
      BY <1>7, <2>1, AtHand, EmitType DEF Cancel, TypeOK, Types
    <3>. QED
      BY <1>7, <2>1, <3>3, <3>4 DEF Cancel, TypeOK, Reading
  <2>2. CASE active # doing.command.arg
    BY <1>7, <2>2, RefuseType DEF Cancel, TypeOK, Reading
  <2>. QED
    BY <2>1, <2>2
<1>8. CASE Shutdown
  <2>1. search' \in Searches \cup {NoSearch}
    BY <1>8 DEF Shutdown, OneThread, TypeOK, Searches
  <2>. QED
    BY <1>8, <2>1 DEF Shutdown, TypeOK
<1>9. CASE Exit
  BY <1>9 DEF Exit, TypeOK
<1>. QED
  BY <1>1, <1>2, <1>3, <1>4, <1>5, <1>6, <1>7, <1>8, <1>9 DEF MainThread

LEMMA HashingSearch ==
    ASSUME TypeOK, search.phase # "none"
    PROVE  search \in Searches
<1>1. NoSearch.phase = "none"
  BY DEF NoSearch
<1>. QED
  BY <1>1 DEF TypeOK

LEMMA ThreadType == ASSUME WorkerAssumption, TypeOK, SearchThread PROVE TypeOK'
<1>1. CASE Report
  <2>1. search \in Searches
    BY <1>1, HashingSearch DEF Report, Hashing
  <2>2. log' \in Seq(Messages)
    BY <1>1, <2>1, EmitType DEF Report, Searches, Types, TypeOK
  <2>. QED
    BY <1>1, <2>2 DEF Report, TypeOK
<1>2. ASSUME NEW type \in Terminal, Tell(type) PROVE TypeOK'
  <2>1. search \in Searches
    BY <1>2, HashingSearch DEF Tell, Hashing
  <2>4. search' \in Searches
    BY <1>2, <2>1 DEF Tell, Searches
  <2>2. [type |-> type, jobId |-> search.job,
         context |-> IF type = "solution" THEN search.context ELSE None] \in Messages
    BY <2>1 DEF Messages, Types, Searches
  <2>3. log' \in Seq(Messages)
    BY <1>2, <2>2, AppendProperties DEF Tell, TypeOK
  <2>. QED
    BY <1>2, <2>3, <2>4 DEF Tell, TypeOK
<1>3. CASE Release
  <2>1. search \in Searches
    BY <1>3, HashingSearch DEF Release
  <2>2. search' \in Searches
    BY <1>3, <2>1 DEF Release, Searches
  <2>. QED
    BY <1>3, <2>2 DEF Release, TypeOK
<1>. QED
  BY <1>1, <1>2, <1>3 DEF SearchThread

LEMMA CallerType == ASSUME TypeOK, CallerStep PROVE TypeOK'
<1>1. ASSUME NEW c \in Commands, Write(c) PROVE TypeOK'
  BY <1>1, AppendProperties DEF Write, TypeOK
<1>. QED
  BY <1>1 DEF CallerStep, EndInput, TypeOK

LEMMA StepOneThread ==
    ASSUME WorkerAssumption, TypeOK, OneThread, [WorkerStep \/ CallerStep]_workerVars
    PROVE  OneThread'
<1>1. CASE Read
  BY <1>1 DEF Read, OneThread
<1>10. CASE Shutdown
  <2>1. active # None => /\ search' \in Searches /\ search'.job = search.job
                         /\ search'.phase = search.phase /\ search'.context = search.context
    BY <1>10 DEF Shutdown, OneThread, Searches
  <2>2. active = None => search' = search
    BY <1>10 DEF Shutdown
  <2>3. doing'.step = "exit"
    BY <1>10 DEF Shutdown, TypeOK
  <2>. QED
    BY <1>10, <2>1, <2>2, <2>3 DEF Shutdown, OneThread
<1>2. CASE JoinCompletedSearch
  <2>1. doing'.step = "serve"
    BY <1>2 DEF JoinCompletedSearch, TypeOK
  <2>2. CASE active = None
    <3>1. NoSearch.phase = "none"
      BY DEF NoSearch
    <3>. QED
      BY <1>2, <2>1, <2>2, <3>1 DEF JoinCompletedSearch, OneThread
  <2>3. CASE active # None
    BY <1>2, <2>1, <2>3 DEF JoinCompletedSearch, OneThread
  <2>. QED
    BY <2>2, <2>3
<1>3. CASE Prepare
  BY <1>3 DEF Prepare, Refuse, Reading, OneThread
<1>4. CASE Built \/ BuildFails
  BY <1>4 DEF Built, BuildFails, Refuse, Reading, OneThread
<1>5. CASE Search
  <2>1. CASE active # None \/ contexts = <<>>
    BY <1>5, <2>1 DEF Search, Refuse, Reading, OneThread
  <2>2. CASE active = None /\ contexts # <<>> /\ search = NoSearch
    <3>1. search' \in Searches
      <4>1. Head(contexts) \in Epochs
        BY <2>2, HeadTailProperties DEF TypeOK
      <4>2. doing.command.jobId \in JobIds
        BY <1>5, AtHand DEF Search
      <4>3. [job |-> doing.command.jobId, phase |-> "hashing", cancel |-> FALSE,
             context |-> Head(contexts)] \in Searches
        BY <4>1, <4>2 DEF Searches, WorkerAssumption
      <4>. QED
        BY <1>5, <2>2, <4>3 DEF Search
    <3>2. search'.job = active' /\ search'.phase = "hashing" /\ active' # None
          /\ search'.context = Head(contexts)
      BY <1>5, <2>2, AtHand DEF Search, WorkerAssumption
    <3>3. contexts' = contexts /\ doing'.step = "read"
      BY <1>5, <2>2 DEF Search, Reading
    <3>. QED
      BY <2>2, <3>1, <3>2, <3>3 DEF OneThread
  <2>3. CASE active = None /\ contexts # <<>> /\ search # NoSearch
    BY <1>5, <2>3 DEF Search, OneThread
  <2>. QED
    BY <2>1, <2>2, <2>3
<1>9. CASE Cancel
  <2>1. CASE active = doing.command.arg
    <3>1. search \in Searches
      <4>1. doing.command \in Cancels
        BY <1>9, AtHand DEF Cancel, Commands, Prepares, SearchCommands
      <4>. QED
        BY <1>9, <2>1, <4>1 DEF Cancel, Cancels, OneThread, WorkerAssumption
    <3>2. search' \in Searches /\ search'.job = search.job
          /\ search'.phase = search.phase /\ search'.context = search.context
      BY <1>9, <2>1, <3>1 DEF Cancel, Searches
    <3>. QED
      BY <1>9, <2>1, <3>2 DEF Cancel, Reading, OneThread
  <2>2. CASE active # doing.command.arg
    BY <1>9, <2>2 DEF Cancel, Refuse, Reading, OneThread
  <2>. QED
    BY <2>1, <2>2
<1>6. CASE Exit \/ Die
  BY <1>6 DEF Exit, Die, OneThread
<1>7. CASE SearchThread
  <2>1. ASSUME Report \/ \E type \in Terminal : Tell(type) PROVE OneThread'
    <3>1. search \in Searches
      BY <2>1, HashingSearch DEF Report, Tell, Hashing
    <3>2. search' \in Searches /\ search'.job = search.job
          /\ search'.phase \in {"hashing", "told"} /\ search'.context = search.context
      <4>1. CASE Report
        BY <3>1, <4>1 DEF Report, Hashing
      <4>2. CASE \E type \in Terminal : Tell(type)
        BY <3>1, <4>2 DEF Tell, Hashing, Searches
      <4>. QED
        BY <2>1, <4>1, <4>2
    <3>. QED
      BY <2>1, <3>2 DEF Report, Tell, Hashing, OneThread
  <2>2. CASE Release
    <3>1. search \in Searches /\ active = search.job
      BY <2>2, HashingSearch DEF Release, OneThread
    <3>. QED
      BY <2>2, <3>1 DEF Release, OneThread, Searches
  <2>. QED
    BY <1>7, <2>1, <2>2 DEF SearchThread
<1>8. CASE CallerStep \/ UNCHANGED workerVars
  BY <1>8 DEF CallerStep, Write, EndInput, workerVars, OneThread
<1>. QED
  BY <1>1, <1>2, <1>3, <1>4, <1>5, <1>6, <1>7, <1>8, <1>9, <1>10 DEF WorkerStep, MainThread

TypeInv == TypeOK /\ OneThread

LEMMA InitType == ASSUME WorkerInit PROVE TypeInv
<1>1. /\ <<>> \in Seq(Commands) /\ <<>> \in Seq(Messages) /\ <<>> \in Seq(Epochs)
      /\ Len(<<>>) = 0
  BY EmptySeq
<1>2. TypeOK
  <2>1. Reading \in [step : {"read", "exit"}, command : {None}]
    BY DEF Reading
  <2>2. stdin \in Seq(Commands) /\ log \in Seq(Messages)
        /\ contexts \in Seq(Epochs) /\ Len(contexts) <= 2
    BY <1>1 DEF WorkerInit
  <2>. QED
    BY <2>1, <2>2 DEF WorkerInit, TypeOK
<1>3. NoSearch.phase = "none"
  BY DEF NoSearch
<1>. QED
  BY <1>2, <1>3 DEF WorkerInit, TypeInv, OneThread, Reading

LEMMA StepType ==
    ASSUME WorkerAssumption, TypeInv, [WorkerStep \/ CallerStep]_workerVars
    PROVE  TypeInv'
<1>1. CASE MainThread
  BY <1>1, MainType, StepOneThread DEF TypeInv, WorkerStep
<1>2. CASE SearchThread
  BY <1>2, ThreadType, StepOneThread DEF TypeInv, WorkerStep
<1>3. CASE Die
  <2>1. TypeOK'
    BY <1>3 DEF Die, TypeInv, TypeOK
  <2>. QED
    BY <1>3, <2>1, StepOneThread DEF TypeInv, WorkerStep
<1>4. CASE CallerStep
  BY <1>4, CallerType, StepOneThread DEF TypeInv
<1>5. CASE UNCHANGED workerVars
  BY <1>5 DEF TypeInv, TypeOK, OneThread, workerVars
<1>. QED
  BY <1>1, <1>2, <1>3, <1>4, <1>5 DEF WorkerStep

(* The worker's queues, contexts and jobs keep their types, and `active`   *)
(* points to the one search whose thread is joinable (Impl,                *)
(* randomx_engine.cpp).                                                    *)
THEOREM WorkerTypeInv == WorkerSpec => []TypeInv
<1>1. WorkerInit => TypeInv
  BY InitType
<1>2. TypeInv /\ [WorkerStep \/ CallerStep]_workerVars => TypeInv'
  BY StepType, WorkerAssumption
<1>. QED
  BY <1>1, <1>2, PTL DEF WorkerSpec

(* While a search is active, its dataset stays the current one, and the    *)
(* job `active` names is the job whose thread can be joined.               *)
THEOREM DatasetHeld == WorkerSpec => []ActiveOnCurrent
<1>1. TypeInv => ActiveOnCurrent
  BY DEF TypeInv, OneThread, ActiveOnCurrent
<1>. QED
  BY <1>1, WorkerTypeInv, PTL

------------------------------------------------------------------------------
(* The frame of a search: started first, terminal last.                    *)

(* A job id names one command: what is unread, at hand and answered differ. *)
Fresh ==
    /\ \A i \in DOMAIN stdin, j \in DOMAIN log : stdin[i].jobId # log[j].jobId
    /\ \A i, j \in DOMAIN stdin : i # j => stdin[i].jobId # stdin[j].jobId
    /\ doing.step \in {"join", "serve", "building"} =>
          /\ \A i \in DOMAIN stdin : stdin[i].jobId # doing.command.jobId
          /\ \A j \in DOMAIN log : log[j].jobId # doing.command.jobId

(* A search that hashes has been announced and has not been ended. *)
InFrame ==
    process = "running" /\ search.phase = "hashing" =>
        /\ \E i \in DOMAIN log : log[i].type = "started" /\ log[i].jobId = search.job
        /\ \A i \in DOMAIN log : log[i].jobId = search.job => log[i].type \notin Terminal

Framed == SearchIsFramed /\ Fresh /\ InFrame

(* One more line: the old ones stay where they are. *)
LEMMA LogGrows ==
    ASSUME TypeOK, NEW e \in Messages, log' = Append(log, e)
    PROVE  /\ Len(log) \in Nat
           /\ DOMAIN log = 1..Len(log) /\ DOMAIN log' = 1..(Len(log) + 1)
           /\ \A i \in DOMAIN log : log'[i] = log[i]
           /\ log'[Len(log) + 1] = e
<1>1. log \in Seq(Messages)
  BY DEF TypeOK
<1>2. log' \in Seq(Messages) /\ Len(log') = Len(log) + 1
  BY <1>1, AppendProperties
<1>3. DOMAIN log = 1..Len(log) /\ Len(log) \in Nat /\ DOMAIN log' = 1..Len(log')
  BY <1>1, <1>2, LenProperties
<1>. QED
  BY <1>1, <1>2, <1>3, AppendProperties

LEMMA LineKeepsFrame ==
    ASSUME TypeOK, SearchIsFramed, NEW e \in Messages, log' = Append(log, e),
           \A i \in DOMAIN log : log[i].jobId = e.jobId => log[i].type \notin Terminal,
           e.type \in Terminal \cup {"progress"} =>
               \E i \in DOMAIN log : log[i].jobId = e.jobId /\ log[i].type = "started"
    PROVE  SearchIsFramed'
<1>1. StartedComesFirst'
  <2>. SUFFICES ASSUME NEW j \in DOMAIN log', IsSearch(j)', log'[j].type # "started"
                PROVE  \E i \in 1..(j - 1) : log'[i].jobId = log'[j].jobId /\ log'[i].type = "started"
    BY DEF StartedComesFirst
  <2>1. CASE j \in DOMAIN log
    <3>1. IsSearch(j) /\ log[j].type # "started"
      BY <2>1, LogGrows DEF IsSearch
    <3>2. PICK i \in 1..(j - 1) : log[i].jobId = log[j].jobId /\ log[i].type = "started"
      BY <2>1, <3>1 DEF SearchIsFramed, StartedComesFirst
    <3>3. i \in DOMAIN log
      BY <2>1, LogGrows
    <3>. QED
      BY <2>1, <3>2, <3>3, LogGrows
  <2>2. CASE j = Len(log) + 1
    <3>1. e.type \in Terminal \cup {"progress"}
      BY <2>2, LogGrows DEF IsSearch
    <3>2. PICK i \in DOMAIN log : log[i].jobId = e.jobId /\ log[i].type = "started"
      BY <3>1
    <3>3. i \in 1..(j - 1)
      BY <2>2, LogGrows
    <3>. QED
      BY <2>2, <3>2, <3>3, LogGrows
  <2>. QED
    BY <2>1, <2>2, LogGrows
<1>2. TerminalComesLast'
  <2>. SUFFICES ASSUME NEW i \in DOMAIN log', NEW j \in DOMAIN log', i < j,
                       log'[i].jobId = log'[j].jobId
                PROVE  log'[i].type \notin Terminal
    BY DEF TerminalComesLast
  <2>1. i \in DOMAIN log
    BY LogGrows
  <2>2. CASE j \in DOMAIN log
    BY <2>1, <2>2, LogGrows DEF SearchIsFramed, TerminalComesLast
  <2>3. CASE j = Len(log) + 1
    BY <2>1, <2>3, LogGrows
  <2>. QED
    BY <2>2, <2>3, LogGrows
<1>. QED
  BY <1>1, <1>2 DEF SearchIsFramed

(* A line of the main thread: the answer to the command at hand. *)
LEMMA AnswerKeepsFrame ==
    ASSUME TypeOK, Framed, doing.step \in {"serve", "building"},
           NEW type \in Types \ (Terminal \cup {"progress"}),
           Emit(type, doing.command.jobId), doing' = Reading, stdin' = stdin
    PROVE  SearchIsFramed' /\ Fresh'
<1>. DEFINE e == [type |-> type, jobId |-> doing.command.jobId, context |-> None]
<1>1. e \in Messages /\ log' = Append(log, e)
  BY AtHand DEF Messages, Emit
<1>2. \A i \in DOMAIN log : log[i].jobId # e.jobId
  BY DEF Framed, Fresh
<1>3. SearchIsFramed'
  BY <1>1, <1>2, LineKeepsFrame DEF Framed
<1>4. \A i \in DOMAIN stdin, j \in DOMAIN log' : stdin[i].jobId # log'[j].jobId
  <2>. SUFFICES ASSUME NEW i \in DOMAIN stdin, NEW j \in DOMAIN log'
                PROVE  stdin[i].jobId # log'[j].jobId
    OBVIOUS
  <2>1. CASE j \in DOMAIN log
    BY <1>1, <2>1, LogGrows DEF Framed, Fresh
  <2>2. CASE j = Len(log) + 1
    BY <1>1, <2>2, LogGrows DEF Framed, Fresh
  <2>. QED
    BY <1>1, <2>1, <2>2, LogGrows
<1>. QED
  BY <1>3, <1>4 DEF Framed, Fresh, Reading

(* The search at hand goes on unless it is the one that is told. *)
LEMMA AnswerKeepsSearch ==
    ASSUME TypeOK, Framed, doing.step \in {"serve", "building"},
           NEW type \in Types \ (Terminal \cup {"progress"}),
           Emit(type, doing.command.jobId),
           process' = process, search'.phase = search.phase, search'.job = search.job
    PROVE  InFrame'
<1>. DEFINE e == [type |-> type, jobId |-> doing.command.jobId, context |-> None]
<1>1. e \in Messages /\ log' = Append(log, e)
  BY AtHand DEF Messages, Emit
<1>. SUFFICES ASSUME process = "running", search.phase = "hashing"
              PROVE  /\ \E i \in DOMAIN log' : log'[i].type = "started" /\ log'[i].jobId = search.job
                     /\ \A i \in DOMAIN log' : log'[i].jobId = search.job =>
                            log'[i].type \notin Terminal
  BY DEF InFrame
<1>2. PICK i \in DOMAIN log : log[i].type = "started" /\ log[i].jobId = search.job
  BY DEF Framed, InFrame
<1>3. \A j \in DOMAIN log : log[j].jobId = search.job => log[j].type \notin Terminal
  BY DEF Framed, InFrame
<1>4. i \in DOMAIN log' /\ log'[i] = log[i]
  BY <1>1, LogGrows
<1>5. \A j \in DOMAIN log' : j \in DOMAIN log \/ log'[j] = e
  BY <1>1, LogGrows
<1>6. \A j \in DOMAIN log : log'[j] = log[j]
  BY <1>1, LogGrows
<1>. QED
  BY <1>2, <1>3, <1>4, <1>5, <1>6

(* A line of the search thread, under the job id of its search. *)
LEMMA ThreadLineKeepsFrame ==
    ASSUME TypeInv, Framed, Hashing, NEW e \in Messages, log' = Append(log, e),
           e.jobId = search.job, stdin' = stdin, doing' = doing
    PROVE  SearchIsFramed' /\ Fresh'
<1>1. PICK s \in DOMAIN log : log[s].type = "started" /\ log[s].jobId = search.job
  BY DEF Framed, InFrame, Hashing
<1>2. SearchIsFramed'
  BY <1>1, LineKeepsFrame DEF Framed, InFrame, Hashing, TypeInv
<1>3. \A j \in DOMAIN log' : \E i \in DOMAIN log : log'[j].jobId = log[i].jobId
  <2>. SUFFICES ASSUME NEW j \in DOMAIN log'
                PROVE  \E i \in DOMAIN log : log'[j].jobId = log[i].jobId
    OBVIOUS
  <2>1. CASE j \in DOMAIN log
    BY <2>1, LogGrows DEF TypeInv
  <2>2. CASE j = Len(log) + 1
    BY <1>1, <2>2, LogGrows DEF TypeInv
  <2>. QED
    BY <2>1, <2>2, LogGrows DEF TypeInv
<1>. QED
  BY <1>2, <1>3 DEF Framed, Fresh

LEMMA ThreadFramed ==
    ASSUME WorkerAssumption, TypeInv, Framed, SearchThread
    PROVE  Framed'
<1>1. CASE Report
  <2>. DEFINE e == [type |-> "progress", jobId |-> search.job, context |-> None]
  <2>1. search \in Searches /\ Hashing
    BY <1>1, HashingSearch DEF Report, Hashing, TypeInv
  <2>2. e \in Messages /\ log' = Append(log, e)
    BY <1>1, <2>1 DEF Report, Emit, Messages, Types, Searches
  <2>3. SearchIsFramed' /\ Fresh'
    BY <1>1, <2>1, <2>2, ThreadLineKeepsFrame DEF Report
  <2>4. search'.job = search.job
    BY <1>1 DEF Report
  <2>5. PICK s \in DOMAIN log : log[s].type = "started" /\ log[s].jobId = search.job
    BY <2>1 DEF Framed, InFrame, Hashing
  <2>6. s \in DOMAIN log' /\ log'[s] = log[s]
    BY <2>2, LogGrows DEF TypeInv
  <2>7. \A j \in DOMAIN log' : log'[j] = e \/ (j \in DOMAIN log /\ log'[j] = log[j])
    BY <2>2, LogGrows DEF TypeInv
  <2>8. "progress" \notin Terminal
    BY DEF Terminal
  <2>9. InFrame'
    BY <2>1, <2>4, <2>5, <2>6, <2>7, <2>8 DEF InFrame, Framed, Hashing
  <2>. QED
    BY <2>3, <2>9 DEF Framed
<1>2. ASSUME NEW type \in Terminal, Tell(type) PROVE Framed'
  <2>. DEFINE e == [type |-> type, jobId |-> search.job,
                    context |-> IF type = "solution" THEN search.context ELSE None]
  <2>1. search \in Searches /\ Hashing
    BY <1>2, HashingSearch DEF Tell, Hashing, TypeInv
  <2>2. e \in Messages /\ log' = Append(log, e)
    BY <1>2, <2>1 DEF Tell, Messages, Types, Searches
  <2>3. SearchIsFramed' /\ Fresh'
    BY <1>2, <2>1, <2>2, ThreadLineKeepsFrame DEF Tell
  <2>4. search'.phase = "told"
    BY <1>2, <2>1 DEF Tell, Searches
  <2>. QED
    BY <2>3, <2>4 DEF Framed, InFrame
<1>3. CASE Release
  <2>1. search'.phase = "finished"
    BY <1>3, HashingSearch DEF Release, TypeInv, Searches
  <2>. QED
    BY <1>3, <2>1 DEF Release, Framed, SearchIsFramed, StartedComesFirst, IsSearch,
                      TerminalComesLast, Fresh, InFrame
<1>. QED
  BY <1>1, <1>2, <1>3 DEF SearchThread

(* Lines, unread commands and the search are as before, or fewer. *)
LEMMA SilentFramed ==
    ASSUME Framed, log' = log, stdin' = stdin, doing' = doing,
           process' = process \/ process' # "running", search' = search
    PROVE  Framed'
BY DEF Framed, SearchIsFramed, StartedComesFirst, IsSearch, TerminalComesLast, Fresh, InFrame

LEMMA CallerFramed == ASSUME TypeInv, Framed, CallerStep PROVE Framed'
<1>1. ASSUME NEW c \in Commands, Write(c) PROVE Framed'
  <2>1. stdin \in Seq(Commands)
    BY DEF TypeInv, TypeOK
  <2>2. /\ Len(stdin) \in Nat /\ DOMAIN stdin = 1..Len(stdin)
        /\ DOMAIN stdin' = 1..(Len(stdin) + 1)
        /\ \A i \in DOMAIN stdin : stdin'[i] = stdin[i]
        /\ stdin'[Len(stdin) + 1] = c
    <3>1. stdin' = Append(stdin, c)
      BY <1>1 DEF Write
    <3>2. stdin' \in Seq(Commands) /\ Len(stdin') = Len(stdin) + 1
      BY <2>1, <3>1, AppendProperties
    <3>. QED
      BY <2>1, <3>1, <3>2, AppendProperties, LenProperties
  <2>3. \A i \in DOMAIN stdin' : stdin'[i] = c \/ (i \in DOMAIN stdin /\ stdin'[i] = stdin[i])
    BY <2>2
  <2>4. \A i, j \in DOMAIN stdin' : i # j => stdin'[i].jobId # stdin'[j].jobId
    <3>. SUFFICES ASSUME NEW i \in DOMAIN stdin', NEW j \in DOMAIN stdin', i < j
                  PROVE  stdin'[i].jobId # stdin'[j].jobId
      BY <2>2
    <3>1. i \in DOMAIN stdin /\ stdin'[i] = stdin[i]
      BY <2>2
    <3>2. CASE j = Len(stdin) + 1
      BY <1>1, <2>2, <3>1, <3>2 DEF Write, Unused
    <3>3. CASE j \in DOMAIN stdin
      BY <2>2, <3>1, <3>3 DEF Framed, Fresh
    <3>. QED
      BY <2>2, <3>2, <3>3
  <2>5. Fresh'
    BY <1>1, <2>3, <2>4 DEF Write, Unused, Fresh, Framed, Reading
  <2>. QED
    BY <1>1, <2>5 DEF Write, Framed, SearchIsFramed, StartedComesFirst, IsSearch,
                      TerminalComesLast, InFrame
<1>2. CASE EndInput
  BY <1>2, SilentFramed DEF EndInput
<1>. QED
  BY <1>1, <1>2 DEF CallerStep

LEMMA RefuseFramed ==
    ASSUME TypeOK, Framed, doing.step \in {"serve", "building"}, Refuse,
           stdin' = stdin, process' = process, search' = search
    PROVE  Framed'
<1>1. "INVALID_REQUEST" \in Types \ (Terminal \cup {"progress"})
  BY DEF Types, Terminal
<1>2. SearchIsFramed' /\ Fresh'
  BY <1>1, AnswerKeepsFrame DEF Refuse
<1>3. InFrame'
  BY <1>1, AnswerKeepsSearch DEF Refuse
<1>. QED
  BY <1>2, <1>3 DEF Framed

LEMMA ReadFramed == ASSUME TypeInv, Framed, Read PROVE Framed'
<1>1. stdin \in Seq(Commands) /\ stdin # <<>>
  BY DEF Read, TypeInv, TypeOK
<1>2. /\ Len(stdin) \in Nat \ {0} /\ DOMAIN stdin = 1..Len(stdin)
      /\ DOMAIN stdin' = 1..(Len(stdin) - 1)
      /\ \A i \in DOMAIN stdin' : stdin'[i] = stdin[i + 1]
      /\ Head(stdin) = stdin[1]
  <2>1. stdin' = Tail(stdin)
    BY DEF Read
  <2>2. stdin' \in Seq(Commands) /\ Len(stdin') = Len(stdin) - 1
        /\ \A i \in 1..Len(stdin') : stdin'[i] = stdin[i + 1]
    BY <1>1, <2>1, HeadTailProperties
  <2>. QED
    BY <1>1, <2>2, LenProperties, EmptySeq
<1>3. doing'.command = stdin[1]
  BY <1>2 DEF Read
<1>4. Fresh'
  <2>1. \A i \in DOMAIN stdin' : i + 1 \in DOMAIN stdin /\ i + 1 # 1
    BY <1>2
  <2>2. 1 \in DOMAIN stdin
    BY <1>2
  <2>3. log' = log
    BY DEF Read
  <2>4. \A i \in DOMAIN stdin', j \in DOMAIN log : stdin'[i].jobId # log[j].jobId
    BY <1>2, <2>1 DEF Framed, Fresh
  <2>5. \A i, j \in DOMAIN stdin' : i # j => stdin'[i].jobId # stdin'[j].jobId
    <3>. SUFFICES ASSUME NEW i \in DOMAIN stdin', NEW j \in DOMAIN stdin', i # j
                  PROVE  stdin'[i].jobId # stdin'[j].jobId
      OBVIOUS
    <3>1. i + 1 # j + 1
      BY <1>2
    <3>. QED
      BY <1>2, <2>1, <3>1 DEF Framed, Fresh
  <2>6. \A i \in DOMAIN stdin' : stdin'[i].jobId # doing'.command.jobId
    BY <1>2, <1>3, <2>1, <2>2 DEF Framed, Fresh
  <2>7. \A j \in DOMAIN log : log[j].jobId # doing'.command.jobId
    BY <1>3, <2>2 DEF Framed, Fresh
  <2>. QED
    BY <2>3, <2>4, <2>5, <2>6, <2>7 DEF Fresh
<1>. QED
  BY <1>4 DEF Read, Framed, SearchIsFramed, StartedComesFirst, IsSearch, TerminalComesLast, InFrame

LEMMA SearchFramed == ASSUME TypeInv, Framed, Search PROVE Framed'
<1>. DEFINE job == doing.command.jobId
<1>1. CASE active # None \/ contexts = <<>>
  BY <1>1, RefuseFramed DEF Search, TypeInv
<1>2. CASE active = None /\ contexts # <<>>
  <2>1. "started" \in Types \ (Terminal \cup {"progress"})
    BY DEF Types, Terminal
  <2>2. /\ Emit("started", job) /\ doing' = Reading /\ stdin' = stdin
        /\ doing.step \in {"serve", "building"}
    BY <1>2 DEF Search
  <2>3. SearchIsFramed' /\ Fresh'
    BY <2>1, <2>2, AnswerKeepsFrame DEF TypeInv
  <2>4. InFrame'
    <3>1. CASE search = NoSearch
      <4>. DEFINE e == [type |-> "started", jobId |-> job, context |-> None]
      <4>1. e \in Messages /\ log' = Append(log, e)
        BY <2>1, <2>2, AtHand DEF Messages, Emit, TypeInv
      <4>2. search'.job = job
        BY <1>2, <3>1 DEF Search
      <4>3. Len(log) + 1 \in DOMAIN log' /\ log'[Len(log) + 1] = e
        BY <4>1, LogGrows DEF TypeInv
      <4>4. \A j \in DOMAIN log' : log'[j] = e \/ (j \in DOMAIN log /\ log'[j] = log[j])
        BY <4>1, LogGrows DEF TypeInv
      <4>5. \A j \in DOMAIN log : log[j].jobId # job
        BY <2>2 DEF Framed, Fresh
      <4>6. "started" \notin Terminal
        BY DEF Terminal
      <4>. QED
        BY <4>2, <4>3, <4>4, <4>5, <4>6 DEF InFrame
    <3>2. CASE search # NoSearch
      BY <1>2, <3>2 DEF Search, InFrame
    <3>. QED
      BY <3>1, <3>2
  <2>. QED
    BY <2>3, <2>4 DEF Framed
<1>. QED
  BY <1>1, <1>2

LEMMA CancelFramed == ASSUME WorkerAssumption, TypeInv, Framed, Cancel PROVE Framed'
<1>1. CASE active = doing.command.arg
  <2>1. search \in Searches
    <3>1. doing.command \in Cancels
      BY AtHand DEF Cancel, Commands, Prepares, SearchCommands, TypeInv
    <3>. QED
      BY <1>1, <3>1 DEF Cancel, Cancels, TypeInv, OneThread, WorkerAssumption
  <2>2. search'.job = search.job /\ search'.phase = search.phase
    BY <1>1, <2>1 DEF Cancel, Searches
  <2>3. "cancel-requested" \in Types \ (Terminal \cup {"progress"})
    BY DEF Types, Terminal
  <2>4. SearchIsFramed' /\ Fresh'
    BY <1>1, <2>3, AnswerKeepsFrame DEF Cancel, TypeInv
  <2>5. InFrame'
    BY <1>1, <2>2, <2>3, AnswerKeepsSearch DEF Cancel, TypeInv
  <2>. QED
    BY <2>4, <2>5 DEF Framed
<1>2. CASE active # doing.command.arg
  BY <1>2, RefuseFramed DEF Cancel, TypeInv
<1>. QED
  BY <1>1, <1>2

LEMMA MainFramed == ASSUME WorkerAssumption, TypeInv, Framed, MainThread PROVE Framed'
<1>1. CASE JoinCompletedSearch
  <2>1. doing'.command = doing.command /\ doing'.step = "serve"
    BY <1>1 DEF JoinCompletedSearch, TypeInv, TypeOK
  <2>2. search' = search \/ search'.phase = "none"
    BY <1>1 DEF JoinCompletedSearch, NoSearch
  <2>. QED
    BY <1>1, <2>1, <2>2 DEF JoinCompletedSearch, Framed, SearchIsFramed, StartedComesFirst,
                            IsSearch, TerminalComesLast, Fresh, InFrame
<1>2. CASE Prepare
  <2>1. CASE active # None
    BY <1>2, <2>1, RefuseFramed DEF Prepare, TypeInv
  <2>2. CASE active = None
    <3>1. doing'.command = doing.command
      BY <1>2, <2>2 DEF Prepare, TypeInv, TypeOK
    <3>. QED
      BY <1>2, <2>2, <3>1 DEF Prepare, Framed, SearchIsFramed, StartedComesFirst,
                              IsSearch, TerminalComesLast, Fresh, InFrame
  <2>. QED
    BY <2>1, <2>2
<1>3. CASE Built
  <2>1. "ready" \in Types \ (Terminal \cup {"progress"})
    BY DEF Types, Terminal
  <2>2. SearchIsFramed' /\ Fresh'
    BY <1>3, <2>1, AnswerKeepsFrame DEF Built, TypeInv
  <2>3. InFrame'
    BY <1>3, <2>1, AnswerKeepsSearch DEF Built, TypeInv
  <2>. QED
    BY <2>2, <2>3 DEF Framed
<1>4. CASE BuildFails
  BY <1>4, RefuseFramed DEF BuildFails, TypeInv
<1>5. CASE Shutdown
  <2>1. doing'.step = "exit"
    BY <1>5 DEF Shutdown, TypeInv, TypeOK
  <2>2. search.phase = "hashing" => active # None
    BY <1>5 DEF Shutdown, TypeInv, OneThread
  <2>3. search'.phase = "hashing" => search.phase = "hashing" /\ search'.job = search.job
    BY <1>5 DEF Shutdown, TypeInv, OneThread, Searches
  <2>. QED
    BY <1>5, <2>1, <2>3 DEF Shutdown, Framed, SearchIsFramed, StartedComesFirst,
                            IsSearch, TerminalComesLast, Fresh, InFrame
<1>6. CASE Exit
  BY <1>6 DEF Exit, Framed, SearchIsFramed, StartedComesFirst, IsSearch,
              TerminalComesLast, Fresh, InFrame
<1>. QED
  BY <1>1, <1>2, <1>3, <1>4, <1>5, <1>6, ReadFramed, SearchFramed, CancelFramed DEF MainThread

LEMMA StepFramed ==
    ASSUME WorkerAssumption, TypeInv, Framed, [WorkerStep \/ CallerStep]_workerVars
    PROVE  Framed'
<1>1. CASE Die
  BY <1>1, SilentFramed DEF Die
<1>2. CASE UNCHANGED workerVars
  BY <1>2, SilentFramed DEF workerVars
<1>. QED
  BY <1>1, <1>2, MainFramed, ThreadFramed, CallerFramed DEF WorkerStep

LEMMA InitFramed == ASSUME WorkerInit PROVE Framed
<1>1. NoSearch.phase = "none"
  BY DEF NoSearch
<1>2. DOMAIN log = {} /\ DOMAIN stdin = {}
  BY DEF WorkerInit
<1>3. Fresh /\ SearchIsFramed
  BY <1>2 DEF WorkerInit, Reading, SearchIsFramed, StartedComesFirst, TerminalComesLast, Fresh
<1>. QED
  BY <1>1, <1>3 DEF WorkerInit, Framed, InFrame

(* Whatever commands come and whenever the process dies: a search says     *)
(* `started` before anything else and nothing after its terminal message.  *)
THEOREM SearchesFramed == WorkerSpec => []SearchIsFramed
<1>1. WorkerInit => Framed
  BY InitFramed
<1>2. TypeInv /\ Framed /\ [WorkerStep \/ CallerStep]_workerVars => Framed'
  BY StepFramed, WorkerAssumption
<1>3. Framed => SearchIsFramed
  BY DEF Framed
<1>. QED
  BY <1>1, <1>2, <1>3, WorkerTypeInv, PTL DEF WorkerSpec

-----------------------------------------------------------------------------
(* The miner.  It uses the worker as WorkerSpec says, so what is proved    *)
(* above holds for its worker; what follows relates the lines of the       *)
(* worker to what the client has asked, read and taken.                    *)

Kinds == {"prepare", "search", "cancel"}

(* Commands that are not answered yet: unread, or at hand. *)
AtWork == doing.step \in {"join", "serve", "building"}
Pending == {stdin[i] : i \in DOMAIN stdin} \cup {c \in {doing.command} : AtWork}

(* A job the worker has not heard of: so its id may be used. *)
Unheard(job) ==
    /\ \A c \in Pending : c.jobId # job
    /\ \A i \in DOMAIN log : log[i].jobId # job

(* The commands the client has not written, by what it knows of itself. *)
NotYet(m, kind) ==
    \/ m > mine.call
    \/ kind = "search" /\ m = mine.call /\ mine.step = "preparing"
    \/ kind = "cancel" /\ m \notin aborted
    \/ kind = "cancel" /\ m = mine.call /\ mine.step \in {"preparing", "starting"}

IdsAreFresh == \A m \in Calls, kind \in Kinds : NotYet(m, kind) => Unheard(Id(m, kind))

(* The ids say what they are of. *)
KindOf(type) ==
    CASE type = "ready" -> "prepare"
      [] type = "cancel-requested" -> "cancel"
      [] OTHER -> "search"

IdsAreOfTheirKind ==
    /\ \A c \in Pending : \E m \in Calls : c.jobId = Id(m, c.command)
    /\ \A i \in DOMAIN log : \E m \in Calls, kind \in Kinds :
          /\ log[i].jobId = Id(m, kind)
          /\ log[i].type # "INVALID_REQUEST" => kind = KindOf(log[i].type)

(* A search starts once, and a prepare that is ready has had its answer. *)
SaidOnce ==
    \A i, j \in DOMAIN log :
        log[i].jobId = log[j].jobId
            /\ (log[i].type = "ready" \/ (log[i].type = "started" /\ log[j].type = "started"))
            => i = j

OfMine(kind) == Id(mine.call, kind)

(* A worker that runs, or has exited of itself, owes each step of mine a   *)
(* line or is about to write it.                                           *)
Awaited(kind, type) ==
    \/ \E c \in Pending : c.jobId = OfMine(kind)
    \/ \E i \in DOMAIN log : /\ log[i].jobId = OfMine(kind)
                            /\ log[i].type \in {type, "INVALID_REQUEST"}

WorkerOwes ==
    process \in {"running", "exited"} =>
        /\ mine.step = "preparing" => Awaited("prepare", "ready")
        /\ mine.step = "starting" => Awaited("search", "started")
        /\ \A i \in DOMAIN log : log[i].type = "started" =>
              \/ search.phase = "hashing" /\ search.job = log[i].jobId
              \/ \E j \in DOMAIN log : log[j].jobId = log[i].jobId /\ log[j].type \in Terminal

(* It leaves only when its input is at an end and all of it answered.      *)
LeavesInOrder ==
    /\ doing.step = "exit" => eof /\ stdin = <<>>
    /\ process = "exited" => doing.step = "exit" /\ search.phase = "none"

(* What the waiters of mine have taken is what brought it to its step. *)
TakenInOrder ==
    /\ mine.step = "preparing" => \A i \in taken : log[i].jobId # OfMine("prepare")
    /\ mine.step \in {"preparing", "starting"} =>
          \A i \in taken : log[i].jobId # OfMine("search")
    /\ mine.step = "searching" =>
          /\ \A i \in taken : log[i].jobId = OfMine("search") => log[i].type \notin Terminal
          /\ \E i \in taken : log[i].jobId = OfMine("search") /\ log[i].type = "started"

(* A call that ended with a terminal message has taken that message, and   *)
(* one that has not begun has no outcome.                                  *)
OutcomesAreTaken ==
    \A m \in Calls :
        /\ m > mine.call => outcome[m] = "none"
        /\ outcome[m] \in {"solution", "exhausted", "cancelled"} =>
              \E i \in taken : log[i].jobId = Id(m, "search") /\ log[i].type \in Terminal

MinerInv ==
    /\ MinerTypeOK /\ TypeInv /\ Framed
    /\ mine.step # "idle" => mine.call \in Calls
    /\ IdsAreFresh
    /\ IdsAreOfTheirKind
    /\ SaidOnce
    /\ WorkerOwes
    /\ LeavesInOrder
    /\ TakenInOrder
    /\ OutcomesAreTaken
    /\ SettledIsQuiet

(* Whose search an id is. *)
CallOf(job) == job[1]

CurrentIs(epoch) == contexts # <<>> /\ Head(contexts) = epoch

IsReady == \E i \in DOMAIN log : log[i].type = "ready" /\ log[i].jobId = OfMine("prepare")

(* Without late prepares: the worker has no prepare but that of the call   *)
(* under way, and that one is the last command there is.                   *)
PrepareIsOfMine ==
    process = "running" =>
        \A c \in Pending : c.command = "prepare" =>
            /\ mine.step = "preparing" /\ c.jobId = OfMine("prepare")
            /\ c.arg = epochOf[mine.call]

PrepareIsLast ==
    process = "running" =>
        /\ \A i \in DOMAIN stdin : stdin[i].command = "prepare" => i = Len(stdin)
        /\ AtWork /\ doing.command.command = "prepare" => stdin = <<>>

(* What the client remembers as prepared is what the worker holds current, *)
(* unless a prepare is done and the client has not heard.                  *)
KeyIsCurrent ==
    process = "running" =>
        IF mine.step = "preparing" /\ IsReady
        THEN CurrentIs(epochOf[mine.call])
        ELSE preparedKey # None => CurrentIs(preparedKey)

PreparedIsCurrent == PrepareIsOfMine /\ PrepareIsLast /\ KeyIsCurrent

(* Hence every search is, and was, on the dataset of its own call. *)
PendingFit ==
    process = "running" =>
        \A c \in Pending : c.command = "search" => CurrentIs(epochOf[CallOf(c.jobId)])

HashingFits == Hashing => search.context = epochOf[CallOf(search.job)]

LinesFit ==
    \A i \in DOMAIN log : log[i].type = "solution" =>
        log[i].context = epochOf[CallOf(log[i].jobId)]

SearchesFit == PendingFit /\ HashingFits /\ LinesFit

EpochInv == PreparedIsCurrent /\ SearchesFit /\ SolutionIsOfItsEpoch

-----------------------------------------------------------------------------
(* What a step of the worker does to the commands and the lines: nothing,  *)
(* the answer to one command, or a line of the search.                     *)

Says(e) == e \in Messages /\ log' = Append(log, e)

AnswerTypes(command) ==
    {"INVALID_REQUEST"} \cup
        (IF command = "prepare" THEN {"ready"}
         ELSE IF command = "search" THEN {"started"} ELSE {"cancel-requested"})

Silent == Pending' = Pending /\ log' = log

AnswersCommand(c, e) ==
    /\ c \in Pending /\ Pending' = Pending \ {c}
    /\ Says(e) /\ e.jobId = c.jobId /\ e.type \in AnswerTypes(c.command)
    /\ \A i \in DOMAIN log : log[i].jobId # c.jobId
    /\ \A d \in Pending' : d.jobId # c.jobId

TellsOfSearch(e) ==
    /\ Pending' = Pending
    /\ Says(e) /\ e.jobId = search.job /\ e.type \in Terminal \cup {"progress"}
    /\ e.type = "solution" => e.context = search.context
    /\ Hashing

LEMMA PendingType == TypeOK => Pending \subseteq Commands
<1> SUFFICES ASSUME TypeOK PROVE Pending \subseteq Commands
  OBVIOUS
<1>1. \A i \in DOMAIN stdin : stdin[i] \in Commands
  BY DEF TypeOK
<1> QED BY <1>1, AtHand DEF Pending, AtWork

LEMMA DoingStep ==
    TypeOK => /\ doing.step \in {"read", "exit", "join", "serve", "building"}
              /\ doing.step = "read" => doing = Reading
BY DEF TypeOK, Reading

LEMMA UnheardIsUnused ==
    ASSUME TypeOK, NEW job, Unheard(job)
    PROVE  Unused(job)
<1>1. \A i \in DOMAIN stdin : stdin[i] \in Pending
  BY DEF Pending
<1>2. AtWork => doing.command \in Pending
  BY DEF Pending
<1> QED BY <1>1, <1>2, DoingStep DEF Unheard, Unused, AtWork

LEMMA WriteShape ==
    ASSUME TypeOK, NEW c \in Commands, Write(c)
    PROVE  Pending' = Pending \cup {c} /\ log' = log
<1>1. stdin \in Seq(Commands) /\ stdin' = Append(stdin, c)
  BY DEF TypeOK, Write
<1>2. /\ Len(stdin) \in Nat /\ DOMAIN stdin = 1..Len(stdin)
      /\ DOMAIN stdin' = 1..(Len(stdin) + 1)
      /\ \A i \in DOMAIN stdin : stdin'[i] = stdin[i]
      /\ stdin'[Len(stdin) + 1] = c
  <2>1. stdin' \in Seq(Commands) /\ Len(stdin') = Len(stdin) + 1
    BY <1>1, AppendProperties
  <2> QED BY <1>1, <2>1, AppendProperties, LenProperties
<1>3. {stdin'[i] : i \in DOMAIN stdin'} = {stdin[i] : i \in DOMAIN stdin} \cup {c}
  BY <1>2
<1> QED BY <1>3 DEF Pending, AtWork, Write

LEMMA ReadShape == ASSUME TypeOK, Read PROVE Silent
<1>1. stdin \in Seq(Commands) /\ stdin # <<>> /\ stdin' = Tail(stdin)
  BY DEF Read, TypeOK
<1>2. /\ Len(stdin) \in Nat \ {0} /\ DOMAIN stdin = 1..Len(stdin)
      /\ DOMAIN stdin' = 1..(Len(stdin) - 1)
      /\ \A i \in DOMAIN stdin' : stdin'[i] = stdin[i + 1]
      /\ Head(stdin) = stdin[1]
  <2>1. stdin' \in Seq(Commands) /\ Len(stdin') = Len(stdin) - 1
        /\ \A i \in 1..Len(stdin') : stdin'[i] = stdin[i + 1]
    BY <1>1, HeadTailProperties
  <2> QED BY <1>1, <2>1, LenProperties, EmptySeq
<1>3. ASSUME NEW c \in {stdin[i] : i \in DOMAIN stdin}
      PROVE  c \in {stdin'[i] : i \in DOMAIN stdin'} \cup {stdin[1]}
  <2>1. PICK i \in DOMAIN stdin : c = stdin[i]
    BY <1>3
  <2>2. CASE i = 1
    BY <2>1, <2>2
  <2>3. CASE i # 1
    <3>1. i - 1 \in DOMAIN stdin' /\ stdin'[i - 1] = stdin[(i - 1) + 1] /\ (i - 1) + 1 = i
      BY <1>2, <2>3
    <3> QED BY <2>1, <3>1
  <2> QED BY <2>2, <2>3
<1>4. \A i \in DOMAIN stdin' : i + 1 \in DOMAIN stdin
  BY <1>2
<1>5. {stdin[i] : i \in DOMAIN stdin} = {stdin'[i] : i \in DOMAIN stdin'} \cup {stdin[1]}
  BY <1>2, <1>3, <1>4
<1>6. doing'.command = stdin[1] /\ AtWork' /\ ~AtWork
  BY <1>2 DEF Read, AtWork
<1>7. Pending' = {stdin'[i] : i \in DOMAIN stdin'} \cup {stdin[1]}
  BY <1>6 DEF Pending
<1>8. Pending = {stdin[i] : i \in DOMAIN stdin}
  BY <1>6 DEF Pending
<1> QED BY <1>5, <1>7, <1>8 DEF Silent, Read

(* The command at hand is answered, and no other. *)
LEMMA AnswerShape ==
    ASSUME TypeOK, Fresh, doing.step \in {"serve", "building"}, doing' = Reading,
           stdin' = stdin, NEW type \in Types, type \in AnswerTypes(doing.command.command),
           Emit(type, doing.command.jobId)
    PROVE  \E c, e : AnswersCommand(c, e)
<1> DEFINE c == doing.command
           e == [type |-> type, jobId |-> c.jobId, context |-> None]
<1>1. e \in Messages /\ log' = Append(log, e)
  BY AtHand DEF Messages, Emit
<1>2. c \in Pending /\ Pending' = {stdin[i] : i \in DOMAIN stdin}
      /\ Pending = Pending' \cup {c}
  BY DEF Pending, AtWork, Reading
<1>3. /\ \A i \in DOMAIN log : log[i].jobId # c.jobId
      /\ \A d \in Pending' : d.jobId # c.jobId
  BY <1>2 DEF Fresh
<1>4. Pending' = Pending \ {c}
  BY <1>2, <1>3
<1>5. e.jobId = c.jobId /\ e.type \in AnswerTypes(c.command)
  OBVIOUS
<1>6. AnswersCommand(c, e)
  BY <1>1, <1>2, <1>3, <1>4, <1>5 DEF AnswersCommand, Says
<1> QED BY <1>6

LEMMA SameCommands ==
    ASSUME stdin' = stdin, AtWork' <=> AtWork, AtWork => doing'.command = doing.command,
           log' = log
    PROVE  Silent
BY DEF Silent, Pending

LEMMA MainShape ==
    ASSUME TypeInv, Framed, MainThread
    PROVE  Silent \/ \E c, e : AnswersCommand(c, e)
<1> USE DEF TypeInv, Framed
<1>1. CASE Read
  BY <1>1, ReadShape
<1>2. CASE JoinCompletedSearch
  <2>1. doing'.step = "serve" /\ doing'.command = doing.command
    BY <1>2 DEF JoinCompletedSearch, TypeOK
  <2> QED BY <1>2, <2>1, SameCommands DEF JoinCompletedSearch, AtWork
<1>3. ASSUME Refuse, doing.step \in {"serve", "building"}, stdin' = stdin
      PROVE  \E c, e : AnswersCommand(c, e)
  <2>1. "INVALID_REQUEST" \in Types /\ "INVALID_REQUEST" \in AnswerTypes(doing.command.command)
    BY DEF Types, AnswerTypes
  <2> QED BY <1>3, <2>1, AnswerShape DEF Refuse
<1>4. CASE Prepare
  <2>1. CASE active = None
    <3>1. doing'.step = "building" /\ doing'.command = doing.command
      BY <1>4, <2>1 DEF Prepare, TypeOK
    <3> QED BY <1>4, <2>1, <3>1, SameCommands DEF Prepare, AtWork
  <2> QED BY <1>3, <1>4, <2>1 DEF Prepare
<1>5. CASE Built
  <2>1. "ready" \in Types /\ "ready" \in AnswerTypes(doing.command.command)
    <3>1. doing.command.command = "prepare"
      BY <1>5, AtHand DEF Built, Prepares
    <3> QED BY <3>1 DEF Types, AnswerTypes
  <2> QED BY <1>5, <2>1, AnswerShape DEF Built
<1>6. CASE BuildFails
  BY <1>3, <1>6 DEF BuildFails
<1>7. CASE Search
  <2>1. "started" \in Types /\ "started" \in AnswerTypes(doing.command.command)
    BY <1>7 DEF Types, AnswerTypes, Search
  <2>2. CASE active = None /\ contexts # <<>>
    BY <1>7, <2>1, <2>2, AnswerShape DEF Search
  <2> QED BY <1>3, <1>7, <2>2 DEF Search
<1>8. CASE Cancel
  <2>1. "cancel-requested" \in Types /\ "cancel-requested" \in AnswerTypes(doing.command.command)
    BY <1>8 DEF Types, AnswerTypes, Cancel
  <2>2. CASE active = doing.command.arg
    BY <1>8, <2>1, <2>2, AnswerShape DEF Cancel
  <2> QED BY <1>3, <1>8, <2>2 DEF Cancel
<1>9. CASE Shutdown
  <2>1. doing'.step = "exit" /\ doing.step = "read"
    BY <1>9 DEF Shutdown, TypeOK
  <2> QED BY <1>9, <2>1, SameCommands DEF Shutdown, AtWork
<1>10. CASE Exit
  BY <1>10, SameCommands DEF Exit, AtWork
<1> QED BY <1>1, <1>2, <1>4, <1>5, <1>6, <1>7, <1>8, <1>9, <1>10 DEF MainThread

LEMMA ThreadShape ==
    ASSUME TypeInv, SearchThread
    PROVE  Silent \/ \E e : TellsOfSearch(e)
<1>0. TypeOK
  BY DEF TypeInv
<1>1. CASE Report
  <2> DEFINE e == [type |-> "progress", jobId |-> search.job, context |-> None]
  <2>1. search \in Searches
    BY <1>0, <1>1, HashingSearch DEF Report, Hashing
  <2>2. Says(e)
    BY <1>1, <2>1 DEF Report, Emit, Says, Messages, Types, Searches
  <2>3. Pending' = Pending
    BY <1>1 DEF Report, Pending, AtWork
  <2>4. TellsOfSearch(e)
    BY <1>1, <2>2, <2>3 DEF Report, TellsOfSearch
  <2> QED BY <2>4
<1>2. ASSUME NEW type \in Terminal, Tell(type) PROVE \E e : TellsOfSearch(e)
  <2> DEFINE e == [type |-> type, jobId |-> search.job,
                   context |-> IF type = "solution" THEN search.context ELSE None]
  <2>1. search \in Searches
    BY <1>0, <1>2, HashingSearch DEF Tell, Hashing
  <2>2. e \in Messages
    BY <2>1 DEF Messages, Types, Searches
  <2>3. Says(e)
    BY <1>2, <2>2 DEF Tell, Says
  <2>4. Pending' = Pending
    BY <1>2 DEF Tell, Pending, AtWork
  <2>5. TellsOfSearch(e)
    BY <1>2, <2>3, <2>4 DEF Tell, TellsOfSearch
  <2> QED BY <2>5
<1>3. CASE Release
  BY <1>3, SameCommands DEF Release, AtWork
<1> QED BY <1>1, <1>2, <1>3 DEF SearchThread

LEMMA WorkerShape ==
    ASSUME TypeInv, Framed, WorkerStep
    PROVE  Silent \/ (\E c, e : AnswersCommand(c, e)) \/ (\E e : TellsOfSearch(e))
<1>1. CASE Die
  BY <1>1, SameCommands DEF Die, AtWork
<1> QED BY <1>1, MainShape, ThreadShape DEF WorkerStep

-----------------------------------------------------------------------------
(* A step of the worker keeps what the client relies on. *)

LEMMA NewLine ==
    ASSUME TypeOK, NEW e, Says(e)
    PROVE  /\ \A i \in DOMAIN log : i \in DOMAIN log' /\ log'[i] = log[i]
           /\ Len(log) + 1 \in DOMAIN log' /\ log'[Len(log) + 1] = e
           /\ \A j \in DOMAIN log' :
                 \/ j \in DOMAIN log
                 \/ j = Len(log) + 1 /\ log'[j] = e /\ \A i \in DOMAIN log : i < j
           /\ Len(log) \in Nat /\ Len(log') = Len(log) + 1 /\ DOMAIN log = 1..Len(log)
<1>1. e \in Messages /\ log' = Append(log, e)
  BY DEF Says
<1>2. Len(log') = Len(log) + 1
  BY <1>1, AppendProperties DEF TypeOK
<1> QED BY <1>1, <1>2, LogGrows

LEMMA LinesStay ==
    ASSUME TypeInv, Framed, WorkerStep
    PROVE  /\ \A i \in DOMAIN log : i \in DOMAIN log' /\ log'[i] = log[i]
           /\ Len(log) \in Nat /\ Len(log') \in Nat /\ Len(log) <= Len(log')
           /\ DOMAIN log = 1..Len(log)
<1>1. TypeOK
  BY DEF TypeInv
<1>2. CASE Silent
  BY <1>1, <1>2, LenProperties DEF Silent, TypeOK
<1>3. ASSUME NEW e, Says(e)
      PROVE  /\ \A i \in DOMAIN log : i \in DOMAIN log' /\ log'[i] = log[i]
             /\ Len(log) \in Nat /\ Len(log') \in Nat /\ Len(log) <= Len(log')
             /\ DOMAIN log = 1..Len(log)
  BY <1>1, <1>3, NewLine
<1> QED BY <1>2, <1>3, WorkerShape DEF AnswersCommand, TellsOfSearch

(* A search that hashes was started under an id of a search. *)
LEMMA HashingWasStarted ==
    ASSUME Framed, Hashing
    PROVE  \E i \in DOMAIN log : log[i].type = "started" /\ log[i].jobId = search.job
BY DEF Framed, InFrame, Hashing

LEMMA WorkerKeepsUnheard ==
    ASSUME TypeInv, Framed, WorkerStep, NEW job, Unheard(job)
    PROVE  Unheard(job)'
<1>1. TypeOK
  BY DEF TypeInv
<1>2. CASE Silent
  BY <1>2 DEF Silent, Unheard
<1>3. ASSUME NEW c, NEW e, AnswersCommand(c, e) PROVE Unheard(job)'
  <2>1. e.jobId # job /\ Pending' \subseteq Pending
    BY <1>3 DEF AnswersCommand, Unheard
  <2>2. \A i \in DOMAIN log' : log'[i].jobId # job
    BY <1>1, <1>3, <2>1, NewLine DEF AnswersCommand, Unheard
  <2> QED BY <2>1, <2>2 DEF Unheard
<1>4. ASSUME NEW e, TellsOfSearch(e) PROVE Unheard(job)'
  <2>1. e.jobId # job
    BY <1>4, HashingWasStarted DEF TellsOfSearch, Unheard
  <2>2. \A i \in DOMAIN log' : log'[i].jobId # job
    BY <1>1, <1>4, <2>1, NewLine DEF TellsOfSearch, Unheard
  <2> QED BY <1>4, <2>2 DEF Unheard, TellsOfSearch
<1> QED BY <1>2, <1>3, <1>4, WorkerShape

LEMMA WorkerKeepsKinds ==
    ASSUME TypeInv, Framed, WorkerStep, IdsAreOfTheirKind
    PROVE  IdsAreOfTheirKind'
<1>1. TypeOK
  BY DEF TypeInv
<1>2. CASE Silent
  BY <1>2 DEF Silent, IdsAreOfTheirKind
<1>3. ASSUME NEW e, Says(e), Pending' \subseteq Pending,
             \E m \in Calls, kind \in Kinds :
                 e.jobId = Id(m, kind) /\ (e.type # "INVALID_REQUEST" => kind = KindOf(e.type))
      PROVE  IdsAreOfTheirKind'
  <2>1. \A i \in DOMAIN log' : \E m \in Calls, kind \in Kinds :
          /\ log'[i].jobId = Id(m, kind)
          /\ log'[i].type # "INVALID_REQUEST" => kind = KindOf(log'[i].type)
    BY <1>1, <1>3, NewLine DEF IdsAreOfTheirKind
  <2> QED BY <1>3, <2>1 DEF IdsAreOfTheirKind
<1>4. ASSUME NEW c, NEW e, AnswersCommand(c, e) PROVE IdsAreOfTheirKind'
  <2>1. c \in Commands /\ c.command \in Kinds
    BY <1>1, <1>4, PendingType DEF AnswersCommand, Commands, Prepares, SearchCommands, Cancels, Kinds
  <2>2. PICK m \in Calls : e.jobId = Id(m, c.command)
    BY <1>4 DEF AnswersCommand, IdsAreOfTheirKind
  <2>3. e.type # "INVALID_REQUEST" => c.command = KindOf(e.type)
    BY <1>4, <2>1 DEF AnswersCommand, AnswerTypes, KindOf, Kinds
  <2> QED BY <1>3, <1>4, <2>1, <2>2, <2>3 DEF AnswersCommand
<1>5. ASSUME NEW e, TellsOfSearch(e) PROVE IdsAreOfTheirKind'
  <2>1. PICK i \in DOMAIN log : log[i].type = "started" /\ log[i].jobId = search.job
    BY <1>5, HashingWasStarted DEF TellsOfSearch
  <2>2. PICK m \in Calls : search.job = Id(m, "search")
    BY <2>1 DEF IdsAreOfTheirKind, KindOf
  <2>3. KindOf(e.type) = "search"
    BY <1>5 DEF TellsOfSearch, KindOf, Terminal
  <2> QED BY <1>3, <1>5, <2>2, <2>3 DEF TellsOfSearch, Kinds
<1> QED BY <1>2, <1>4, <1>5, WorkerShape

LEMMA WorkerSaysOnce ==
    ASSUME TypeInv, Framed, WorkerStep, IdsAreOfTheirKind, SaidOnce
    PROVE  SaidOnce'
<1>1. TypeOK
  BY DEF TypeInv
<1>2. CASE Silent
  BY <1>2 DEF Silent, SaidOnce
<1>3. ASSUME NEW e, Says(e),
             \A i \in DOMAIN log : log[i].jobId = e.jobId =>
                 log[i].type # "ready" /\ e.type \notin {"ready", "started"}
      PROVE  SaidOnce'
  <2> SUFFICES ASSUME NEW i \in DOMAIN log', NEW j \in DOMAIN log',
                      log'[i].jobId = log'[j].jobId,
                      \/ log'[i].type = "ready"
                      \/ log'[i].type = "started" /\ log'[j].type = "started"
               PROVE  i = j
    BY DEF SaidOnce
  <2>1. CASE i \in DOMAIN log /\ j \in DOMAIN log
    BY <1>1, <1>3, <2>1, NewLine DEF SaidOnce
  <2>2. CASE i \in DOMAIN log /\ j \notin DOMAIN log
    BY <1>1, <1>3, <2>2, NewLine
  <2>3. CASE i \notin DOMAIN log /\ j \in DOMAIN log
    BY <1>1, <1>3, <2>3, NewLine
  <2>4. CASE i \notin DOMAIN log /\ j \notin DOMAIN log
    BY <1>1, <1>3, <2>4, NewLine
  <2> QED BY <2>1, <2>2, <2>3, <2>4
<1>4. ASSUME NEW c, NEW e, AnswersCommand(c, e) PROVE SaidOnce'
  BY <1>3, <1>4 DEF AnswersCommand
<1>5. ASSUME NEW e, TellsOfSearch(e) PROVE SaidOnce'
  <2>1. PICK i \in DOMAIN log : log[i].type = "started" /\ log[i].jobId = search.job
    BY <1>5, HashingWasStarted DEF TellsOfSearch
  <2>2. PICK m \in Calls : search.job = Id(m, "search")
    BY <2>1 DEF IdsAreOfTheirKind, KindOf
  <2>3. \A j \in DOMAIN log : log[j].jobId = search.job => log[j].type # "ready"
    BY <2>2 DEF IdsAreOfTheirKind, KindOf, Id
  <2> QED BY <1>3, <1>5, <2>3 DEF TellsOfSearch, Terminal
<1> QED BY <1>2, <1>4, <1>5, WorkerShape

(* A search goes on or has been told of, and a started one is on its way   *)
(* unless its start ended the process.                                     *)
SearchGoesOn ==
    /\ search.phase = "hashing" =>
          \/ search'.phase = "hashing" /\ search'.job = search.job
          \/ \E i \in DOMAIN log' : log'[i].jobId = search.job /\ log'[i].type \in Terminal
    /\ \A e : Says(e) /\ e.type = "started" =>
          \/ process' = "terminated"
          \/ search'.phase = "hashing" /\ search'.job = e.jobId

LEMMA OneLine ==
    ASSUME TypeOK, NEW e, Says(e)
    PROVE  log' # log /\ \A d : log' = Append(log, d) => e = d
<1>1. log \in Seq(Messages) /\ Len(log) \in Nat
  BY LenProperties DEF TypeOK
<1>2. Len(log') = Len(log) + 1 /\ log'[Len(log) + 1] = e
  BY NewLine
<1>3. ASSUME NEW d, log' = Append(log, d) PROVE log'[Len(log) + 1] = d
  BY <1>1, <1>3
<1> QED BY <1>1, <1>2, <1>3

LEMMA SearchStep ==
    ASSUME WorkerAssumption, TypeInv, Framed, WorkerStep
    PROVE  process = "running" /\ SearchGoesOn
<1>1. TypeOK /\ OneThread
  BY DEF TypeInv
<1>2. process = "running"
  BY DEF WorkerStep, MainThread, SearchThread, Read, JoinCompletedSearch, Prepare, Built,
         BuildFails, Search, Cancel, Shutdown, Exit, Report, Tell, Release, Die, Hashing
<1>3. ASSUME NEW t, t # "started",
             log' = log \/ \E job : Emit(t, job), NEW e, Says(e)
      PROVE  e.type # "started"
  <2>1. PICK job : Emit(t, job)
    BY <1>1, <1>3, OneLine
  <2>2. e = [type |-> t, jobId |-> job, context |-> None]
    BY <1>1, <1>3, <2>1, OneLine DEF Emit
  <2> QED BY <1>3, <2>2
<1>4. ASSUME search'.phase = search.phase /\ search'.job = search.job,
             \/ log' = log
             \/ \E job : \/ Emit("INVALID_REQUEST", job) \/ Emit("ready", job)
                         \/ Emit("cancel-requested", job) \/ Emit("progress", job)
      PROVE  SearchGoesOn
  <2>1. ASSUME NEW e, Says(e) PROVE e.type # "started"
    <3>1. log' # log
      BY <1>1, <2>1, OneLine
    <3>2. ASSUME NEW t, NEW job, t # "started", Emit(t, job) PROVE e.type # "started"
      BY <1>3, <2>1, <3>2
    <3> QED BY <1>4, <3>1, <3>2
  <2> QED BY <1>4, <2>1 DEF SearchGoesOn
<1>5. CASE Read \/ Prepare \/ Built \/ BuildFails \/ Report \/ Die
  BY <1>2, <1>4, <1>5 DEF Read, Prepare, Built, BuildFails, Report, Die, Refuse
<1>6. CASE JoinCompletedSearch
  <2>1. active = None => search.phase # "hashing"
    BY <1>1, <1>2 DEF OneThread
  <2>2. log' = log
    BY <1>6 DEF JoinCompletedSearch
  <2>3. \A e : ~Says(e)
    BY <1>1, <2>2, OneLine
  <2> QED BY <1>6, <2>1, <2>3 DEF JoinCompletedSearch, SearchGoesOn
<1>7. CASE Search
  <2>1. CASE active # None \/ contexts = <<>>
    BY <1>4, <1>7, <2>1 DEF Search, Refuse
  <2>2. CASE active = None /\ contexts # <<>>
    <3>1. search.phase # "hashing"
      BY <1>1, <1>2, <2>2 DEF OneThread
    <3>2. Emit("started", doing.command.jobId)
      BY <1>7, <2>2 DEF Search
    <3>3. \A e : Says(e) => e.jobId = doing.command.jobId
      BY <1>1, <3>2, OneLine DEF Emit
    <3> QED BY <1>7, <2>2, <3>1, <3>3 DEF Search, SearchGoesOn
  <2> QED BY <2>1, <2>2
<1>8. CASE Cancel
  <2>1. CASE active = doing.command.arg
    <3>1. doing.command \in Cancels
      BY <1>1, <1>8, AtHand DEF Cancel, Commands, Prepares, SearchCommands
    <3>2. search \in Searches
      BY <1>1, <1>8, <2>1, <3>1 DEF Cancel, Cancels, OneThread, WorkerAssumption
    <3>3. search'.phase = search.phase /\ search'.job = search.job
      BY <1>8, <2>1, <3>2 DEF Cancel, Searches
    <3> QED BY <1>4, <1>8, <2>1, <3>3 DEF Cancel
  <2>2. CASE active # doing.command.arg
    BY <1>4, <1>8, <2>2 DEF Cancel, Refuse
  <2> QED BY <2>1, <2>2
<1>9. CASE Shutdown
  <2>1. search'.phase = search.phase /\ search'.job = search.job
    BY <1>1, <1>2, <1>9 DEF Shutdown, OneThread, Searches
  <2> QED BY <1>4, <1>9, <2>1 DEF Shutdown
<1>10. CASE Exit
  <2>1. \A e : ~Says(e)
    BY <1>1, <1>10, OneLine DEF Exit
  <2> QED BY <1>10, <2>1 DEF Exit, SearchGoesOn
<1>11. ASSUME NEW type \in Terminal, Tell(type) PROVE SearchGoesOn
  <2> DEFINE d == [type |-> type, jobId |-> search.job,
                   context |-> IF type = "solution" THEN search.context ELSE None]
  <2>1. search \in Searches /\ log' = Append(log, d)
    BY <1>1, <1>11, HashingSearch DEF Tell, Hashing
  <2>2. d \in Messages
    BY <2>1 DEF Messages, Types, Searches
  <2>3. Says(d)
    BY <2>1, <2>2 DEF Says
  <2>4. \A e : Says(e) => e = d
    BY <1>1, <2>1, OneLine
  <2>5. Len(log) + 1 \in DOMAIN log' /\ log'[Len(log) + 1] = d
    BY <1>1, <2>3, NewLine
  <2> QED BY <2>4, <2>5 DEF SearchGoesOn, Terminal
<1>12. CASE Release
  <2>1. \A e : ~Says(e)
    BY <1>1, <1>12, OneLine DEF Release
  <2> QED BY <1>12, <2>1 DEF Release, SearchGoesOn
<1> QED BY <1>2, <1>5, <1>6, <1>7, <1>8, <1>9, <1>10, <1>11, <1>12
        DEF WorkerStep, MainThread, SearchThread

LEMMA WorkerKeepsOwing ==
    ASSUME WorkerAssumption, TypeInv, Framed, WorkerStep, WorkerOwes, IdsAreOfTheirKind,
           mine' = mine
    PROVE  WorkerOwes'
<1>1. TypeOK /\ process = "running"
  BY SearchStep DEF TypeInv
<1>2. ASSUME NEW kind \in Kinds, NEW type, Awaited(kind, type),
             \/ kind = "prepare" /\ type = "ready"
             \/ kind = "search" /\ type = "started"
      PROVE  Awaited(kind, type)'
  <2>1. CASE \E i \in DOMAIN log : /\ log[i].jobId = OfMine(kind)
                                  /\ log[i].type \in {type, "INVALID_REQUEST"}
    BY <2>1, LinesStay DEF Awaited, OfMine
  <2>2. ASSUME NEW c \in Pending, c.jobId = OfMine(kind) PROVE Awaited(kind, type)'
    <3>1. CASE c \in Pending'
      BY <2>2, <3>1 DEF Awaited, OfMine
    <3>2. ASSUME NEW d, NEW e, AnswersCommand(d, e), c \notin Pending'
          PROVE  Awaited(kind, type)'
      <4>1. d = c /\ e.jobId = c.jobId /\ e.type \in AnswerTypes(c.command)
        BY <3>2 DEF AnswersCommand
      <4>2. c.command = kind
        BY <2>2 DEF IdsAreOfTheirKind, OfMine, Id
      <4>3. e.type \in {type, "INVALID_REQUEST"}
        BY <1>2, <4>1, <4>2 DEF AnswerTypes
      <4>4. Len(log) + 1 \in DOMAIN log' /\ log'[Len(log) + 1] = e
        BY <1>1, <3>2, NewLine DEF AnswersCommand
      <4>5. log'[Len(log) + 1].jobId = OfMine(kind)'
        BY <2>2, <4>1, <4>4 DEF OfMine
      <4> QED BY <4>3, <4>4, <4>5 DEF Awaited
    <3> QED BY <3>1, <3>2, WorkerShape DEF Silent, TellsOfSearch
  <2> QED BY <1>2, <2>1, <2>2 DEF Awaited
<1>3. ASSUME NEW i \in DOMAIN log', log'[i].type = "started",
             process' \in {"running", "exited"}
      PROVE  \/ search'.phase = "hashing" /\ search'.job = log'[i].jobId
             \/ \E j \in DOMAIN log' : log'[j].jobId = log'[i].jobId /\ log'[j].type \in Terminal
  <2>1. CASE i \in DOMAIN log
    <3>1. log'[i] = log[i] /\ log[i].type = "started"
      BY <1>3, <2>1, LinesStay
    <3>2. CASE search.phase = "hashing" /\ search.job = log[i].jobId
      BY <3>1, <3>2, SearchStep DEF SearchGoesOn
    <3>3. CASE \E j \in DOMAIN log : log[j].jobId = log[i].jobId /\ log[j].type \in Terminal
      BY <3>1, <3>3, LinesStay
    <3> QED BY <1>1, <2>1, <3>1, <3>2, <3>3 DEF WorkerOwes
  <2>2. CASE i \notin DOMAIN log
    <3>1. log' # log
      BY <2>2
    <3>2. PICK e : Says(e)
      BY <3>1, WorkerShape DEF Silent, AnswersCommand, TellsOfSearch
    <3>3. log'[i] = e
      BY <1>1, <2>2, <3>2, NewLine
    <3> QED BY <1>3, <3>2, <3>3, SearchStep DEF SearchGoesOn
  <2> QED BY <2>1, <2>2
<1>4. ASSUME mine'.step = "preparing" PROVE Awaited("prepare", "ready")'
  <2>1. Awaited("prepare", "ready")
    BY <1>1, <1>4 DEF WorkerOwes
  <2> QED BY <1>2, <2>1 DEF Kinds
<1>5. ASSUME mine'.step = "starting" PROVE Awaited("search", "started")'
  <2>1. Awaited("search", "started")
    BY <1>1, <1>5 DEF WorkerOwes
  <2> QED BY <1>2, <2>1 DEF Kinds
<1> QED BY <1>3, <1>4, <1>5 DEF WorkerOwes

LEMMA WorkerLeavesInOrder ==
    ASSUME WorkerAssumption, TypeInv, Framed, WorkerStep, LeavesInOrder
    PROVE  LeavesInOrder'
<1>1. TypeOK /\ process = "running"
  BY SearchStep DEF TypeInv
<1>2. NoSearch.phase = "none"
  BY DEF NoSearch
<1>3. CASE doing.step = "exit"
  BY <1>1, <1>2, <1>3 DEF LeavesInOrder, WorkerStep, MainThread, SearchThread, Read,
     JoinCompletedSearch, Prepare, Built, BuildFails, Search, Cancel, Shutdown, Exit,
     Report, Tell, Release, Die
<1>4. CASE doing.step # "exit"
  <2>1. CASE Shutdown
    BY <1>1, <2>1 DEF LeavesInOrder, Shutdown, TypeOK
  <2>2. CASE ~Shutdown
    <3>1. doing'.step # "exit" /\ process' # "exited"
      <4>1. CASE JoinCompletedSearch
        BY <1>1, <4>1 DEF JoinCompletedSearch, TypeOK
      <4>2. CASE Prepare
        BY <1>1, <4>2 DEF Prepare, Refuse, Reading, TypeOK
      <4>3. CASE Read \/ Built \/ BuildFails \/ Search \/ Cancel
        BY <1>1, <4>3 DEF Read, Built, BuildFails, Search, Cancel, Refuse, Reading
      <4>4. CASE SearchThread \/ Die
        BY <1>1, <1>4, <4>4 DEF SearchThread, Report, Tell, Release, Die
      <4> QED BY <1>4, <2>2, <4>1, <4>2, <4>3, <4>4 DEF WorkerStep, MainThread, Exit
    <3> QED BY <3>1 DEF LeavesInOrder
  <2> QED BY <2>1, <2>2
<1> QED BY <1>3, <1>4

LEMMA TakenAreLines ==
    MinerTypeOK => /\ taken \subseteq DOMAIN log /\ delivered \in Nat
                   /\ DOMAIN log = 1..Len(log) /\ Len(log) \in Nat
<1> SUFFICES ASSUME MinerTypeOK
             PROVE  /\ taken \subseteq DOMAIN log /\ delivered \in Nat
                    /\ DOMAIN log = 1..Len(log) /\ Len(log) \in Nat
  OBVIOUS
<1>1. DOMAIN log = 1..Len(log) /\ Len(log) \in Nat
  BY LenProperties DEF MinerTypeOK, TypeOK
<1> QED BY <1>1 DEF MinerTypeOK

(* What has been taken stays as it was. *)
LEMMA WorkerKeepsTaken ==
    ASSUME TypeInv, Framed, WorkerStep, MinerTypeOK, UNCHANGED clientVars,
           TakenInOrder, OutcomesAreTaken
    PROVE  TakenInOrder' /\ OutcomesAreTaken'
<1>1. \A i \in taken : log'[i] = log[i]
  BY LinesStay, TakenAreLines
<1>2. TakenInOrder'
  BY <1>1 DEF TakenInOrder, OfMine, clientVars
<1>3. OutcomesAreTaken'
  BY <1>1 DEF OutcomesAreTaken, clientVars
<1> QED BY <1>2, <1>3

LEMMA WorkerStaysQuiet ==
    ASSUME TypeInv, Framed, Framed', WorkerStep, MinerTypeOK, UNCHANGED clientVars,
           OutcomesAreTaken, SettledIsQuiet
    PROVE  SettledIsQuiet'
<1> SUFFICES ASSUME NEW m \in Calls, outcome[m] \in {"solution", "exhausted", "cancelled"},
                    NEW j \in (1..Len(log')) \ taken, log'[j].jobId = Id(m, "search")
             PROVE  FALSE
  BY DEF SettledIsQuiet, clientVars
<1>1. TypeOK
  BY DEF TypeInv
<1>2. DOMAIN log' = 1..Len(log')
  BY LenProperties, StepType DEF Framed, MinerTypeOK, TypeInv, TypeOK
<1>3. PICK i \in taken : log[i].jobId = Id(m, "search") /\ log[i].type \in Terminal
  BY DEF OutcomesAreTaken
<1>4. i \in DOMAIN log /\ log'[i] = log[i] /\ i \in DOMAIN log'
  BY LinesStay DEF MinerTypeOK
<1>5. CASE j \in DOMAIN log
  BY <1>5, LinesStay DEF SettledIsQuiet
<1>6. CASE j \notin DOMAIN log
  <2>1. PICK e : Says(e)
    BY <1>2, <1>6, WorkerShape DEF Silent, AnswersCommand, TellsOfSearch
  <2>2. i < j /\ j \in DOMAIN log'
    BY <1>1, <1>2, <1>4, <1>6, <2>1, NewLine
  <2> QED BY <1>3, <1>4, <2>2 DEF Framed, SearchIsFramed, TerminalComesLast
<1> QED BY <1>5, <1>6

LEMMA WorkerKeeps ==
    ASSUME WorkerAssumption, MinerInv, WorkerStep, UNCHANGED clientVars
    PROVE  MinerInv'
<1>1. TypeInv /\ Framed /\ MinerTypeOK
  BY DEF MinerInv
<1>2. TypeInv' /\ Framed'
  BY <1>1, StepType, StepFramed
<1>3. MinerTypeOK'
  <2>1. TypeOK' /\ Len(log) <= Len(log') /\ Len(log) \in Nat /\ Len(log') \in Nat
    BY <1>1, <1>2, LinesStay DEF TypeInv
  <2>2. delivered' \in 0..Len(log')
    BY <1>1, <2>1 DEF MinerTypeOK, clientVars
  <2> QED BY <1>1, <2>1, <2>2 DEF MinerTypeOK, clientVars
<1>4. IdsAreFresh'
  BY <1>1, WorkerKeepsUnheard DEF MinerInv, IdsAreFresh, NotYet, clientVars
<1>5. (mine.step # "idle" => mine.call \in Calls)'
  BY DEF MinerInv, clientVars
<1> QED BY <1>1, <1>2, <1>3, <1>4, <1>5, WorkerKeepsKinds, WorkerSaysOnce, WorkerKeepsOwing,
        WorkerLeavesInOrder, WorkerKeepsTaken, WorkerStaysQuiet DEF MinerInv, clientVars

-----------------------------------------------------------------------------
(* The least of a set of numbers: the line a waiter takes. *)

LEMMA MinOfLines ==
    ASSUME NEW S \in SUBSET Nat, S # {}
    PROVE  Min(S) \in S /\ \A j \in S : Min(S) <= j
(* Of the intervals that end in S, one contains no other. *)
<1> DEFINE T == {1..i : i \in S}
<1>1. T \subseteq FiniteSubsetsOf(Nat) /\ T # {}
  <2>1. ASSUME NEW i \in S PROVE 1..i \in FiniteSubsetsOf(Nat)
    <3>1. IsFiniteSet(1..i)
      BY FS_Interval
    <3> QED BY <3>1 DEF FiniteSubsetsOf
  <2> QED BY <2>1
<1>2. PICK X \in T : \A Y \in T : <<Y, X>> \notin StrictSubsetOrdering(Nat)
  <2>1. IsWellFoundedOn(StrictSubsetOrdering(Nat), FiniteSubsetsOf(Nat))
    BY FS_StrictSubsetOrderingWellFounded
  <2> HIDE DEF T
  <2> QED BY <1>1, <2>1, WFMin
<1>3. PICK i \in S : X = 1..i
  BY <1>2
<1>4. ASSUME NEW j \in S PROVE i <= j
  <2>1. <<1..j, 1..i>> \notin StrictSubsetOrdering(Nat)
    BY <1>2, <1>3
  <2>2. 1..j \subseteq Nat /\ 1..i \subseteq Nat
    OBVIOUS
  <2>3. ~(1..j \subseteq 1..i /\ 1..j # 1..i)
    BY <2>1, <2>2 DEF StrictSubsetOrdering
  <2>4. j < i => i \in 1..i /\ i \notin 1..j
    OBVIOUS
  <2> QED BY <2>3, <2>4
<1> QED BY <1>3, <1>4 DEF Min

LEMMA AnswersAreLines ==
    ASSUME MinerTypeOK, NEW job, NEW types
    PROVE  /\ Answers(job, types) \in SUBSET Nat
           /\ \A i \in Answers(job, types) :
                 /\ i \in DOMAIN log /\ i \in 1..delivered /\ i \notin taken
                 /\ log[i].jobId = job
                 /\ log[i].type \in types \cup {"INVALID_REQUEST", "WORKER_FAILURE"}
BY TakenAreLines DEF Answers, MinerTypeOK

(* What mine takes in each of its steps. *)
LEMMA TakesItsOwn ==
    ASSUME MinerTypeOK, Wanted # {}
    PROVE  LET i == Min(Wanted) IN
           /\ i \in Wanted /\ \A j \in Wanted : i <= j
           /\ i \in DOMAIN log /\ i \in 1..delivered /\ i \notin taken
           /\ mine.step = "preparing" =>
                 /\ log[i].jobId = OfMine("prepare")
                 /\ log[i].type \in {"ready", "INVALID_REQUEST", "WORKER_FAILURE"}
           /\ mine.step = "starting" =>
                 /\ log[i].jobId = OfMine("search")
                 /\ log[i].type \in {"started", "INVALID_REQUEST", "WORKER_FAILURE"}
           /\ mine.step = "searching" =>
                 /\ log[i].jobId = OfMine("search")
                 /\ log[i].type \in {"progress", "solution", "exhausted", "cancelled",
                                     "INVALID_REQUEST", "WORKER_FAILURE"}
           /\ mine.step # "idle"
<1>1. mine.step = "preparing" => Wanted = Answers(OfMine("prepare"), {"ready"})
  BY DEF Wanted, OfMine
<1>2. mine.step = "starting" => Wanted = Answers(OfMine("search"), {"started"})
  BY DEF Wanted, OfMine
<1>3. mine.step = "searching" =>
         Wanted = Answers(OfMine("search"), {"progress", "solution", "exhausted", "cancelled"})
  BY DEF Wanted, OfMine
<1>4. mine.step \in {"preparing", "starting", "searching"}
  BY DEF Wanted, MinerTypeOK, Steps
<1>5. \E job, types : Wanted = Answers(job, types)
  BY <1>1, <1>2, <1>3, <1>4
<1>6. /\ Wanted \in SUBSET Nat
      /\ \A i \in Wanted : i \in DOMAIN log /\ i \in 1..delivered /\ i \notin taken
  BY <1>5, AnswersAreLines
<1>7. Min(Wanted) \in Wanted /\ \A j \in Wanted : Min(Wanted) <= j
  BY <1>6, MinOfLines
<1>8. CASE mine.step = "preparing"
  BY <1>1, <1>6, <1>7, <1>8, AnswersAreLines
<1>9. CASE mine.step = "starting"
  BY <1>2, <1>6, <1>7, <1>9, AnswersAreLines
<1>10. CASE mine.step = "searching"
  BY <1>3, <1>6, <1>7, <1>10, AnswersAreLines
<1> QED BY <1>4, <1>8, <1>9, <1>10

LEMMA CancelTakesItsOwn ==
    ASSUME MinerTypeOK, NEW m, CancelAnswers(m) # {}
    PROVE  LET i == Min(CancelAnswers(m)) IN
           i \in DOMAIN log /\ i \in 1..delivered /\ log[i].jobId = Id(m, "cancel")
<1>1. CancelAnswers(m) \in SUBSET Nat
  BY AnswersAreLines DEF CancelAnswers
<1>2. Min(CancelAnswers(m)) \in CancelAnswers(m)
  BY <1>1, MinOfLines
<1> QED BY <1>2, AnswersAreLines DEF CancelAnswers

-----------------------------------------------------------------------------
(* What a step of the client does to the worker: nothing, the end of its   *)
(* input, or one command under a new id.                                   *)

Mute ==
    /\ UNCHANGED <<stdin, log, process, doing, active, search, contexts>>
    /\ eof' \in {eof, TRUE}

Command(m, kind, arg) == [command |-> kind, jobId |-> Id(m, kind), arg |-> arg]

WritesNew(m, kind, arg) ==
    /\ m \in Calls /\ kind \in Kinds /\ Command(m, kind, arg) \in Commands
    /\ NotYet(m, kind) /\ ~eof
    /\ stdin' = Append(stdin, Command(m, kind, arg))
    /\ UNCHANGED <<eof, log, process, doing, active, search, contexts>>

(* The half of MinerInv that is about the worker alone. *)
WorkerInv == TypeInv /\ Framed /\ IdsAreOfTheirKind /\ SaidOnce /\ LeavesInOrder

LEMMA CommandType ==
    ASSUME MinerAssumption, NEW m \in Calls
    PROVE  /\ \A e \in Epochs : Command(m, "prepare", e) \in Commands
           /\ Command(m, "search", None) \in Commands
           /\ Command(m, "cancel", Id(m, "search")) \in Commands
<1>1. \A kind \in Kinds : Id(m, kind) \in JobIds
  BY DEF MinerAssumption, Id, Kinds
<1> QED BY <1>1 DEF Command, Commands, Prepares, SearchCommands, Cancels, Kinds

LEMMA MuteKeeps ==
    ASSUME WorkerAssumption, MinerInv, Mute
    PROVE  /\ CallerStep \/ UNCHANGED workerVars
           /\ WorkerInv' /\ Pending' = Pending /\ log' = log
<1>1. TypeInv /\ Framed /\ eof \in BOOLEAN
  BY DEF MinerInv, TypeInv, TypeOK
<1>2. CallerStep \/ UNCHANGED workerVars
  BY <1>1 DEF Mute, CallerStep, EndInput, workerVars
<1>3. TypeInv' /\ Framed'
  BY <1>1, <1>2, StepType, StepFramed
<1>4. Pending' = Pending /\ log' = log
  BY DEF Mute, Pending, AtWork
<1>5. IdsAreOfTheirKind' /\ SaidOnce'
  BY <1>4 DEF MinerInv, IdsAreOfTheirKind, SaidOnce
<1>6. LeavesInOrder'
  BY <1>1 DEF MinerInv, LeavesInOrder, Mute
<1> QED BY <1>2, <1>3, <1>4, <1>5, <1>6 DEF WorkerInv

LEMMA WriteKeeps ==
    ASSUME WorkerAssumption, MinerInv, NEW m, NEW kind, NEW arg, WritesNew(m, kind, arg)
    PROVE  /\ CallerStep
           /\ WorkerInv' /\ Pending' = Pending \cup {Command(m, kind, arg)} /\ log' = log
<1> DEFINE c == Command(m, kind, arg)
<1>1. TypeInv /\ Framed /\ TypeOK
  BY DEF MinerInv, TypeInv
<1>2. c \in Commands /\ c.jobId = Id(m, kind) /\ c.command = kind
  BY DEF WritesNew, Command
<1>3. Unused(c.jobId)
  BY <1>1, <1>2, UnheardIsUnused DEF WritesNew, MinerInv, IdsAreFresh
<1>4. Write(c)
  BY <1>2, <1>3 DEF WritesNew, Write
<1>5. CallerStep
  BY <1>2, <1>4 DEF CallerStep
<1>6. TypeInv' /\ Framed'
  BY <1>1, <1>5, StepType, StepFramed
<1>7. Pending' = Pending \cup {c} /\ log' = log
  BY <1>1, <1>2, <1>4, WriteShape
<1>8. IdsAreOfTheirKind' /\ SaidOnce'
  <2> HIDE DEF c
  <2>1. m \in Calls
    BY DEF WritesNew
  <2> QED BY <1>2, <1>7, <2>1 DEF MinerInv, IdsAreOfTheirKind, SaidOnce
<1>9. LeavesInOrder'
  BY DEF MinerInv, LeavesInOrder, WritesNew
<1> QED BY <1>5, <1>6, <1>7, <1>8, <1>9 DEF WorkerInv

(* Ids stay fresh as long as what is written leaves NotYet. *)
LEMMA FreshFollows ==
    ASSUME IdsAreFresh, log' = log, NEW job, Pending' \subseteq Pending \cup {c \in Pending' : c.jobId = job},
           \A m \in Calls, kind \in Kinds :
               NotYet(m, kind)' => NotYet(m, kind) /\ Id(m, kind) # job
    PROVE  IdsAreFresh'
BY DEF IdsAreFresh, Unheard

LEMMA FreshStays ==
    ASSUME IdsAreFresh, log' = log, Pending' = Pending,
           \A m \in Calls, kind \in Kinds : NotYet(m, kind)' => NotYet(m, kind)
    PROVE  IdsAreFresh'
BY DEF IdsAreFresh, Unheard

-----------------------------------------------------------------------------
(* What the client knows of itself, step by step. *)

Refines == WorkerStep \/ CallerStep \/ UNCHANGED workerVars

LEMMA CallsAreNumbers ==
    ASSUME MinerAssumption, MinerTypeOK
    PROVE  mine.call \in Nat /\ Calls \subseteq Nat
<1>1. Calls \subseteq Nat
  BY DEF MinerAssumption
<1>2. mine.call \in Calls \/ mine.call = 0
  BY DEF MinerTypeOK
<1>3. CASE mine.call = 0
  BY <1>1, <1>3
<1>4. CASE mine.call \in Calls
  BY <1>1, <1>4, Zenon
<1> QED BY <1>2, <1>3, <1>4

LEMMA OwesStays ==
    ASSUME WorkerOwes, log' = log, process' = process, search' = search,
           mine'.step = "preparing" =>
               Awaited("prepare", "ready")' \/ (mine' = mine /\ Pending \subseteq Pending'),
           mine'.step = "starting" =>
               Awaited("search", "started")' \/ (mine' = mine /\ Pending \subseteq Pending')
    PROVE  WorkerOwes'
<1>1. ASSUME NEW kind, NEW type, Awaited(kind, type), mine' = mine, Pending \subseteq Pending'
      PROVE  Awaited(kind, type)'
  BY <1>1 DEF Awaited, OfMine
<1>2. ASSUME process' \in {"running", "exited"}, mine'.step = "preparing"
      PROVE  Awaited("prepare", "ready")'
  BY <1>1, <1>2 DEF WorkerOwes
<1>3. ASSUME process' \in {"running", "exited"}, mine'.step = "starting"
      PROVE  Awaited("search", "started")'
  BY <1>1, <1>3 DEF WorkerOwes
<1> QED BY <1>2, <1>3 DEF WorkerOwes

LEMMA OutcomesStay ==
    ASSUME OutcomesAreTaken, SettledIsQuiet, log' = log, taken \subseteq taken',
           \A m \in Calls : m > mine'.call => m > mine.call,
           \A m \in Calls :
               \/ outcome'[m] = outcome[m]
               \/ outcome'[m] \notin {"solution", "exhausted", "cancelled"} /\ ~(m > mine'.call)
    PROVE  OutcomesAreTaken' /\ SettledIsQuiet'
BY DEF OutcomesAreTaken, SettledIsQuiet

(* Steps after which the call under way, or the last one, is the same, and *)
(* goes on or is over without a result.                                    *)
LEMMA SameCall ==
    ASSUME MinerAssumption, MinerInv, WorkerInv', MinerTypeOK', log' = log, process' = process,
           search' = search, aborted \subseteq aborted', IdsAreFresh', Pending \subseteq Pending',
           \/ mine' = mine /\ outcome' = outcome
           \/ /\ mine' = [mine EXCEPT !.step = "idle"] /\ mine.step # "idle"
              /\ \E r : /\ r \notin {"solution", "exhausted", "cancelled"}
                        /\ outcome' = [outcome EXCEPT ![mine.call] = r],
           taken \subseteq taken',
           mine' = mine => \A i \in taken' \ taken :
               \/ \E m : log[i].jobId = Id(m, "cancel")
               \/ /\ mine.step = "searching" /\ log[i].type \notin Terminal
                  /\ log[i].jobId = OfMine("search")
    PROVE  MinerInv'
<1>1. mine.call \in Nat /\ Calls \subseteq Nat /\ MinerTypeOK
  BY CallsAreNumbers DEF MinerInv
<1>2. mine'.call = mine.call
  BY <1>1 DEF MinerTypeOK
<1>3. CASE mine' = mine /\ outcome' = outcome
  <2>1. \A i \in taken' \ taken :
           \/ /\ log[i].jobId # OfMine("prepare") /\ log[i].jobId # OfMine("search")
           \/ /\ mine.step = "searching" /\ log[i].type \notin Terminal
              /\ log[i].jobId = OfMine("search")
    BY <1>3 DEF OfMine, Id
  <2>2. TakenInOrder'
    <3>1. OfMine("prepare")' = OfMine("prepare") /\ OfMine("search")' = OfMine("search")
      BY <1>3 DEF OfMine
    <3> QED BY <1>3, <2>1, <3>1 DEF MinerInv, TakenInOrder
  <2>3. OutcomesAreTaken' /\ SettledIsQuiet'
    BY <1>3, OutcomesStay DEF MinerInv
  <2>4. WorkerOwes'
    BY <1>3, OwesStays DEF MinerInv
  <2> QED BY <1>3, <2>2, <2>3, <2>4 DEF MinerInv, WorkerInv
<1>4. ASSUME mine' = [mine EXCEPT !.step = "idle"], mine.step # "idle",
             NEW r, r \notin {"solution", "exhausted", "cancelled"},
             outcome' = [outcome EXCEPT ![mine.call] = r]
      PROVE  MinerInv'
  <2>1. mine'.step = "idle"
    BY <1>1, <1>4 DEF MinerTypeOK
  <2>2. TakenInOrder' /\ (mine'.step # "idle" => mine'.call \in Calls)
    BY <2>1 DEF TakenInOrder
  <2>3. \A m \in Calls :
               \/ outcome'[m] = outcome[m]
               \/ outcome'[m] \notin {"solution", "exhausted", "cancelled"} /\ ~(m > mine'.call)
    BY <1>1, <1>2, <1>4 DEF MinerTypeOK
  <2>4. OutcomesAreTaken' /\ SettledIsQuiet'
    BY <1>2, <2>3, OutcomesStay DEF MinerInv
  <2>5. WorkerOwes'
    BY <2>1, OwesStays DEF MinerInv
  <2> QED BY <2>2, <2>4, <2>5 DEF MinerInv, WorkerInv
<1> QED BY <1>3, <1>4

(* Nothing is written, so that ids are fresh that were fresh. *)
LEMMA MuteFresh ==
    ASSUME MinerInv, log' = log, Pending' = Pending, aborted \subseteq aborted',
           mine' = mine \/ mine' = [mine EXCEPT !.step = "idle"]
    PROVE  IdsAreFresh'
<1>1. MinerTypeOK
  BY DEF MinerInv
<1>2. mine'.call = mine.call /\ (mine'.step = mine.step \/ mine'.step = "idle")
  BY <1>1 DEF MinerTypeOK
<1>3. \A m \in Calls, kind \in Kinds : NotYet(m, kind)' => NotYet(m, kind)
  BY <1>2 DEF NotYet
<1> QED BY <1>3, FreshStays DEF MinerInv

(* So all of MinerInv, for a step that tells the worker nothing. *)
LEMMA MuteCall ==
    ASSUME WorkerAssumption, MinerAssumption, MinerInv, Mute, aborted \subseteq aborted',
           \/ mine' = mine /\ outcome' = outcome
           \/ /\ mine' = [mine EXCEPT !.step = "idle"] /\ mine.step # "idle"
              /\ \E r \in Outcomes \ {"solution", "exhausted", "cancelled"} :
                    outcome' = [outcome EXCEPT ![mine.call] = r],
           taken \subseteq taken', taken' \subseteq 1..delivered',
           mine' = mine => \A i \in taken' \ taken :
               \/ \E m : log[i].jobId = Id(m, "cancel")
               \/ /\ mine.step = "searching" /\ log[i].type \notin Terminal
                  /\ log[i].jobId = OfMine("search"),
           delivered' \in 0..Len(log), epochOf' = epochOf,
           preparedKey' \in Epochs \cup {None}, exitSeen' \in BOOLEAN,
           aborted' \subseteq Calls, cancelling' \subseteq Calls, cli' \in {"up", "crashed"}
    PROVE  MinerInv' /\ Refines
<1>1. MinerTypeOK
  BY DEF MinerInv
<1>2. /\ WorkerInv' /\ Pending' = Pending /\ log' = log
      /\ CallerStep \/ UNCHANGED workerVars
  BY MuteKeeps
<1>3. IdsAreFresh'
  BY <1>2, MuteFresh DEF MinerInv
<1>4. MinerTypeOK'
  <2>1. TypeOK'
    BY <1>2 DEF WorkerInv, TypeInv
  <2>2. mine' \in [call : Calls \cup {0}, step : Steps]
    BY <1>1 DEF MinerTypeOK, Steps
  <2>3. outcome' \in [Calls -> Outcomes]
    BY <1>1 DEF MinerTypeOK
  <2> QED BY <1>1, <1>2, <2>1, <2>2, <2>3 DEF MinerTypeOK
<1>5. process' = process /\ search' = search
  BY DEF Mute
<1>6. \A r \in Outcomes \ {"solution", "exhausted", "cancelled"} :
          r \notin {"solution", "exhausted", "cancelled"}
  OBVIOUS
<1> QED BY <1>2, <1>3, <1>4, <1>5, <1>6, SameCall DEF Refines

-----------------------------------------------------------------------------
(* The steps of the client, one by one. *)

LEMMA ProgressKeeps ==
    ASSUME WorkerAssumption, MinerAssumption, MinerInv, Progress PROVE MinerInv' /\ Refines
<1>1. MinerTypeOK /\ Mute
  BY DEF MinerInv, Progress, Mute, workerVars
<1>2. /\ taken' = taken \cup {Min(Wanted)} /\ Min(Wanted) \in 1..delivered
      /\ mine.step = "searching" /\ log[Min(Wanted)].type \notin Terminal
      /\ log[Min(Wanted)].jobId = OfMine("search")
  BY <1>1, TakesItsOwn DEF Progress, Take, Answer, Terminal
<1>3. taken' \subseteq 1..delivered'
  BY <1>1, <1>2 DEF Progress, MinerTypeOK
<1> QED BY <1>1, <1>2, <1>3, MuteCall DEF Progress, MinerTypeOK

LEMMA TimesOutKeeps ==
    ASSUME WorkerAssumption, MinerAssumption, MinerInv, TimesOut PROVE MinerInv' /\ Refines
<1>1. MinerTypeOK /\ Mute /\ mine.step # "idle"
  BY DEF MinerInv, TimesOut, Mute, workerVars
<1>2. "timeout" \in Outcomes \ {"solution", "exhausted", "cancelled"}
  BY DEF Outcomes
<1>3. mine' = [mine EXCEPT !.step = "idle"] /\ outcome' = [outcome EXCEPT ![mine.call] = "timeout"]
  BY DEF TimesOut, Settle
<1>4. mine' # mine
  BY <1>1, <1>3 DEF MinerTypeOK
<1> QED BY <1>1, <1>2, <1>3, <1>4, MuteCall DEF TimesOut, MinerTypeOK

LEMMA CancelAnsweredKeeps ==
    ASSUME WorkerAssumption, MinerAssumption, MinerInv, NEW m \in Calls, CancelAnswered(m)
    PROVE  MinerInv' /\ Refines
<1>1. MinerTypeOK /\ Mute
  BY DEF MinerInv, CancelAnswered, Mute, workerVars
<1>2. /\ Min(CancelAnswers(m)) \in 1..delivered
      /\ log[Min(CancelAnswers(m))].jobId = Id(m, "cancel")
  BY <1>1, CancelTakesItsOwn DEF CancelAnswered
<1>3. taken' \subseteq 1..delivered'
  BY <1>1, <1>2 DEF CancelAnswered, MinerTypeOK
<1> QED BY <1>1, <1>2, <1>3, MuteCall DEF CancelAnswered, MinerTypeOK

LEMMA CancelTimesOutKeeps ==
    ASSUME WorkerAssumption, MinerAssumption, MinerInv, NEW m \in Calls, CancelTimesOut(m)
    PROVE  MinerInv' /\ Refines
<1>1. MinerTypeOK /\ Mute
  BY DEF MinerInv, CancelTimesOut, Mute, workerVars
<1> QED BY <1>1, MuteCall DEF CancelTimesOut, MinerTypeOK

LEMMA DeliverKeeps ==
    ASSUME WorkerAssumption, MinerAssumption, MinerInv, Deliver PROVE MinerInv' /\ Refines
<1>1. MinerTypeOK /\ Mute
  BY DEF MinerInv, Deliver, Mute, workerVars
<1>2. delivered' \in 0..Len(log) /\ taken' \subseteq 1..delivered'
  BY <1>1, TakenAreLines DEF Deliver, MinerTypeOK
<1> QED BY <1>1, <1>2, MuteCall DEF Deliver, MinerTypeOK

LEMMA ExitEventKeeps ==
    ASSUME WorkerAssumption, MinerAssumption, MinerInv, ExitEvent PROVE MinerInv' /\ Refines
<1>1. MinerTypeOK /\ Mute
  BY DEF MinerInv, ExitEvent, Mute, workerVars
<1>2. "lost" \in Outcomes \ {"solution", "exhausted", "cancelled"}
  BY DEF Outcomes
<1>3. cancelling' \subseteq Calls /\ cli' \in {"up", "crashed"}
  BY <1>1 DEF ExitEvent, MinerTypeOK
<1>4. CASE UNCHANGED <<outcome, mine>>
  BY <1>1, <1>3, <1>4, MuteCall DEF ExitEvent, MinerTypeOK
<1>5. CASE mine.step # "idle" /\ Settle("lost")
  <2>1. /\ mine' = [mine EXCEPT !.step = "idle"]
        /\ outcome' = [outcome EXCEPT ![mine.call] = "lost"]
    BY <1>5 DEF Settle
  <2> QED BY <1>1, <1>2, <1>3, <1>5, <2>1, MuteCall DEF ExitEvent, MinerTypeOK
<1> QED BY <1>4, <1>5 DEF ExitEvent

LEMMA CloseKeeps ==
    ASSUME WorkerAssumption, MinerAssumption, MinerInv, Close \/ PipeCloses
    PROVE  MinerInv' /\ Refines
<1>1. MinerTypeOK /\ Mute
  BY DEF MinerInv, Close, PipeCloses, Mute
<1> QED BY <1>1, MuteCall DEF Close, PipeCloses, clientVars, MinerTypeOK

LEMMA EndedKeeps ==
    ASSUME WorkerAssumption, MinerAssumption, MinerInv, Ended PROVE MinerInv' /\ Refines
<1> DEFINE i == Min(Wanted)
<1>1. MinerTypeOK /\ Mute /\ mine.step # "idle"
  BY DEF MinerInv, Ended, Mute, workerVars
<1>2. taken' = taken \cup {i} /\ i \in 1..delivered /\ i \in DOMAIN log /\ i \in Wanted
      /\ \A j \in Wanted : i <= j
  BY <1>1, TakesItsOwn DEF Ended, Take
<1>3. taken' \subseteq 1..delivered'
  BY <1>1, <1>2 DEF Ended, MinerTypeOK
<1>4. CASE log[i].type \in {"INVALID_REQUEST", "WORKER_FAILURE"}
  <2>1. "error" \in Outcomes \ {"solution", "exhausted", "cancelled"}
    BY DEF Outcomes
  <2>2. /\ mine' = [mine EXCEPT !.step = "idle"]
        /\ outcome' = [outcome EXCEPT ![mine.call] = "error"]
    BY <1>4 DEF Ended, Settle, Answer
  <2>3. mine' # mine
    BY <1>1, <2>2 DEF MinerTypeOK
  <2> HIDE DEF i
  <2> QED BY <1>1, <1>2, <1>3, <2>1, <2>2, <2>3, MuteCall DEF Ended, MinerTypeOK
<1>5. CASE log[i].type \notin {"INVALID_REQUEST", "WORKER_FAILURE"}
  <2>1. /\ log[i].type \in {"solution", "exhausted", "cancelled"}
        /\ mine' = [mine EXCEPT !.step = "idle"]
        /\ outcome' = [outcome EXCEPT ![mine.call] = log[i].type]
    BY <1>5 DEF Ended, Settle, Answer, Terminal
  <2>2. mine.step = "searching" /\ log[i].jobId = OfMine("search") /\ mine.call \in Calls
    BY <1>1, <2>1, TakesItsOwn DEF MinerTypeOK, Steps, MinerInv, Ended
  <2>3. /\ WorkerInv' /\ Pending' = Pending /\ log' = log
        /\ CallerStep \/ UNCHANGED workerVars
    BY <1>1, MuteKeeps
  <2>4. mine'.call = mine.call /\ mine'.step = "idle"
    BY <1>1, <2>1 DEF MinerTypeOK
  <2>5. outcome' \in [Calls -> Outcomes]
        /\ \A m \in Calls : outcome'[m] = IF m = mine.call THEN log[i].type ELSE outcome[m]
    BY <1>1, <2>1 DEF MinerTypeOK, Outcomes
  <2> HIDE DEF i
  <2>6. MinerTypeOK'
    <3>1. TypeOK' /\ mine' \in [call : Calls \cup {0}, step : Steps]
      BY <1>1, <2>1, <2>3 DEF WorkerInv, TypeInv, MinerTypeOK, Steps
    <3> QED BY <1>1, <1>3, <2>3, <2>5, <3>1 DEF MinerTypeOK, Ended
  <2>7. IdsAreFresh'
    BY <2>1, <2>3, MuteFresh DEF Ended
  <2>8. WorkerOwes'
    BY <1>1, <2>3, <2>4, OwesStays DEF Mute, MinerInv
  <2>9. TakenInOrder' /\ (mine'.step # "idle" => mine'.call \in Calls)
    BY <2>4 DEF TakenInOrder
  <2>10. OutcomesAreTaken'
    <3>1. ~(mine.call > mine.call) /\ log[i].type \in Terminal
      BY <1>1, <2>1, CallsAreNumbers DEF Terminal
    <3> QED BY <1>2, <2>1, <2>2, <2>3, <2>4, <2>5, <3>1
            DEF OutcomesAreTaken, MinerInv, OfMine
  (* All its lines are taken: a later one there is not, an earlier one     *)
  (* would have been the least wanted or is that of the start.             *)
  <2>11. ASSUME NEW j \in (1..Len(log)) \ taken', log[j].jobId = OfMine("search") PROVE FALSE
    <3>1. j \in DOMAIN log /\ j \in Nat /\ i \in Nat /\ j # i /\ delivered \in Nat
      BY <1>1, <1>2, <2>11, TakenAreLines
    <3>2. ~(i < j)
      BY <1>2, <2>1, <2>2, <2>11, <3>1
         DEF MinerInv, Framed, SearchIsFramed, TerminalComesLast, Terminal
    <3>3. j \in (1..delivered) \ taken
      BY <1>2, <2>11, <3>1, <3>2
    <3>4. log[j].type \in Types
      <4>1. log \in Seq(Messages)
        BY <1>1 DEF MinerTypeOK, TypeOK
      <4>2. log[j] \in Messages
        BY <3>1, <4>1
      <4> QED BY <4>2 DEF Messages
    <3>5. log[j].type # "started"
      BY <1>1, <2>2, <2>11, <3>1, <3>3, TakenAreLines DEF MinerInv, TakenInOrder, SaidOnce
    <3>6. log[j].type = "INVALID_REQUEST" \/ KindOf(log[j].type) = "search"
      BY <2>11, <3>1 DEF MinerInv, IdsAreOfTheirKind, OfMine, Id
    <3>7. log[j].type \in {"progress", "solution", "exhausted", "cancelled",
                           "INVALID_REQUEST", "WORKER_FAILURE"}
      BY <3>4, <3>5, <3>6 DEF Types, Terminal, KindOf
    <3>8. j \in Wanted
      BY <2>2, <2>11, <3>3, <3>7 DEF Wanted, Answers, OfMine
    <3> QED BY <1>2, <3>1, <3>2, <3>8
  <2>12. SettledIsQuiet'
    BY <1>2, <2>3, <2>5, <2>11 DEF SettledIsQuiet, MinerInv, OfMine
  <2> QED BY <2>3, <2>6, <2>7, <2>8, <2>9, <2>10, <2>12 DEF MinerInv, WorkerInv, Refines
<1> QED BY <1>4, <1>5

-----------------------------------------------------------------------------
(* Steps that begin a call, or bring it further. *)

LEMMA WriteFresh ==
    ASSUME WorkerAssumption, MinerInv, NEW n, NEW type, NEW arg, WritesNew(n, type, arg),
           \A m \in Calls, kind \in Kinds :
               NotYet(m, kind)' => NotYet(m, kind) /\ Id(m, kind) # Id(n, type)
    PROVE  /\ CallerStep /\ WorkerInv' /\ IdsAreFresh'
           /\ Pending' = Pending \cup {Command(n, type, arg)}
           /\ log' = log /\ process' = process /\ search' = search
<1>1. /\ CallerStep /\ WorkerInv' /\ log' = log
      /\ Pending' = Pending \cup {Command(n, type, arg)}
  BY WriteKeeps
<1>2. Command(n, type, arg).jobId = Id(n, type)
  BY DEF Command
<1>3. Pending' \subseteq Pending \cup {c \in Pending' : c.jobId = Id(n, type)}
  BY <1>1, <1>2
<1>4. IdsAreFresh'
  BY <1>1, <1>3, FreshFollows DEF MinerInv
<1> QED BY <1>1, <1>4 DEF WritesNew

LEMMA CallGoesOn ==
    ASSUME MinerInv, WorkerInv', MinerTypeOK', IdsAreFresh', log' = log, process' = process,
           search' = search, taken \subseteq taken', mine'.call \in Calls, TakenInOrder',
           \A m \in Calls : m > mine'.call => m > mine.call,
           \A m \in Calls :
               \/ outcome'[m] = outcome[m]
               \/ outcome'[m] \notin {"solution", "exhausted", "cancelled"} /\ ~(m > mine'.call),
           mine'.step = "preparing" =>
               Awaited("prepare", "ready")' \/ (mine' = mine /\ Pending \subseteq Pending'),
           mine'.step = "starting" =>
               Awaited("search", "started")' \/ (mine' = mine /\ Pending \subseteq Pending')
    PROVE  MinerInv'
<1>1. OutcomesAreTaken' /\ SettledIsQuiet'
  BY OutcomesStay DEF MinerInv
<1>2. WorkerOwes'
  BY OwesStays DEF MinerInv
<1> QED BY <1>1, <1>2 DEF MinerInv, WorkerInv

LEMMA MineThrowsKeeps ==
    ASSUME WorkerAssumption, MinerAssumption, MinerInv, NEW e \in Epochs, MineThrows(e)
    PROVE  MinerInv' /\ Refines
<1>1. MinerTypeOK /\ Mute /\ NextCall \in Calls /\ NextCall = mine.call + 1
  BY DEF MinerInv, MineThrows, MayCall, NextCall, Mute, workerVars
<1>2. mine'.call = NextCall /\ mine'.step = "idle"
  BY DEF MineThrows
<1>3. mine.call \in Nat /\ Calls \subseteq Nat /\ NextCall > mine.call
  BY <1>1, CallsAreNumbers
<1>4. /\ WorkerInv' /\ Pending' = Pending /\ log' = log
      /\ CallerStep \/ UNCHANGED workerVars
  BY <1>1, MuteKeeps
<1>5. ASSUME NEW m \in Calls, m > mine'.call PROVE m > mine.call
  <2>1. m \in Nat /\ mine.call \in Nat /\ mine'.call = mine.call + 1
    BY <1>1, <1>2, <1>3
  <2> QED BY <1>5, <2>1
<1>6. IdsAreFresh'
  <2>1. \A m \in Calls, kind \in Kinds : NotYet(m, kind)' => NotYet(m, kind)
    BY <1>2, <1>5 DEF NotYet, MineThrows
  <2> QED BY <1>4, <2>1, FreshStays DEF MinerInv
<1>7. outcome' = [outcome EXCEPT ![NextCall] = "error"]
      /\ epochOf' = [epochOf EXCEPT ![NextCall] = e]
  BY DEF MineThrows
<1>8. MinerTypeOK'
  <2>1. TypeOK' /\ mine' \in [call : Calls \cup {0}, step : Steps]
    BY <1>1, <1>4 DEF WorkerInv, TypeInv, MineThrows, Steps
  <2>2. outcome' \in [Calls -> Outcomes] /\ epochOf' \in [Calls -> Epochs \cup {None}]
    BY <1>1, <1>7 DEF MinerTypeOK, Outcomes
  <2> QED BY <1>1, <1>4, <2>1, <2>2 DEF MinerTypeOK, MineThrows
<1>9. \A m \in Calls :
         \/ outcome'[m] = outcome[m]
         \/ outcome'[m] \notin {"solution", "exhausted", "cancelled"} /\ ~(m > mine'.call)
  BY <1>1, <1>2, <1>3, <1>7 DEF MinerTypeOK
<1>10. TakenInOrder'
  BY <1>2 DEF TakenInOrder
<1>11. process' = process /\ search' = search /\ taken' = taken
  BY <1>1 DEF Mute, MineThrows
<1> QED BY <1>1, <1>2, <1>4, <1>5, <1>6, <1>8, <1>9, <1>10, <1>11, CallGoesOn DEF Refines

LEMMA MineKeeps ==
    ASSUME WorkerAssumption, MinerAssumption, MinerInv, NEW e \in Epochs, Mine(e)
    PROVE  MinerInv' /\ Refines
<1>1. MinerTypeOK /\ NextCall \in Calls /\ NextCall = mine.call + 1 /\ ~eof
  BY DEF MinerInv, Mine, MayCall, NextCall
<1>2. mine.call \in Nat /\ Calls \subseteq Nat /\ NextCall > mine.call
  BY <1>1, CallsAreNumbers
<1>3. mine'.call = NextCall /\ mine'.step \in {"starting", "preparing"}
      /\ cli' \in {"up", "crashed"}
  BY <1>1 DEF Mine, Send, MinerTypeOK
<1>4. ASSUME NEW m \in Calls, m > mine'.call PROVE m > mine.call
  <2>1. m \in Nat /\ mine.call \in Nat /\ mine'.call = mine.call + 1
    BY <1>1, <1>2, <1>3
  <2> QED BY <1>4, <2>1
(* The worker has never heard of this call. *)
<1>5. ASSUME NEW kind \in Kinds
      PROVE  NotYet(NextCall, kind) /\ \A i \in taken : log[i].jobId # Id(NextCall, kind)
  <2>1. NotYet(NextCall, kind)
    BY <1>2 DEF NotYet
  <2> QED BY <1>1, <2>1, TakenAreLines DEF MinerInv, IdsAreFresh, Unheard
<1>6. TakenInOrder'
  <2>1. OfMine("prepare")' = Id(NextCall, "prepare") /\ OfMine("search")' = Id(NextCall, "search")
    BY <1>3 DEF OfMine, Id
  <2>2. log' = log /\ taken' = taken
    BY DEF Mine
  <2> QED BY <1>3, <1>5, <2>1, <2>2 DEF TakenInOrder, Kinds
<1>7. ASSUME NEW kind \in {"prepare", "search"}, NEW arg,
             Command(NextCall, kind, arg) \in Commands,
             stdin' = Append(stdin, Command(NextCall, kind, arg)),
             mine'.step = (IF kind = "prepare" THEN "preparing" ELSE "starting")
      PROVE  MinerInv' /\ Refines
  <2>1. WritesNew(NextCall, kind, arg)
    BY <1>1, <1>5, <1>7 DEF WritesNew, Mine, Kinds
  <2>2. \A m \in Calls, k \in Kinds :
            NotYet(m, k)' => NotYet(m, k) /\ Id(m, k) # Id(NextCall, kind)
    <3> SUFFICES ASSUME NEW m \in Calls, NEW k \in Kinds, NotYet(m, k)'
                 PROVE  NotYet(m, k) /\ Id(m, k) # Id(NextCall, kind)
      OBVIOUS
    <3>1. CASE m > NextCall
      <4>1. m \in Nat /\ NextCall \in Nat
        BY <1>1, <1>2
      <4>2. m # NextCall
        BY <3>1, <4>1
      <4>3. m > mine.call
        BY <1>3, <1>4, <3>1
      <4> QED BY <4>2, <4>3 DEF NotYet, Id
    <3>2. CASE ~(m > NextCall)
      <4>1. (k = "search" /\ m = NextCall /\ kind = "prepare") \/ k = "cancel"
        BY <1>3, <1>7, <3>2 DEF NotYet
      <4>2. m = NextCall \/ m \notin aborted
        BY <1>3, <3>2, <4>1 DEF NotYet, Mine
      <4>3. NotYet(m, k)
        BY <1>2, <4>1, <4>2 DEF NotYet
      <4>4. k # kind
        BY <4>1, <1>7
      <4> QED BY <4>3, <4>4 DEF Id
    <3> QED BY <3>1, <3>2
  <2>3. /\ CallerStep /\ WorkerInv' /\ IdsAreFresh'
        /\ Pending' = Pending \cup {Command(NextCall, kind, arg)}
        /\ log' = log /\ process' = process /\ search' = search
    BY <2>1, <2>2, WriteFresh
  <2>4. MinerTypeOK'
    <3>1. TypeOK' /\ mine' \in [call : Calls \cup {0}, step : Steps]
      BY <1>1, <2>3 DEF WorkerInv, TypeInv, Mine, Steps
    <3>2. epochOf' \in [Calls -> Epochs \cup {None}]
      BY <1>1 DEF MinerTypeOK, Mine
    <3> QED BY <1>1, <1>3, <2>3, <3>1, <3>2 DEF MinerTypeOK, Mine
  <2>5. mine'.step = "preparing" => Awaited("prepare", "ready")'
    BY <1>3, <1>7, <2>3 DEF Awaited, OfMine, Id, Command
  <2>6. mine'.step = "starting" => Awaited("search", "started")'
    BY <1>3, <1>7, <2>3 DEF Awaited, OfMine, Id, Command
  <2>7. outcome' = outcome /\ taken' = taken
    BY DEF Mine
  <2> QED BY <1>1, <1>3, <1>4, <1>6, <2>3, <2>4, <2>5, <2>6, <2>7, CallGoesOn DEF Refines
<1>8. CASE preparedKey = e
  <2>1. SearchCommand(NextCall) = Command(NextCall, "search", None)
    BY DEF SearchCommand, Command
  <2>2. /\ stdin' = Append(stdin, Command(NextCall, "search", None))
        /\ mine' = [call |-> NextCall, step |-> "starting"]
    BY <1>8, <2>1, Zenon DEF Mine, Send
  <2>3. mine'.step = "starting"
    BY <2>2
  <2>4. Command(NextCall, "search", None) \in Commands
    BY <1>1, CommandType
  <2> QED BY <1>7, <2>2, <2>3, <2>4
<1>9. CASE preparedKey # e
  <2>1. [command |-> "prepare", jobId |-> Id(NextCall, "prepare"), arg |-> e]
            = Command(NextCall, "prepare", e)
    BY DEF Command
  <2>2. /\ stdin' = Append(stdin, Command(NextCall, "prepare", e))
        /\ mine' = [call |-> NextCall, step |-> "preparing"]
    BY <1>9, <2>1, Zenon DEF Mine, Send
  <2>3. mine'.step = "preparing"
    BY <2>2
  <2>4. Command(NextCall, "prepare", e) \in Commands
    BY <1>1, CommandType
  <2> QED BY <1>7, <2>2, <2>3, <2>4
<1> QED BY <1>8, <1>9

(* The commands that mine writes in the middle of a call are new. *)
LEMMA SearchIsNew ==
    ASSUME MinerAssumption, mine.call \in Calls, mine.step = "preparing", ~Closed,
           Send(SearchCommand(mine.call)),
           UNCHANGED <<eof, log, process, doing, active, search, contexts>>
    PROVE  WritesNew(mine.call, "search", None)
<1>1. NotYet(mine.call, "search")
  BY DEF NotYet
<1>2. Command(mine.call, "search", None) \in Commands
  BY CommandType
<1>3. SearchCommand(mine.call) = Command(mine.call, "search", None)
  BY DEF SearchCommand, Command
<1> QED BY <1>1, <1>2, <1>3 DEF WritesNew, Send, Closed, Kinds

LEMMA CancelIsNew ==
    ASSUME MinerAssumption, mine.call \in Calls, NotYet(mine.call, "cancel"), ~Closed,
           RequestCancel(mine.call),
           UNCHANGED <<eof, log, process, doing, active, search, contexts>>
    PROVE  WritesNew(mine.call, "cancel", Id(mine.call, "search"))
<1>1. Command(mine.call, "cancel", Id(mine.call, "search")) \in Commands
  BY CommandType
<1>2. stdin' = Append(stdin, Command(mine.call, "cancel", Id(mine.call, "search")))
  BY DEF RequestCancel, Send, Command
<1> QED BY <1>1, <1>2 DEF WritesNew, Closed, Kinds

LEMMA PreparedKeeps ==
    ASSUME WorkerAssumption, MinerAssumption, MinerInv, Prepared PROVE MinerInv' /\ Refines
<1> DEFINE i == Min(Wanted)
<1>1. MinerTypeOK /\ mine.step = "preparing" /\ mine.call \in Calls
  BY DEF MinerInv, Prepared
<1>2. /\ taken' = taken \cup {i} /\ i \in 1..delivered
      /\ log[i].jobId = OfMine("prepare")
  BY <1>1, TakesItsOwn DEF Prepared, Take
<1> HIDE DEF i
<1>3. taken' \subseteq 1..delivered' /\ delivered' = delivered /\ delivered' \in 0..Len(log)
  BY <1>1, <1>2 DEF Prepared, MinerTypeOK
<1>4. preparedKey' \in Epochs \cup {None}
  BY <1>1 DEF Prepared, MinerTypeOK
<1>5. CASE Settle("error") /\ UNCHANGED stdin /\ cli' \in Unsent
  <2>1. Mute
    BY <1>5 DEF Prepared, Mute
  <2>2. "error" \in Outcomes \ {"solution", "exhausted", "cancelled"}
    BY DEF Outcomes
  <2>3. /\ mine' = [mine EXCEPT !.step = "idle"]
        /\ outcome' = [outcome EXCEPT ![mine.call] = "error"]
    BY <1>5 DEF Settle
  <2>4. mine' # mine
    BY <1>1, <2>3 DEF MinerTypeOK
  <2>5. /\ epochOf' = epochOf /\ exitSeen' = exitSeen /\ aborted' = aborted
        /\ cancelling' = cancelling /\ cli' \in {cli, "crashed"}
    BY <1>5 DEF Prepared, Unsent
  <2> QED BY <1>1, <1>2, <1>3, <1>4, <2>1, <2>2, <2>3, <2>4, <2>5, MuteCall DEF MinerTypeOK
<1>6. CASE /\ ~Closed /\ mine' = [mine EXCEPT !.step = "starting"]
           /\ Send(SearchCommand(mine.call)) /\ UNCHANGED outcome
  <2>1. mine'.call = mine.call /\ mine'.step = "starting"
    BY <1>1, <1>6 DEF MinerTypeOK
  <2>3. WritesNew(mine.call, "search", None)
    BY <1>1, <1>6, SearchIsNew DEF Prepared
  <2>4. \A m \in Calls, kind \in Kinds :
            NotYet(m, kind)' => NotYet(m, kind) /\ Id(m, kind) # Id(mine.call, "search")
    <3>1. ~(mine.call > mine.call)
      BY CallsAreNumbers DEF MinerInv
    <3> QED BY <1>1, <2>1, <3>1 DEF NotYet, Id, Prepared
  <2>5. /\ CallerStep /\ WorkerInv' /\ IdsAreFresh'
        /\ Pending' = Pending \cup {Command(mine.call, "search", None)}
        /\ log' = log /\ process' = process /\ search' = search
    BY <2>3, <2>4, WriteFresh
  <2>6. /\ epochOf' = epochOf /\ exitSeen' = exitSeen /\ aborted' = aborted
        /\ cancelling' = cancelling /\ cli' \in {cli, "crashed"} /\ outcome' = outcome
    BY <1>6 DEF Prepared, Send
  <2>7. MinerTypeOK'
    <3>1. TypeOK' /\ mine' \in [call : Calls \cup {0}, step : Steps]
      BY <1>1, <1>6, <2>5 DEF WorkerInv, TypeInv, MinerTypeOK, Steps
    <3> QED BY <1>1, <1>3, <1>4, <2>5, <2>6, <3>1 DEF MinerTypeOK
  <2>8. Awaited("search", "started")'
    <3>1. OfMine("search")' = Id(mine.call, "search")
      BY <2>1 DEF OfMine, Id
    <3>2. Command(mine.call, "search", None).jobId = Id(mine.call, "search")
      BY DEF Command
    <3>3. Command(mine.call, "search", None) \in Pending'
      BY <2>5
    <3> QED BY <3>1, <3>2, <3>3 DEF Awaited
  <2>9. TakenInOrder'
    <3>1. OfMine("search")' = OfMine("search") /\ OfMine("search") # OfMine("prepare")
      BY <2>1 DEF OfMine, Id
    <3> QED BY <1>1, <1>2, <2>1, <2>5, <3>1 DEF MinerInv, TakenInOrder
  <2> QED BY <1>1, <1>2, <2>1, <2>5, <2>6, <2>7, <2>8, <2>9, CallGoesOn DEF Refines
<1> QED BY <1>5, <1>6 DEF Prepared

(* The cancel of a search is written once: by an abort of the search, or   *)
(* when it starts.                                                         *)
LEMMA CancelWrites ==
    ASSUME WorkerAssumption, MinerAssumption, MinerInv, mine.call \in Calls,
           NotYet(mine.call, "cancel"),
           RequestCancel(mine.call), mine.call \in aborted', aborted \subseteq aborted',
           mine'.call = mine.call, mine'.step = "searching",
           UNCHANGED <<eof, log, process, doing, active, search, contexts>>
    PROVE  /\ Refines /\ WorkerInv' /\ IdsAreFresh' /\ Pending \subseteq Pending'
           /\ cancelling' \subseteq Calls /\ cli' \in {"up", "crashed"}
<1>1. MinerTypeOK
  BY DEF MinerInv
<1>2. \A m \in Calls, kind \in Kinds :
          NotYet(m, kind)' => NotYet(m, kind) /\ Id(m, kind) # Id(mine.call, "cancel")
  <2>1. ~(mine.call > mine.call)
    BY <1>1, CallsAreNumbers
  <2> QED BY <2>1 DEF NotYet, Id
<1>3. CASE Closed
  <2>1. Mute
    BY <1>3 DEF RequestCancel, Mute
  <2>2. /\ WorkerInv' /\ Pending' = Pending /\ log' = log
        /\ CallerStep \/ UNCHANGED workerVars
    BY <2>1, MuteKeeps
  <2>3. IdsAreFresh'
    BY <1>2, <2>2, FreshStays DEF MinerInv
  <2> QED BY <1>1, <1>3, <2>2, <2>3 DEF RequestCancel, MinerTypeOK, Refines
<1>4. CASE ~Closed
  <2>1. WritesNew(mine.call, "cancel", Id(mine.call, "search"))
    BY <1>4, CancelIsNew
  <2>2. /\ CallerStep /\ WorkerInv' /\ IdsAreFresh'
        /\ Pending' = Pending \cup {Command(mine.call, "cancel", Id(mine.call, "search"))}
    BY <1>2, <2>1, WriteFresh
  <2> QED BY <1>1, <1>4, <2>2 DEF RequestCancel, Send, MinerTypeOK, Refines
<1> QED BY <1>3, <1>4

LEMMA StartedKeeps ==
    ASSUME WorkerAssumption, MinerAssumption, MinerInv, Started PROVE MinerInv' /\ Refines
<1> DEFINE i == Min(Wanted)
<1>1. MinerTypeOK /\ mine.step = "starting" /\ mine.call \in Calls
  BY DEF MinerInv, Started
<1>2. /\ taken' = taken \cup {i} /\ i \in 1..delivered
      /\ log[i].jobId = OfMine("search") /\ log[i].type = "started"
  BY <1>1, TakesItsOwn DEF Started, Take, Answer
<1> HIDE DEF i
<1>3. taken' \subseteq 1..delivered' /\ delivered' = delivered
  BY <1>1, <1>2 DEF Started, MinerTypeOK
<1>4. mine'.call = mine.call /\ mine'.step = "searching"
      /\ mine' \in [call : Calls \cup {0}, step : Steps]
  BY <1>1 DEF MinerTypeOK, Started, Steps
<1>5. /\ epochOf' = epochOf /\ exitSeen' = exitSeen /\ aborted' = aborted
      /\ outcome' = outcome /\ preparedKey' = preparedKey
      /\ UNCHANGED <<eof, log, process, doing, active, search, contexts>>
  BY DEF Started
<1>6. /\ Refines /\ WorkerInv' /\ IdsAreFresh' /\ Pending \subseteq Pending'
      /\ cancelling' \subseteq Calls /\ cli' \in {"up", "crashed"}
  <2>1. CASE mine.call \in aborted
    <3>1. NotYet(mine.call, "cancel")
      BY <1>1 DEF NotYet
    <3> QED BY <1>1, <1>4, <1>5, <2>1, <3>1, CancelWrites DEF Started
  <2>2. CASE mine.call \notin aborted
    <3>1. Mute
      BY <1>5, <2>2 DEF Started, Mute
    <3>2. /\ WorkerInv' /\ Pending' = Pending /\ log' = log
          /\ CallerStep \/ UNCHANGED workerVars
      BY <3>1, MuteKeeps
    <3>3. \A m \in Calls, kind \in Kinds : NotYet(m, kind)' => NotYet(m, kind)
      BY <1>4, <1>5 DEF NotYet
    <3>4. IdsAreFresh'
      BY <3>2, <3>3, FreshStays DEF MinerInv
    <3> QED BY <1>1, <2>2, <3>2, <3>4 DEF Started, MinerTypeOK, Refines
  <2> QED BY <2>1, <2>2
<1>7. MinerTypeOK'
  BY <1>1, <1>3, <1>4, <1>5, <1>6 DEF MinerTypeOK, WorkerInv, TypeInv
<1>8. TakenInOrder'
  <2>1. OfMine("search")' = OfMine("search")
    BY <1>4 DEF OfMine
  <2>2. "started" \notin Terminal
    BY DEF Terminal
  <2> QED BY <1>1, <1>2, <1>4, <1>5, <2>1, <2>2 DEF MinerInv, TakenInOrder
<1> QED BY <1>1, <1>2, <1>4, <1>5, <1>6, <1>7, <1>8, CallGoesOn

LEMMA AbortKeeps ==
    ASSUME WorkerAssumption, MinerAssumption, MinerInv, Abort PROVE MinerInv' /\ Refines
<1>1. MinerTypeOK /\ mine.call \in Calls /\ mine.call \notin aborted
  BY DEF MinerInv, Abort
<1>2. /\ mine' = mine /\ aborted' = aborted \cup {mine.call} /\ taken' = taken
      /\ outcome' = outcome /\ delivered' = delivered /\ epochOf' = epochOf
      /\ preparedKey' = preparedKey /\ exitSeen' = exitSeen
      /\ UNCHANGED <<eof, log, process, doing, active, search, contexts>>
  BY DEF Abort
<1>3. CASE mine.step = "searching"
  <2>1. NotYet(mine.call, "cancel")
    BY <1>1 DEF NotYet
  <2>2. /\ Refines /\ WorkerInv' /\ IdsAreFresh' /\ Pending \subseteq Pending'
        /\ cancelling' \subseteq Calls /\ cli' \in {"up", "crashed"}
    BY <1>1, <1>2, <1>3, <2>1, CancelWrites DEF Abort
  <2>3. MinerTypeOK'
    BY <1>1, <1>2, <2>2 DEF MinerTypeOK, WorkerInv, TypeInv
  <2> QED BY <1>2, <2>2, <2>3, SameCall
<1>4. CASE mine.step # "searching"
  <2>1. Mute /\ cancelling' = cancelling /\ cli' = cli
    BY <1>2, <1>4 DEF Abort, Mute
  <2>2. aborted \subseteq aborted' /\ aborted' \subseteq Calls
    BY <1>1, <1>2 DEF MinerTypeOK
  <2> QED BY <1>1, <1>2, <2>1, <2>2, MuteCall DEF MinerTypeOK
<1> QED BY <1>3, <1>4

LEMMA MinerBegins ==
    ASSUME WorkerAssumption, Init PROVE MinerInv
<1>1. TypeInv /\ Framed
  BY InitType, InitFramed DEF Init
<1>2. DOMAIN log = {} /\ Len(log) = 0 /\ DOMAIN stdin = {} /\ ~AtWork
  BY DEF Init, WorkerInit, AtWork, Reading
<1>3. Pending = {}
  BY <1>2 DEF Pending
<1>4. MinerTypeOK
  <2>1. mine \in [call : Calls \cup {0}, step : Steps] /\ outcome \in [Calls -> Outcomes]
    BY DEF Init, Steps, Outcomes
  <2>2. epochOf \in [Calls -> Epochs \cup {None}] /\ preparedKey \in Epochs \cup {None}
    BY DEF Init
  <2>3. delivered \in 0..Len(log) /\ taken \subseteq 1..delivered
    BY <1>2 DEF Init
  <2>4. exitSeen \in BOOLEAN /\ aborted \subseteq Calls /\ cancelling \subseteq Calls
        /\ cli \in {"up", "crashed"}
    BY DEF Init
  <2> QED BY <1>1, <2>1, <2>2, <2>3, <2>4 DEF MinerTypeOK, TypeInv
<1>5. IdsAreFresh /\ IdsAreOfTheirKind /\ SaidOnce
  BY <1>2, <1>3 DEF IdsAreFresh, Unheard, IdsAreOfTheirKind, SaidOnce
<1>6. WorkerOwes /\ LeavesInOrder /\ TakenInOrder
  BY <1>2 DEF Init, WorkerInit, Reading, WorkerOwes, LeavesInOrder, TakenInOrder
<1>7. OutcomesAreTaken /\ SettledIsQuiet
  BY DEF Init, OutcomesAreTaken, SettledIsQuiet
<1> QED BY <1>1, <1>4, <1>5, <1>6, <1>7 DEF MinerInv, Init

LEMMA MinerStep ==
    ASSUME WorkerAssumption, MinerAssumption, MinerInv, [Next]_vars
    PROVE  MinerInv' /\ Refines
<1>1. ASSUME WorkerStep, UNCHANGED clientVars PROVE MinerInv' /\ Refines
  BY <1>1, WorkerKeeps DEF Refines
<1>2. CASE WorkerRuns
  BY <1>1, <1>2 DEF WorkerRuns, WorkerStep
<1>3. CASE CloseKills
  BY <1>1, <1>3 DEF CloseKills, WorkerStep
<1>4. CASE \E e \in Epochs : Mine(e) \/ MineThrows(e)
  BY <1>4, MineKeeps, MineThrowsKeeps
<1>5. CASE Takes
  BY <1>5, PreparedKeeps, StartedKeeps, ProgressKeeps, EndedKeeps, CancelAnsweredKeeps
     DEF Takes
<1>6. CASE \E m \in Calls : CancelTimesOut(m)
  BY <1>6, CancelTimesOutKeeps
<1>7. CASE TimesOut \/ Abort \/ Deliver \/ ExitEvent \/ Close \/ PipeCloses
  BY <1>7, TimesOutKeeps, AbortKeeps, DeliverKeeps, ExitEventKeeps, CloseKeeps
<1>8. CASE UNCHANGED vars
  <2>1. Mute /\ UNCHANGED clientVars
    BY <1>8 DEF vars, workerVars, Mute
  <2>2. MinerTypeOK
    BY DEF MinerInv
  <2> QED BY <2>1, <2>2, MuteCall DEF clientVars, MinerTypeOK
<1> QED BY <1>2, <1>3, <1>4, <1>5, <1>6, <1>7, <1>8 DEF Next, ClientStep

(* What RealRandomXMiner and its worker never break: the types of both,    *)
(* which ids are in use, in what order the worker's lines leave it and     *)
(* are taken, and what each wait of a call has still to get (randomx-      *)
(* miner.ts, worker-client.ts).                                            *)
THEOREM MinerInvHolds == Spec => []MinerInv
<1>1. Init => MinerInv
  BY MinerBegins, WorkerAssumption
<1>2. MinerInv /\ [Next]_vars => MinerInv'
  BY MinerStep, WorkerAssumption, MinerAssumption
<1> QED BY <1>1, <1>2, PTL DEF Spec

(* The types of the client's state (randomx-miner.ts, worker-client.ts)    *)
(* and of its worker's.                                                    *)
THEOREM MinerTypeCorrect == Spec => []MinerTypeOK
<1>1. MinerInv => MinerTypeOK
  BY DEF MinerInv
<1> QED BY <1>1, MinerInvHolds, PTL

(* Each step of the miner is a step of its worker's specification: its ids *)
(* are new whenever it writes one, so that the worker is used as it        *)
(* expects, whatever times out, dies or is aborted.                        *)
THEOREM MinerUsesWorker == Spec => ImplementsWorker
<1>1. Init => WorkerInit
  BY DEF Init
<1>2. MinerInv /\ [Next]_vars => [WorkerStep \/ CallerStep]_workerVars
  BY MinerStep, WorkerAssumption, MinerAssumption DEF Refines
<1> QED BY <1>1, <1>2, MinerInvHolds, PTL DEF Spec, ImplementsWorker, WorkerSpec

(* A call that mine settled with the terminal message of its search has    *)
(* nothing of that search left to come: the next search is given no line   *)
(* of it.                                                                  *)
THEOREM MinerSettlesQuietly == Spec => []SettledIsQuiet
<1>1. MinerInv => SettledIsQuiet
  BY DEF MinerInv
<1> QED BY <1>1, MinerInvHolds, PTL

(* An exit with code 0 leaves no waiter of mine without the line it waits  *)
(* for, though such an exit rejects nobody.                                *)
THEOREM CleanExitAnswersAll == Spec => []CleanExitOwesNothing
<1>1. MinerInv => CleanExitOwesNothing
  <2> SUFFICES ASSUME MinerInv, process = "exited", delivered = Len(log), mine.step # "idle"
               PROVE  Wanted # {}
    BY DEF CleanExitOwesNothing
  <2>1. MinerTypeOK /\ TypeOK /\ WorkerOwes /\ TakenInOrder /\ IdsAreOfTheirKind
    BY DEF MinerInv, TypeInv
  <2>2. doing.step = "exit" /\ stdin = <<>> /\ search.phase = "none"
    BY DEF MinerInv, LeavesInOrder
  <2>3. Pending = {}
    <3>1. DOMAIN stdin = {}
      BY <2>2
    <3> QED BY <2>2, <3>1 DEF Pending, AtWork
  <2>4. DOMAIN log = 1..delivered
    BY <2>1, TakenAreLines
  <2>5. mine.step \in {"preparing", "starting", "searching"}
    BY <2>1 DEF MinerTypeOK, Steps
  <2>6. CASE mine.step = "preparing"
    <3>1. PICK i \in DOMAIN log : /\ log[i].jobId = OfMine("prepare")
                                 /\ log[i].type \in {"ready", "INVALID_REQUEST"}
      BY <2>1, <2>3, <2>6 DEF WorkerOwes, Awaited
    <3>2. i \notin taken
      BY <2>1, <2>6, <3>1 DEF TakenInOrder
    <3> QED BY <2>4, <2>6, <3>1, <3>2 DEF Wanted, Answers, OfMine
  <2>7. CASE mine.step = "starting"
    <3>1. PICK i \in DOMAIN log : /\ log[i].jobId = OfMine("search")
                                 /\ log[i].type \in {"started", "INVALID_REQUEST"}
      BY <2>1, <2>3, <2>7 DEF WorkerOwes, Awaited
    <3>2. i \notin taken
      BY <2>1, <2>7, <3>1 DEF TakenInOrder
    <3> QED BY <2>4, <2>7, <3>1, <3>2 DEF Wanted, Answers, OfMine
  <2>8. CASE mine.step = "searching"
    <3>1. PICK i \in taken : log[i].jobId = OfMine("search") /\ log[i].type = "started"
      BY <2>1, <2>8 DEF TakenInOrder
    <3>2. i \in DOMAIN log
      BY <2>1, <3>1, TakenAreLines
    <3>3. PICK j \in DOMAIN log : log[j].jobId = OfMine("search") /\ log[j].type \in Terminal
      BY <2>1, <2>2, <3>1, <3>2 DEF WorkerOwes
    <3>4. j \notin taken
      BY <2>1, <2>8, <3>3 DEF TakenInOrder
    <3> QED BY <2>4, <2>8, <3>3, <3>4 DEF Wanted, Answers, OfMine, Terminal
  <2> QED BY <2>5, <2>6, <2>7, <2>8
<1> QED BY <1>1, MinerInvHolds, PTL

(* So a search of a miner is framed as the protocol says, and keeps the    *)
(* dataset it was started on.                                              *)
THEOREM MinerSearchesFramed == Spec => [](SearchIsFramed /\ ActiveOnCurrent)
BY MinerUsesWorker, SearchesFramed, DatasetHeld, PTL DEF ImplementsWorker

-----------------------------------------------------------------------------
(* Which dataset a solution is of, when no prepare is late.  First, the    *)
(* steps of the worker.                                                    *)

LEMMA SaidType ==
    ASSUME TypeOK, NEW type, NEW job, Emit(type, job), NEW e, Says(e)
    PROVE  e.type = type
<1>1. e = [type |-> type, jobId |-> job, context |-> None]
  BY OneLine DEF Emit
<1> QED BY <1>1

LEMMA PendingUnanswered ==
    ASSUME Fresh, NEW c \in Pending
    PROVE  \A i \in DOMAIN log : log[i].jobId # c.jobId
BY DEF Pending, Fresh, AtWork

LEMMA MadeCurrent ==
    ASSUME TypeOK, NEW e \in Epochs
    PROVE  MakeCurrent(e) # <<>> /\ Head(MakeCurrent(e)) = e
<1>1. contexts \in Seq(Epochs)
  BY DEF TypeOK
<1>2. <<e>> # <<>> /\ Head(<<e>>) = e
  OBVIOUS
<1>3. CASE contexts = <<>>
  BY <1>2, <1>3 DEF MakeCurrent
<1>4. CASE contexts # <<>> /\ Head(contexts) = e
  BY <1>4 DEF MakeCurrent
<1>5. CASE contexts # <<>> /\ Head(contexts) # e
  <2>1. Head(contexts) \in Epochs
    BY <1>1, <1>5
  <2>2. MakeCurrent(e) = <<e, Head(contexts)>>
    BY <1>5 DEF MakeCurrent
  <2>3. <<e, Head(contexts)>> # <<>> /\ Head(<<e, Head(contexts)>>) = e
    BY <2>1
  <2> QED BY <2>2, <2>3
<1> QED BY <1>3, <1>4, <1>5

(* Nothing but the end of a prepare changes the current dataset of a       *)
(* worker that runs.                                                       *)
LEMMA OnlyBuilds ==
    ASSUME TypeInv, Framed, WorkerStep, ~Built
    PROVE  /\ process' = "running" => contexts' = contexts
           /\ Pending' \subseteq Pending
           /\ \/ Read
              \/ stdin' = stdin /\ (AtWork' => AtWork /\ doing'.command = doing.command)
           /\ \A e : Says(e) => e.type # "ready"
<1>1. TypeOK
  BY DEF TypeInv
<1>2. Pending' \subseteq Pending
  BY WorkerShape DEF Silent, AnswersCommand, TellsOfSearch
<1>3. ASSUME log' = log \/ (\E type, job : type # "ready" /\ Emit(type, job)), NEW e, Says(e)
      PROVE  e.type # "ready"
  BY <1>1, <1>3, OneLine, SaidType
<1>4. CASE Read
  BY <1>2, <1>3, <1>4 DEF Read
<1>5. ASSUME doing' = Reading PROVE ~AtWork'
  BY <1>5 DEF Reading, AtWork
<1>6. ASSUME doing.step \in {"join", "serve"}, NEW s,
             s \in {"serve", "building"}, doing' = [doing EXCEPT !.step = s]
      PROVE  AtWork' => AtWork /\ doing'.command = doing.command
  BY <1>1, <1>6 DEF AtWork, TypeOK
<1>7. CASE JoinCompletedSearch
  BY <1>2, <1>3, <1>6, <1>7 DEF JoinCompletedSearch
<1>8. CASE Prepare
  BY <1>2, <1>3, <1>5, <1>6, <1>8 DEF Prepare, Refuse
<1>9. CASE BuildFails
  BY <1>2, <1>3, <1>5, <1>9 DEF BuildFails, Refuse
<1>10. CASE Search
  BY <1>2, <1>3, <1>5, <1>10 DEF Search, Refuse
<1>11. CASE Cancel
  BY <1>2, <1>3, <1>5, <1>11 DEF Cancel, Refuse
<1>12. CASE Shutdown
  <2>1. ~AtWork'
    BY <1>1, <1>12 DEF Shutdown, AtWork, TypeOK
  <2> QED BY <1>2, <1>3, <1>12, <2>1 DEF Shutdown
<1>13. CASE Exit
  BY <1>2, <1>3, <1>13 DEF Exit, AtWork
<1>14. CASE Report
  BY <1>2, <1>3, <1>14 DEF Report, AtWork
<1>15. ASSUME NEW t \in Terminal, Tell(t) PROVE UNCHANGED <<stdin, doing, contexts>>
  BY <1>15 DEF Tell
<1>16. ASSUME NEW t \in Terminal, Tell(t), NEW e, Says(e) PROVE e.type # "ready"
  <2>1. e = [type |-> t, jobId |-> search.job,
             context |-> IF t = "solution" THEN search.context ELSE None]
    BY <1>1, <1>16, OneLine DEF Tell
  <2> QED BY <2>1 DEF Terminal
<1>17. CASE \E t \in Terminal : Tell(t)
  BY <1>2, <1>15, <1>16, <1>17 DEF AtWork
<1>18. CASE Release
  BY <1>2, <1>3, <1>18 DEF Release, AtWork
<1>19. CASE Die
  BY <1>2, <1>3, <1>19 DEF Die, AtWork
<1> QED BY <1>4, <1>7, <1>8, <1>9, <1>10, <1>11, <1>12, <1>13, <1>14, <1>17, <1>18, <1>19
        DEF WorkerStep, MainThread, SearchThread

(* A search hashes on the dataset that was current when it was started. *)
LEMMA HashesOnCurrent ==
    ASSUME WorkerAssumption, TypeInv, WorkerStep, Hashing'
    PROVE  \/ Hashing /\ search'.job = search.job /\ search'.context = search.context
           \/ \E c \in Pending : /\ c.command = "search" /\ search'.job = c.jobId
                                 /\ search'.context = Head(contexts)
<1>1. TypeOK /\ OneThread
  BY DEF TypeInv
<1>2. CASE search' = search /\ process = "running"
  BY <1>2 DEF Hashing
<1>3. ASSUME search' = [search EXCEPT !.cancel = TRUE], search \in Searches,
             process = "running"
      PROVE  Hashing /\ search'.job = search.job /\ search'.context = search.context
  BY <1>3 DEF Hashing, Searches
<1>4. CASE JoinCompletedSearch
  BY <1>2, <1>4 DEF JoinCompletedSearch, NoSearch, Hashing
<1>5. CASE Search
  <2>1. doing.command \in Pending
    BY <1>5 DEF Search, Pending, AtWork
  <2>2. CASE search' = search
    BY <1>2, <1>5, <2>2 DEF Search
  <2>3. CASE search' = [job |-> doing.command.jobId, phase |-> "hashing",
                        cancel |-> FALSE, context |-> Head(contexts)]
    BY <1>5, <2>1, <2>3 DEF Search
  <2> QED BY <1>5, <2>2, <2>3 DEF Search
<1>6. CASE Cancel
  <2>1. active # None => search \in Searches
    BY <1>1, <1>6 DEF OneThread, Cancel
  <2>2. active = doing.command.arg => active # None
    <3>1. doing.command \in Commands /\ doing.command.command = "cancel"
      BY <1>1, <1>6, AtHand DEF Cancel
    <3> QED BY <3>1 DEF Commands, Prepares, SearchCommands, Cancels, WorkerAssumption
  <2> QED BY <1>2, <1>3, <1>6, <2>1, <2>2 DEF Cancel
<1>7. CASE Shutdown
  <2>1. active # None => search \in Searches
    BY <1>1, <1>7 DEF OneThread, Shutdown
  <2> QED BY <1>2, <1>3, <1>7, <2>1 DEF Shutdown
<1>8. CASE \E t \in Terminal : Tell(t)
  <2>1. search'.phase = "told"
    BY <1>1, <1>8, HashingSearch DEF Tell, Searches
  <2> QED BY <2>1 DEF Hashing
<1>9. CASE Release
  <2>1. search'.phase = "finished"
    BY <1>1, <1>9 DEF Release, TypeOK, Searches, NoSearch
  <2> QED BY <2>1 DEF Hashing
<1>10. CASE Exit \/ Die
  BY <1>10 DEF Exit, Die, Hashing
<1>11. CASE Read \/ Prepare \/ Built \/ BuildFails \/ Report
  BY <1>2, <1>11 DEF Read, Prepare, Built, BuildFails, Report, Hashing
<1> QED BY <1>4, <1>5, <1>6, <1>7, <1>8, <1>9, <1>10, <1>11
        DEF WorkerStep, MainThread, SearchThread

LEMMA RunsBefore ==
    ASSUME WorkerAssumption, TypeInv, Framed, WorkerStep PROVE process = "running"
BY SearchStep

(* The end of a prepare: it is the only command there is. *)
LEMMA BuiltKeepsPrepares ==
    ASSUME WorkerAssumption, TypeInv, Framed, Built, PreparedIsCurrent, UNCHANGED clientVars
    PROVE  PreparedIsCurrent' /\ Pending' = {}
<1> DEFINE c == doing.command
<1>1. TypeOK /\ process = "running" /\ doing.step = "building"
  BY DEF TypeInv, Built
<1>2. c \in Prepares /\ c \in Pending /\ c.command = "prepare"
  BY <1>1, AtHand DEF Pending, AtWork, Prepares
<1>3. mine.step = "preparing" /\ c.jobId = OfMine("prepare") /\ c.arg = epochOf[mine.call]
  BY <1>1, <1>2 DEF PreparedIsCurrent, PrepareIsOfMine
<1>4. stdin = <<>>
  BY <1>1, <1>2 DEF PreparedIsCurrent, PrepareIsLast, AtWork
<1>5. stdin' = <<>> /\ ~AtWork' /\ Pending' = {}
  <2>1. DOMAIN stdin' = {} /\ stdin' = <<>>
    BY <1>4 DEF Built
  <2>2. ~AtWork'
    BY DEF Built, Reading, AtWork
  <2> QED BY <2>1, <2>2 DEF Pending
<1>6. CurrentIs(epochOf[mine.call])'
  <2>1. c.arg \in Epochs
    BY <1>2 DEF Prepares
  <2>2. contexts' # <<>> /\ Head(contexts') = c.arg
    BY <1>1, <2>1, MadeCurrent DEF Built
  <2> QED BY <1>3, <2>2 DEF CurrentIs, clientVars
<1>7. IsReady'
  <2> DEFINE e == [type |-> "ready", jobId |-> c.jobId, context |-> None]
  <2>1. e \in Messages /\ log' = Append(log, e)
    BY <1>2 DEF Built, Emit, Messages, Types, Prepares
  <2>2. Says(e)
    BY <2>1 DEF Says
  <2>3. Len(log) + 1 \in DOMAIN log' /\ log'[Len(log) + 1] = e
    BY <1>1, <2>2, NewLine
  <2>4. e.type = "ready" /\ e.jobId = OfMine("prepare")'
    BY <1>3 DEF OfMine, clientVars
  <2> QED BY <2>3, <2>4 DEF IsReady
<1>8. mine'.step = "preparing"
  BY <1>3 DEF clientVars
<1>9. PrepareIsOfMine' /\ PrepareIsLast'
  <2>1. DOMAIN stdin' = {}
    BY <1>5
  <2> QED BY <1>5, <2>1 DEF PrepareIsOfMine, PrepareIsLast
<1>10. KeyIsCurrent'
  BY <1>6, <1>7, <1>8 DEF KeyIsCurrent
<1> QED BY <1>5, <1>9, <1>10 DEF PreparedIsCurrent

LEMMA ReadKeepsLast ==
    ASSUME TypeOK, Read, PrepareIsLast PROVE PrepareIsLast'
<1>1. stdin \in Seq(Commands) /\ stdin # <<>> /\ stdin' = Tail(stdin) /\ process = "running"
  BY DEF Read, TypeOK
<1>2. /\ Len(stdin) \in Nat \ {0} /\ DOMAIN stdin = 1..Len(stdin)
      /\ DOMAIN stdin' = 1..(Len(stdin) - 1) /\ Len(stdin') = Len(stdin) - 1
      /\ \A i \in DOMAIN stdin' : stdin'[i] = stdin[i + 1]
      /\ Head(stdin) = stdin[1] /\ stdin' \in Seq(Commands)
  <2>1. stdin' \in Seq(Commands) /\ Len(stdin') = Len(stdin) - 1
        /\ \A i \in 1..Len(stdin') : stdin'[i] = stdin[i + 1]
    BY <1>1, HeadTailProperties
  <2> QED BY <1>1, <2>1, LenProperties, EmptySeq
<1>3. ASSUME NEW i \in DOMAIN stdin', stdin'[i].command = "prepare"
      PROVE  i = Len(stdin')
  <2>1. i \in Nat /\ i + 1 \in DOMAIN stdin /\ stdin[i + 1].command = "prepare"
    BY <1>2, <1>3
  <2>2. i + 1 = Len(stdin)
    BY <1>1, <2>1 DEF PrepareIsLast
  <2> QED BY <1>2, <2>1, <2>2
<1>4. ASSUME doing'.command.command = "prepare" PROVE stdin' = <<>>
  <2>1. 1 \in DOMAIN stdin /\ stdin[1].command = "prepare"
    BY <1>2, <1>4 DEF Read
  <2>2. Len(stdin) = 1
    BY <1>1, <2>1 DEF PrepareIsLast
  <2>3. stdin' \in Seq(Commands) /\ Len(stdin') = 0
    BY <1>2, <2>2
  <2>4. stdin' # <<>> => Len(stdin') \in Nat \ {0}
    BY <2>3, EmptySeq
  <2> QED BY <2>3, <2>4
<1> QED BY <1>3, <1>4 DEF PrepareIsLast

LEMMA WorkerKeepsPrepares ==
    ASSUME WorkerAssumption, TypeInv, Framed, WorkerStep, ~Built, PreparedIsCurrent,
           UNCHANGED clientVars
    PROVE  PreparedIsCurrent'
<1>1. TypeOK /\ process = "running"
  BY RunsBefore DEF TypeInv
<1>2. /\ process' = "running" => contexts' = contexts
      /\ Pending' \subseteq Pending
      /\ \/ Read
         \/ stdin' = stdin /\ (AtWork' => AtWork /\ doing'.command = doing.command)
      /\ \A e : Says(e) => e.type # "ready"
  BY OnlyBuilds
<1>3. PrepareIsOfMine'
  BY <1>1, <1>2 DEF PreparedIsCurrent, PrepareIsOfMine, OfMine, clientVars
<1>4. PrepareIsLast'
  <2>1. CASE Read
    BY <1>1, <2>1, ReadKeepsLast DEF PreparedIsCurrent
  <2>2. CASE stdin' = stdin /\ (AtWork' => AtWork /\ doing'.command = doing.command)
    BY <1>1, <2>2 DEF PreparedIsCurrent, PrepareIsLast
  <2> QED BY <1>2, <2>1, <2>2
<1>5. OfMine("prepare")' = OfMine("prepare")
  BY DEF OfMine, clientVars
<1>6. IsReady' <=> IsReady
  <2>1. CASE log' = log
    BY <1>5, <2>1 DEF IsReady
  <2>2. ASSUME NEW e, Says(e) PROVE IsReady' <=> IsReady
    <3>1. e.type # "ready"
      BY <1>2, <2>2
    <3> QED BY <1>1, <1>5, <2>2, <3>1, NewLine DEF IsReady
  <2> QED BY <2>1, <2>2, WorkerShape DEF Silent, AnswersCommand, TellsOfSearch
<1>7. KeyIsCurrent'
  BY <1>1, <1>2, <1>6 DEF PreparedIsCurrent, KeyIsCurrent, CurrentIs, clientVars
<1> QED BY <1>3, <1>4, <1>7 DEF PreparedIsCurrent

LEMMA WorkerKeepsFit ==
    ASSUME WorkerAssumption, TypeInv, Framed, WorkerStep, PreparedIsCurrent, SearchesFit,
           UNCHANGED clientVars
    PROVE  SearchesFit'
<1>1. TypeOK /\ process = "running"
  BY RunsBefore DEF TypeInv
<1>2. PendingFit'
  <2>1. CASE Built
    BY <2>1, BuiltKeepsPrepares DEF PendingFit
  <2>2. CASE ~Built
    <3>1. /\ process' = "running" => contexts' = contexts
          /\ Pending' \subseteq Pending
      BY <2>2, OnlyBuilds
    <3> QED BY <1>1, <3>1 DEF SearchesFit, PendingFit, CurrentIs, clientVars
  <2> QED BY <2>1, <2>2
<1>3. HashingFits'
  <2> SUFFICES ASSUME Hashing' PROVE search'.context = epochOf[CallOf(search'.job)]
    BY DEF HashingFits, clientVars
  <2>1. CASE Hashing /\ search'.job = search.job /\ search'.context = search.context
    BY <2>1 DEF SearchesFit, HashingFits
  <2>2. ASSUME NEW c \in Pending, c.command = "search", search'.job = c.jobId,
               search'.context = Head(contexts)
        PROVE  search'.context = epochOf[CallOf(search'.job)]
    BY <1>1, <2>2 DEF SearchesFit, PendingFit, CurrentIs
  <2> QED BY <2>1, <2>2, HashesOnCurrent
<1>4. LinesFit'
  <2>1. CASE Silent
    BY <2>1 DEF Silent, SearchesFit, LinesFit, clientVars
  <2>2. ASSUME NEW e, Says(e), e.type = "solution" => e.context = epochOf[CallOf(e.jobId)]
        PROVE  LinesFit'
    <3> SUFFICES ASSUME NEW i \in DOMAIN log', log'[i].type = "solution"
                 PROVE  log'[i].context = epochOf[CallOf(log'[i].jobId)]
      BY DEF LinesFit, clientVars
    <3>1. CASE i \in DOMAIN log
      BY <1>1, <2>2, <3>1, NewLine DEF SearchesFit, LinesFit
    <3>2. CASE i \notin DOMAIN log
      BY <1>1, <2>2, <3>2, NewLine
    <3> QED BY <3>1, <3>2
  <2>3. ASSUME NEW c, NEW e, AnswersCommand(c, e) PROVE LinesFit'
    BY <2>2, <2>3 DEF AnswersCommand, AnswerTypes
  <2>4. ASSUME NEW e, TellsOfSearch(e) PROVE LinesFit'
    BY <2>2, <2>4 DEF TellsOfSearch, SearchesFit, HashingFits
  <2> QED BY <2>1, <2>3, <2>4, WorkerShape
<1> QED BY <1>2, <1>3, <1>4 DEF SearchesFit

LEMMA WorkerKeepsEpochs ==
    ASSUME WorkerAssumption, MinerInv, EpochInv, WorkerStep, UNCHANGED clientVars
    PROVE  EpochInv'
<1>1. TypeInv /\ Framed /\ MinerTypeOK
  BY DEF MinerInv
<1>2. PreparedIsCurrent'
  BY <1>1, BuiltKeepsPrepares, WorkerKeepsPrepares DEF EpochInv
<1>3. SearchesFit'
  BY <1>1, WorkerKeepsFit DEF EpochInv
<1>4. \A i \in taken : log'[i] = log[i]
  BY <1>1, LinesStay, TakenAreLines
<1>5. SolutionIsOfItsEpoch'
  BY <1>4 DEF EpochInv, SolutionIsOfItsEpoch, clientVars
<1> QED BY <1>2, <1>3, <1>5 DEF EpochInv

-----------------------------------------------------------------------------
(* Which dataset a solution is of: the steps of the client. *)

NoPrepare == \A c \in Pending : c.command # "prepare"

Known(m) == m \in Calls /\ ~(m > mine.call)

(* The worker knows no call that has not begun. *)
LEMMA IdsAreKnown ==
    ASSUME MinerInv
    PROVE  /\ \A c \in Pending : Known(CallOf(c.jobId))
           /\ \A i \in DOMAIN log : Known(CallOf(log[i].jobId))
<1>1. ASSUME NEW m \in Calls, NEW kind \in Kinds, m > mine.call PROVE Unheard(Id(m, kind))
  BY <1>1 DEF MinerInv, IdsAreFresh, NotYet
<1>2. ASSUME NEW c \in Pending PROVE Known(CallOf(c.jobId))
  <2>1. PICK m \in Calls : c.jobId = Id(m, c.command)
    BY DEF MinerInv, IdsAreOfTheirKind
  <2>2. CallOf(c.jobId) = m
    BY <2>1 DEF CallOf, Id
  <2>3. c.command \in Kinds
    <3>1. c \in Commands
      BY PendingType DEF MinerInv, TypeInv
    <3> QED BY <3>1 DEF Commands, Prepares, SearchCommands, Cancels, Kinds
  <2> QED BY <1>1, <2>1, <2>2, <2>3 DEF Unheard, Known
<1>3. ASSUME NEW i \in DOMAIN log PROVE Known(CallOf(log[i].jobId))
  <2>1. PICK m \in Calls, kind \in Kinds : log[i].jobId = Id(m, kind)
    BY DEF MinerInv, IdsAreOfTheirKind
  <2>2. CallOf(log[i].jobId) = m
    BY <2>1 DEF CallOf, Id
  <2> QED BY <1>1, <2>1, <2>2 DEF Unheard, Known
<1> QED BY <1>2, <1>3

(* A new call is given its epoch; those of the others stay. *)
EpochsStay == \A m : Known(m) => epochOf'[m] = epochOf[m]

LEMMA SearchesFollow ==
    ASSUME MinerInv, SearchesFit, EpochsStay,
           log' = log, process' = process, search' = search, contexts' = contexts,
           process = "running" => \A c \in Pending' \ Pending :
               c.command = "search" => CurrentIs(epochOf'[CallOf(c.jobId)])
    PROVE  SearchesFit'
<1>1. PendingFit'
  BY IdsAreKnown DEF EpochsStay, SearchesFit, PendingFit, CurrentIs
<1>2. HashingFits'
  <2> SUFFICES ASSUME Hashing PROVE search.context = epochOf'[CallOf(search.job)]
    BY DEF HashingFits, Hashing
  <2>1. Known(CallOf(search.job))
    BY HashingWasStarted, IdsAreKnown DEF MinerInv
  <2> QED BY <2>1 DEF EpochsStay, SearchesFit, HashingFits
<1>3. LinesFit'
  BY IdsAreKnown DEF EpochsStay, SearchesFit, LinesFit
<1> QED BY <1>1, <1>2, <1>3 DEF SearchesFit

LEMMA SolutionsFollow ==
    ASSUME MinerInv, SolutionIsOfItsEpoch, EpochsStay, log' = log, taken \subseteq taken',
           \A m \in Calls : outcome'[m] = outcome[m] \/ outcome'[m] # "solution"
    PROVE  SolutionIsOfItsEpoch'
<1> SUFFICES ASSUME NEW m \in Calls, outcome'[m] = "solution"
             PROVE  \E i \in taken' : /\ log[i].jobId = Id(m, "search")
                                     /\ log[i].type = "solution"
                                     /\ log[i].context = epochOf'[m]
  BY DEF SolutionIsOfItsEpoch
<1>1. outcome[m] = "solution"
  OBVIOUS
<1>2. Known(m)
  BY <1>1 DEF MinerInv, OutcomesAreTaken, Known
<1>3. epochOf'[m] = epochOf[m]
  BY <1>2 DEF EpochsStay
<1> QED BY <1>1, <1>3 DEF SolutionIsOfItsEpoch

(* Nobody asks for a prepare: no command is written, or one of another     *)
(* kind.                                                                   *)
NoneAsked == Mute \/ \E m, kind, arg : WritesNew(m, kind, arg) /\ kind # "prepare"

LEMMA NoneAskedShape ==
    ASSUME WorkerAssumption, MinerInv, NoneAsked
    PROVE  /\ Pending \subseteq Pending'
           /\ \A c \in Pending' \ Pending : c.command # "prepare"
           /\ log' = log /\ process' = process /\ search' = search /\ contexts' = contexts
           /\ stdin' = stdin \/ \E m, kind, arg : WritesNew(m, kind, arg)
<1>1. CASE Mute
  BY <1>1, MuteKeeps DEF Mute
<1>2. ASSUME NEW m, NEW kind, NEW arg, WritesNew(m, kind, arg), kind # "prepare"
      PROVE  /\ Pending \subseteq Pending'
             /\ \A c \in Pending' \ Pending : c.command # "prepare"
             /\ log' = log /\ process' = process /\ search' = search /\ contexts' = contexts
  <2>1. Command(m, kind, arg).command # "prepare"
    BY <1>2 DEF Command
  <2>2. Pending' = Pending \cup {Command(m, kind, arg)} /\ log' = log
    BY <1>2, WriteKeeps
  <2> QED BY <1>2, <2>1, <2>2 DEF WritesNew
<1> QED BY <1>1, <1>2 DEF NoneAsked, Mute

(* What is written goes to the end. *)
LEMMA WrittenLast ==
    ASSUME MinerInv, NEW m, NEW kind, NEW arg, WritesNew(m, kind, arg),
           process = "running" => NoPrepare
    PROVE  PrepareIsLast'
<1>1. TypeOK /\ Command(m, kind, arg) \in Commands
  BY DEF MinerInv, TypeInv, WritesNew
<1>2. stdin \in Seq(Commands) /\ stdin' = Append(stdin, Command(m, kind, arg))
  BY <1>1 DEF TypeOK, WritesNew
<1>3. /\ Len(stdin) \in Nat /\ DOMAIN stdin = 1..Len(stdin)
      /\ DOMAIN stdin' = 1..(Len(stdin) + 1) /\ Len(stdin') = Len(stdin) + 1
      /\ \A i \in DOMAIN stdin : stdin'[i] = stdin[i]
  <2>1. stdin' \in Seq(Commands) /\ Len(stdin') = Len(stdin) + 1
    BY <1>1, <1>2, AppendProperties
  <2> QED BY <1>1, <1>2, <2>1, AppendProperties, LenProperties
<1> SUFFICES ASSUME process = "running" PROVE PrepareIsLast'
  BY DEF PrepareIsLast, WritesNew
<1>4. ASSUME NEW i \in DOMAIN stdin', stdin'[i].command = "prepare" PROVE i = Len(stdin')
  <2>1. i \notin DOMAIN stdin
    BY <1>3, <1>4 DEF NoPrepare, Pending
  <2> QED BY <1>3, <2>1
<1>5. AtWork' => doing'.command.command # "prepare"
  BY DEF NoPrepare, Pending, AtWork, WritesNew
<1> QED BY <1>4, <1>5 DEF PrepareIsLast

(* A step after which no prepare is under way. *)
LEMMA PrepareOver ==
    ASSUME WorkerAssumption, MinerInv, PreparedIsCurrent, NoneAsked,
           mine'.step # "preparing",
           process = "running" =>
               NoPrepare /\ (preparedKey' # None => CurrentIs(preparedKey'))
    PROVE  PreparedIsCurrent'
<1>1. /\ Pending \subseteq Pending'
      /\ \A c \in Pending' \ Pending : c.command # "prepare"
      /\ process' = process /\ contexts' = contexts
  BY NoneAskedShape
<1>2. PrepareIsOfMine'
  BY <1>1 DEF PrepareIsOfMine, NoPrepare
<1>3. PrepareIsLast'
  BY WrittenLast DEF NoneAsked, Mute, PreparedIsCurrent, PrepareIsLast, AtWork
<1>4. KeyIsCurrent'
  BY <1>1 DEF KeyIsCurrent, CurrentIs
<1> QED BY <1>2, <1>3, <1>4 DEF PreparedIsCurrent

(* A step in the middle of a call that does not bring it further. *)
LEMMA PrepareGoesOn ==
    ASSUME PreparedIsCurrent, Mute, mine' = mine, epochOf' = epochOf,
           preparedKey' \in {preparedKey, None}
    PROVE  PreparedIsCurrent'
<1>1. Pending' = Pending /\ (AtWork' <=> AtWork)
  BY DEF Mute, Pending, AtWork
<1>2. IsReady' <=> IsReady
  BY DEF IsReady, OfMine, Mute
<1>3. PrepareIsOfMine' /\ PrepareIsLast'
  BY <1>1 DEF PreparedIsCurrent, PrepareIsOfMine, PrepareIsLast, OfMine, Mute
<1>4. KeyIsCurrent'
  BY <1>2 DEF PreparedIsCurrent, KeyIsCurrent, CurrentIs, Mute
<1> QED BY <1>3, <1>4 DEF PreparedIsCurrent

LEMMA NotPreparing ==
    ASSUME PreparedIsCurrent, mine.step # "preparing", process = "running"
    PROVE  NoPrepare /\ (preparedKey # None => CurrentIs(preparedKey))
BY DEF PreparedIsCurrent, PrepareIsOfMine, KeyIsCurrent, NoPrepare

(* Both halves of the steps that write nothing. *)
LEMMA QuietEpochs ==
    ASSUME WorkerAssumption, MinerInv, EpochInv, Mute, mine' = mine, epochOf' = epochOf,
           preparedKey' \in {preparedKey, None}, outcome' = outcome, taken \subseteq taken'
    PROVE  EpochInv'
<1>1. EpochsStay /\ NoneAsked
  BY DEF EpochsStay, NoneAsked
<1>2. PreparedIsCurrent'
  BY PrepareGoesOn DEF EpochInv
<1>3. Pending' = Pending
  BY MuteKeeps
<1>4. SearchesFit'
  BY <1>1, <1>3, SearchesFollow DEF EpochInv, Mute
<1>5. SolutionIsOfItsEpoch'
  BY <1>1, SolutionsFollow DEF EpochInv, Mute
<1> QED BY <1>2, <1>4, <1>5 DEF EpochInv

(* A step that leaves mine where no prepare is under way, and writes no    *)
(* search.                                                                 *)
LEMMA OverEpochs ==
    ASSUME WorkerAssumption, MinerInv, EpochInv, NoneAsked, mine'.step # "preparing",
           EpochsStay, taken \subseteq taken',
           process = "running" =>
               /\ NoPrepare /\ (preparedKey' # None => CurrentIs(preparedKey'))
               /\ \A c \in Pending' \ Pending :
                     c.command = "search" => CurrentIs(epochOf'[CallOf(c.jobId)]),
           \A m \in Calls : outcome'[m] = outcome[m] \/ outcome'[m] # "solution"
    PROVE  EpochInv'
<1>1. log' = log /\ process' = process /\ search' = search /\ contexts' = contexts
  BY NoneAskedShape
<1>2. PreparedIsCurrent'
  BY PrepareOver DEF EpochInv
<1>3. SearchesFit'
  BY <1>1, SearchesFollow DEF EpochInv
<1>4. SolutionIsOfItsEpoch'
  BY <1>1, SolutionsFollow DEF EpochInv
<1> QED BY <1>2, <1>3, <1>4 DEF EpochInv

(* Mine is over, without a solution. *)
LEMMA SettledEpochs ==
    ASSUME WorkerAssumption, MinerInv, EpochInv, Mute, NEW result, result # "solution",
           Settle(result), epochOf' = epochOf, taken \subseteq taken',
           process = "running" =>
               NoPrepare /\ (preparedKey' # None => CurrentIs(preparedKey'))
    PROVE  EpochInv'
<1>1. MinerTypeOK
  BY DEF MinerInv
<1>2. mine'.step # "preparing"
  BY <1>1 DEF Settle, MinerTypeOK
<1>3. \A m \in Calls : outcome'[m] = outcome[m] \/ outcome'[m] # "solution"
  BY <1>1 DEF Settle, MinerTypeOK
<1>4. EpochsStay /\ NoneAsked
  BY DEF EpochsStay, NoneAsked
<1>5. Pending' = Pending
  BY MuteKeeps
<1> QED BY <1>2, <1>3, <1>4, <1>5, OverEpochs

(* The answer to a prepare leaves nothing of it in the worker. *)
LEMMA PrepareAnswered ==
    ASSUME MinerInv, PreparedIsCurrent, process = "running",
           NEW i \in DOMAIN log, log[i].jobId = OfMine("prepare"), mine.step = "preparing"
    PROVE  /\ NoPrepare
           /\ log[i].type = "ready" => CurrentIs(epochOf[mine.call])
           /\ log[i].type # "ready" => (preparedKey # None => CurrentIs(preparedKey))
<1>1. NoPrepare
  <2> SUFFICES ASSUME NEW c \in Pending, c.command = "prepare" PROVE FALSE
    BY DEF NoPrepare
  <2>1. c.jobId = OfMine("prepare")
    BY DEF PreparedIsCurrent, PrepareIsOfMine
  <2> QED BY <2>1, PendingUnanswered DEF MinerInv, Framed
<1>2. log[i].type = "ready" => CurrentIs(epochOf[mine.call])
  BY DEF PreparedIsCurrent, KeyIsCurrent, IsReady
<1>3. log[i].type # "ready" => ~IsReady
  BY DEF IsReady, MinerInv, SaidOnce
<1>4. log[i].type # "ready" => (preparedKey # None => CurrentIs(preparedKey))
  BY <1>3 DEF PreparedIsCurrent, KeyIsCurrent
<1> QED BY <1>1, <1>2, <1>4

LEMMA MineThrowsEpochs ==
    ASSUME WorkerAssumption, MinerAssumption, MinerInv, EpochInv, NEW e \in Epochs,
           MineThrows(e)
    PROVE  EpochInv'
<1>1. MinerTypeOK /\ Mute /\ NextCall \in Calls /\ NextCall = mine.call + 1
  BY DEF MinerInv, MineThrows, MayCall, NextCall, Mute, workerVars
<1>2. mine.call \in Nat /\ NextCall > mine.call
  BY <1>1, CallsAreNumbers
<1>3. EpochsStay
  BY <1>1, <1>2 DEF EpochsStay, Known, MineThrows, MinerTypeOK
<1>4. NoneAsked /\ Pending' = Pending
  BY <1>1, MuteKeeps DEF NoneAsked
<1>5. mine.step # "preparing" /\ mine'.step # "preparing" /\ preparedKey' = preparedKey
      /\ taken' = taken
  BY DEF MineThrows, MayCall
<1>6. \A m \in Calls : outcome'[m] = outcome[m] \/ outcome'[m] # "solution"
  BY <1>1 DEF MineThrows, MinerTypeOK
<1> QED BY <1>3, <1>4, <1>5, <1>6, OverEpochs, NotPreparing DEF EpochInv

(* The steps that settle mine, or take an answer. *)
LEMMA TimesOutEpochs ==
    ASSUME WorkerAssumption, MinerInv, EpochInv, PrepareTimesOut = FALSE, TimesOut
    PROVE  EpochInv'
<1>1. Mute /\ Settle("timeout") /\ mine.step # "preparing"
  BY DEF TimesOut, Mute, workerVars
<1>2. epochOf' = epochOf /\ taken' = taken /\ preparedKey' = preparedKey
  BY DEF TimesOut
<1> QED BY <1>1, <1>2, SettledEpochs, NotPreparing DEF EpochInv

LEMMA ExitEventEpochs ==
    ASSUME WorkerAssumption, MinerInv, EpochInv, ExitEvent PROVE EpochInv'
<1>1. Mute /\ process # "running"
  BY DEF ExitEvent, Mute, workerVars
<1>2. epochOf' = epochOf /\ taken' = taken /\ preparedKey' = preparedKey
  BY DEF ExitEvent
<1>3. CASE UNCHANGED <<outcome, mine>>
  BY <1>1, <1>2, <1>3, QuietEpochs
<1>4. CASE Settle("lost")
  BY <1>1, <1>2, <1>4, SettledEpochs
<1> QED BY <1>3, <1>4 DEF ExitEvent

LEMMA EndedEpochs ==
    ASSUME WorkerAssumption, MinerInv, EpochInv, Ended PROVE EpochInv'
<1> DEFINE i == Min(Wanted)
           result == IF Answer \in {"INVALID_REQUEST", "WORKER_FAILURE"} THEN "error" ELSE Answer
<1>1. MinerTypeOK /\ Mute
  BY DEF MinerInv, Ended, Mute, workerVars
<1>2. /\ epochOf' = epochOf /\ preparedKey' = preparedKey /\ Settle(result)
      /\ taken' = taken \cup {i} /\ log[i].type \in Terminal \cup {"INVALID_REQUEST"}
  BY DEF Ended, Take, Answer
<1>3. process = "running" => NoPrepare /\ (preparedKey' # None => CurrentIs(preparedKey'))
  <2>1. CASE mine.step = "preparing"
    <3>1. i \in DOMAIN log /\ log[i].jobId = OfMine("prepare") /\ log[i].type # "ready"
      BY <1>1, <1>2, <2>1, TakesItsOwn DEF Ended, Terminal
    <3> HIDE DEF i
    <3> QED BY <1>2, <2>1, <3>1, PrepareAnswered DEF EpochInv
  <2>2. CASE mine.step # "preparing"
    BY <1>2, <2>2, NotPreparing DEF EpochInv
  <2> QED BY <2>1, <2>2
<1>4. CASE result # "solution"
  <2> HIDE DEF result, i
  <2> QED BY <1>1, <1>2, <1>3, <1>4, SettledEpochs
<1>5. CASE result = "solution"
  <2>1. log[i].type = "solution"
    BY <1>5 DEF Answer
  <2>2. /\ mine.step = "searching" /\ i \in DOMAIN log
        /\ log[i].jobId = OfMine("search") /\ mine.call \in Calls
    BY <1>1, <2>1, TakesItsOwn DEF Ended, MinerInv, MinerTypeOK, Steps
  <2>3. NoneAsked /\ Pending' = Pending /\ log' = log /\ process' = process
        /\ search' = search /\ contexts' = contexts
    BY <1>1, MuteKeeps DEF NoneAsked, Mute
  <2> HIDE DEF i, result
  <2>4. mine'.step # "preparing" /\ EpochsStay
    BY <1>1, <1>2 DEF Settle, MinerTypeOK, EpochsStay
  <2>5. PreparedIsCurrent'
    BY <1>3, <2>3, <2>4, PrepareOver DEF EpochInv
  <2>6. SearchesFit'
    BY <2>3, <2>4, SearchesFollow DEF EpochInv
  <2>7. log[i].context = epochOf[mine.call]
    BY <2>1, <2>2 DEF EpochInv, SearchesFit, LinesFit, CallOf, OfMine, Id
  <2>8. \A m \in Calls : m # mine.call => outcome'[m] = outcome[m]
    BY <1>1, <1>2 DEF Settle, MinerTypeOK
  <2>9. SolutionIsOfItsEpoch'
    <3> SUFFICES ASSUME NEW m \in Calls, outcome'[m] = "solution"
                 PROVE  \E j \in taken' : /\ log[j].jobId = Id(m, "search")
                                         /\ log[j].type = "solution"
                                         /\ log[j].context = epochOf[m]
      BY <1>2, <2>3 DEF SolutionIsOfItsEpoch
    <3>1. CASE m = mine.call
      BY <1>2, <2>1, <2>2, <2>7, <3>1 DEF OfMine
    <3>2. CASE m # mine.call
      BY <1>2, <2>8, <3>2 DEF EpochInv, SolutionIsOfItsEpoch
    <3> QED BY <3>1, <3>2
  <2> QED BY <2>5, <2>6, <2>9 DEF EpochInv
<1> QED BY <1>4, <1>5

LEMMA PreparedEpochs ==
    ASSUME WorkerAssumption, MinerAssumption, MinerInv, EpochInv, Prepared PROVE EpochInv'
<1> DEFINE i == Min(Wanted)
<1>1. MinerTypeOK /\ mine.step = "preparing" /\ mine.call \in Calls
  BY DEF MinerInv, Prepared
<1>2. /\ taken' = taken \cup {i} /\ i \in DOMAIN log
      /\ log[i].jobId = OfMine("prepare") /\ log[i].type = "ready"
      /\ preparedKey' = epochOf[mine.call] /\ epochOf' = epochOf
  BY <1>1, TakesItsOwn DEF Prepared, Take, Answer
<1> HIDE DEF i
<1>3. process = "running" => NoPrepare /\ CurrentIs(preparedKey')
  BY <1>1, <1>2, PrepareAnswered DEF EpochInv
<1>4. CASE Settle("error") /\ UNCHANGED stdin /\ cli' \in Unsent
  <2>1. Mute
    BY <1>4 DEF Prepared, Mute
  <2> QED BY <1>2, <1>3, <1>4, <2>1, SettledEpochs
<1>5. CASE /\ ~Closed /\ mine' = [mine EXCEPT !.step = "starting"]
           /\ Send(SearchCommand(mine.call)) /\ UNCHANGED outcome
  <2>1. WritesNew(mine.call, "search", None)
    BY <1>1, <1>5, SearchIsNew DEF Prepared
  <2>2. NoneAsked /\ Pending' = Pending \cup {Command(mine.call, "search", None)}
    BY <2>1, WriteKeeps DEF NoneAsked
  <2>3. CallOf(Command(mine.call, "search", None).jobId) = mine.call
    BY DEF CallOf, Command, Id
  <2>4. mine'.step # "preparing" /\ EpochsStay
    BY <1>1, <1>2, <1>5 DEF MinerTypeOK, EpochsStay
  <2>5. process = "running" => \A c \in Pending' \ Pending :
            c.command = "search" => CurrentIs(epochOf'[CallOf(c.jobId)])
    BY <1>2, <1>3, <2>2, <2>3
  <2> QED BY <1>2, <1>3, <1>5, <2>2, <2>4, <2>5, OverEpochs
<1> QED BY <1>4, <1>5 DEF Prepared

LEMMA CancelEpochs ==
    ASSUME WorkerAssumption, MinerAssumption, MinerInv, EpochInv, mine.call \in Calls,
           NotYet(mine.call, "cancel"), RequestCancel(mine.call), mine.step # "preparing",
           mine'.step # "preparing", epochOf' = epochOf, preparedKey' = preparedKey,
           outcome' = outcome, taken \subseteq taken',
           UNCHANGED <<eof, log, process, doing, active, search, contexts>>
    PROVE  EpochInv'
<1>1. EpochsStay
  BY DEF EpochsStay
<1>2. process = "running" => NoPrepare /\ (preparedKey' # None => CurrentIs(preparedKey'))
  BY NotPreparing DEF EpochInv
<1>3. CASE Closed
  <2>1. Mute
    BY <1>3 DEF RequestCancel, Mute
  <2>2. NoneAsked /\ Pending' = Pending
    BY <2>1, MuteKeeps DEF NoneAsked
  <2> QED BY <1>1, <1>2, <2>2, OverEpochs
<1>4. CASE ~Closed
  <2>1. WritesNew(mine.call, "cancel", Id(mine.call, "search"))
    BY <1>4, CancelIsNew
  <2>2. NoneAsked
        /\ Pending' = Pending \cup {Command(mine.call, "cancel", Id(mine.call, "search"))}
    BY <2>1, WriteKeeps DEF NoneAsked
  <2>3. Command(mine.call, "cancel", Id(mine.call, "search")).command # "search"
    BY DEF Command
  <2> QED BY <1>1, <1>2, <2>2, <2>3, OverEpochs
<1> QED BY <1>3, <1>4

LEMMA StartedEpochs ==
    ASSUME WorkerAssumption, MinerAssumption, MinerInv, EpochInv, Started PROVE EpochInv'
<1>1. MinerTypeOK /\ mine.step = "starting" /\ mine.call \in Calls
  BY DEF MinerInv, Started
<1>2. /\ mine'.step # "preparing" /\ epochOf' = epochOf /\ preparedKey' = preparedKey
      /\ outcome' = outcome /\ taken \subseteq taken'
      /\ UNCHANGED <<eof, log, process, doing, active, search, contexts>>
  BY <1>1 DEF Started, Take, MinerTypeOK
<1>3. NotYet(mine.call, "cancel")
  BY <1>1 DEF NotYet
<1>4. CASE RequestCancel(mine.call)
  BY <1>1, <1>2, <1>3, <1>4, CancelEpochs
<1>5. CASE UNCHANGED <<stdin, cancelling, cli>>
  <2>1. Mute
    BY <1>2, <1>5 DEF Mute
  <2>2. NoneAsked /\ Pending' = Pending /\ EpochsStay
    BY <1>2, <2>1, MuteKeeps DEF NoneAsked, EpochsStay
  <2> QED BY <1>1, <1>2, <2>2, OverEpochs, NotPreparing DEF EpochInv
<1> QED BY <1>4, <1>5 DEF Started

LEMMA AbortEpochs ==
    ASSUME WorkerAssumption, MinerAssumption, MinerInv, EpochInv, Abort PROVE EpochInv'
<1>1. mine.call \in Calls /\ mine.call \notin aborted
  BY DEF MinerInv, Abort
<1>2. /\ mine' = mine /\ epochOf' = epochOf /\ preparedKey' = preparedKey
      /\ outcome' = outcome /\ taken' = taken
      /\ UNCHANGED <<eof, log, process, doing, active, search, contexts>>
  BY DEF Abort
<1>3. CASE mine.step = "searching"
  <2>1. NotYet(mine.call, "cancel")
    BY <1>1 DEF NotYet
  <2> QED BY <1>1, <1>2, <1>3, <2>1, CancelEpochs DEF Abort
<1>4. CASE mine.step # "searching"
  <2>1. Mute
    BY <1>2, <1>4 DEF Abort, Mute
  <2> QED BY <1>2, <2>1, QuietEpochs
<1> QED BY <1>3, <1>4

LEMMA MineEpochs ==
    ASSUME WorkerAssumption, MinerAssumption, MinerInv, EpochInv, NEW e \in Epochs, Mine(e)
    PROVE  EpochInv'
<1>1. /\ MinerTypeOK /\ NextCall \in Calls /\ NextCall = mine.call + 1 /\ ~eof
      /\ mine.step # "preparing"
  BY DEF MinerInv, Mine, MayCall, NextCall
<1>2. mine.call \in Nat /\ NextCall > mine.call
  BY <1>1, CallsAreNumbers
<1>3. epochOf'[NextCall] = e /\ EpochsStay
  BY <1>1, <1>2 DEF EpochsStay, Known, Mine, MinerTypeOK
<1>4. /\ outcome' = outcome /\ taken' = taken /\ preparedKey' = preparedKey
      /\ log' = log /\ process' = process /\ search' = search /\ contexts' = contexts
  BY DEF Mine
<1>5. process = "running" => NoPrepare /\ (preparedKey # None => CurrentIs(preparedKey))
  BY <1>1, NotPreparing DEF EpochInv
<1>6. ASSUME NEW kind \in Kinds, NEW arg, Command(NextCall, kind, arg) \in Commands,
             stdin' = Append(stdin, Command(NextCall, kind, arg))
      PROVE  /\ WritesNew(NextCall, kind, arg)
             /\ Pending' = Pending \cup {Command(NextCall, kind, arg)}
             /\ CallOf(Command(NextCall, kind, arg).jobId) = NextCall
  <2>1. NotYet(NextCall, kind)
    BY <1>2 DEF NotYet
  <2>2. WritesNew(NextCall, kind, arg)
    BY <1>1, <1>6, <2>1 DEF WritesNew, Mine
  <2>3. CallOf(Command(NextCall, kind, arg).jobId) = NextCall
    BY DEF CallOf, Command, Id
  <2> QED BY <2>2, <2>3, WriteKeeps
<1>7. CASE preparedKey = e
  <2>1. /\ stdin' = Append(stdin, Command(NextCall, "search", None))
        /\ mine' = [call |-> NextCall, step |-> "starting"]
    <3>1. SearchCommand(NextCall) = Command(NextCall, "search", None)
      BY DEF SearchCommand, Command
    <3> QED BY <1>7, <3>1, Zenon DEF Mine, Send
  <2>2. Command(NextCall, "search", None) \in Commands
    BY <1>1, CommandType
  <2>3. /\ WritesNew(NextCall, "search", None)
        /\ Pending' = Pending \cup {Command(NextCall, "search", None)}
        /\ CallOf(Command(NextCall, "search", None).jobId) = NextCall
    BY <1>6, <2>1, <2>2 DEF Kinds
  <2>4. NoneAsked /\ mine'.step # "preparing"
    BY <2>1, <2>3 DEF NoneAsked
  <2>5. preparedKey # None
    BY <1>7 DEF WorkerAssumption
  <2>6. process = "running" => \A c \in Pending' \ Pending :
            c.command = "search" => CurrentIs(epochOf'[CallOf(c.jobId)])
    BY <1>3, <1>5, <1>7, <2>3, <2>5
  <2> QED BY <1>3, <1>4, <1>5, <2>4, <2>6, OverEpochs
<1>8. CASE preparedKey # e
  <2> DEFINE c == Command(NextCall, "prepare", e)
  <2>1. stdin' = Append(stdin, c) /\ mine' = [call |-> NextCall, step |-> "preparing"]
    <3>1. [command |-> "prepare", jobId |-> Id(NextCall, "prepare"), arg |-> e] = c
      BY DEF Command
    <3> QED BY <1>8, <3>1, Zenon DEF Mine, Send
  <2>2. c \in Commands
    BY <1>1, CommandType
  <2>3. WritesNew(NextCall, "prepare", e) /\ Pending' = Pending \cup {c}
    BY <1>6, <2>1, <2>2 DEF Kinds
  <2>4. mine'.step = "preparing" /\ mine'.call = NextCall
        /\ OfMine("prepare")' = Id(NextCall, "prepare")
    BY <2>1 DEF OfMine, Id
  <2>5. c.command = "prepare" /\ c.jobId = Id(NextCall, "prepare") /\ c.arg = e
    BY DEF Command
  <2> HIDE DEF c
  <2>6. PrepareIsOfMine'
    BY <1>3, <1>4, <1>5, <2>3, <2>4, <2>5 DEF PrepareIsOfMine, NoPrepare
  <2>7. PrepareIsLast'
    BY <1>5, <2>3, WrittenLast
  <2>8. KeyIsCurrent'
    <3>1. Unheard(Id(NextCall, "prepare"))
      BY <2>3 DEF WritesNew, MinerInv, IdsAreFresh
    <3>2. ~IsReady'
      BY <1>4, <2>4, <3>1 DEF IsReady, Unheard
    <3> QED BY <1>4, <1>5, <3>2 DEF KeyIsCurrent, CurrentIs
  <2>9. process = "running" => \A d \in Pending' \ Pending :
            d.command = "search" => CurrentIs(epochOf'[CallOf(d.jobId)])
    BY <2>3, <2>5
  <2>10. SearchesFit'
    BY <1>3, <1>4, <2>9, SearchesFollow DEF EpochInv
  <2>11. SolutionIsOfItsEpoch'
    BY <1>3, <1>4, SolutionsFollow DEF EpochInv
  <2> QED BY <2>6, <2>7, <2>8, <2>10, <2>11 DEF EpochInv, PreparedIsCurrent
<1> QED BY <1>7, <1>8

LEMMA EpochStep ==
    ASSUME WorkerAssumption, MinerAssumption, PrepareTimesOut = FALSE,
           MinerInv, EpochInv, [Next]_vars
    PROVE  EpochInv'
<1>1. CASE \E e \in Epochs : Mine(e) \/ MineThrows(e)
  BY <1>1, MineEpochs, MineThrowsEpochs
<1>2. CASE Prepared \/ Started \/ Ended
  BY <1>2, PreparedEpochs, StartedEpochs, EndedEpochs
<1>3. CASE TimesOut \/ Abort \/ ExitEvent
  BY <1>3, TimesOutEpochs, AbortEpochs, ExitEventEpochs
<1>4. CASE \/ Progress \/ (\E m \in Calls : CancelAnswered(m) \/ CancelTimesOut(m))
           \/ Deliver \/ Close \/ PipeCloses \/ UNCHANGED vars
  <2>1. Mute
    BY <1>4 DEF Progress, CancelAnswered, CancelTimesOut, Deliver, Close, PipeCloses, vars,
                workerVars, Mute
  <2>2. /\ mine' = mine /\ epochOf' = epochOf /\ preparedKey' \in {preparedKey, None}
        /\ outcome' = outcome /\ taken \subseteq taken'
    BY <1>4 DEF Progress, CancelAnswered, CancelTimesOut, Deliver, Close, PipeCloses, vars,
                clientVars, Take
  <2> QED BY <2>1, <2>2, QuietEpochs
<1>5. CASE CloseKills \/ WorkerRuns
  BY <1>5, WorkerKeepsEpochs DEF CloseKills, WorkerRuns, WorkerStep
<1> QED BY <1>1, <1>2, <1>3, <1>4, <1>5 DEF Next, ClientStep, Takes

LEMMA EpochBegins ==
    ASSUME Init PROVE EpochInv
<1>1. DOMAIN log = {} /\ DOMAIN stdin = {} /\ ~AtWork /\ ~Hashing
  BY DEF Init, WorkerInit, AtWork, Reading, Hashing, NoSearch
<1>2. Pending = {}
  BY <1>1 DEF Pending
<1>3. PreparedIsCurrent
  BY <1>1, <1>2 DEF Init, PreparedIsCurrent, PrepareIsOfMine, PrepareIsLast, KeyIsCurrent
<1>4. SearchesFit
  BY <1>1, <1>2 DEF SearchesFit, PendingFit, HashingFits, LinesFit
<1>5. SolutionIsOfItsEpoch
  BY DEF Init, SolutionIsOfItsEpoch
<1> QED BY <1>3, <1>4, <1>5 DEF EpochInv

(* As long as no prepare is late, what mine calls a solution was computed  *)
(* on the dataset of the epoch it was asked for, though nothing but the    *)
(* client's preparedKey remembers what the worker holds; and whatever dies *)
(* or is aborted, and however late the other answers are.                  *)
THEOREM SolutionsFit ==
    ASSUME PrepareTimesOut = FALSE
    PROVE  Spec => []SolutionIsOfItsEpoch
<1>1. Init => EpochInv
  BY EpochBegins
<1>2. MinerInv /\ EpochInv /\ [Next]_vars => EpochInv'
  BY EpochStep, WorkerAssumption, MinerAssumption
<1>3. EpochInv => SolutionIsOfItsEpoch
  BY DEF EpochInv
<1> QED BY <1>1, <1>2, <1>3, MinerInvHolds, PTL DEF Spec
==============================================================================
