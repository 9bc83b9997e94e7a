-------------------------- MODULE CompanionJobsProofs --------------------------
(***************************************************************************)
(* Proofs about CompanionJobs, for any pages, works, limits and clock.     *)
(***************************************************************************)
EXTENDS CompanionJobs, TLAPS

Table == [Slots -> Jobs]

------------------------------------------------------------------------------
(* What the methods of the class make of a table of jobs. *)

Ended(job, status) == [job EXCEPT !.status = status, !.finishedAt = now]
Computing(job) == [job EXCEPT !.status = "COMPUTING"]
Aborted(job) == [job EXCEPT !.aborted = TRUE]

LEMMA AbsentJob == ASSUME CompanionAssumption PROVE Absent \in Jobs
BY DEF CompanionAssumption, Absent, Jobs

LEMMA JobTypes ==
    ASSUME TypeOK, NEW job \in Jobs
    PROVE  /\ \A status \in Final : Ended(job, status) \in Jobs
           /\ Computing(job) \in Jobs
           /\ Aborted(job) \in Jobs
BY DEF TypeOK, Jobs, Ended, Computing, Aborted, Final, Pending

LEMMA FinishEffect ==
    ASSUME TypeOK, NEW js \in Table, NEW ended, NEW status \in Final
    PROVE  /\ Finish(js, ended, status) \in Table
           /\ \A j \in Slots : Finish(js, ended, status)[j] =
                 IF j \in ended THEN Ended(js[j], status) ELSE js[j]
<1>1. \A j \in Slots : Finish(js, ended, status)[j] =
         IF j \in ended THEN Ended(js[j], status) ELSE js[j]
  BY DEF Finish, Ended
<1>2. \A j \in Slots : Finish(js, ended, status)[j] \in Jobs
  BY <1>1, JobTypes DEF Table
<1>. QED
  BY <1>1, <1>2 DEF Finish, Table

LEMMA PruneEffect ==
    ASSUME CompanionAssumption, TypeOK
    PROVE  /\ Prune \in Table
           /\ \A j \in Slots :
                 \/ Prune[j] = jobs[j]
                 \/ Prune[j] = Absent /\ jobs[j].status \in Final
                    /\ jobs[j].finishedAt + Retention < now
<1>1. \A j \in Slots : jobs[j] \in Jobs /\ Prune[j] = IF Stale(j) THEN Absent ELSE jobs[j]
  BY DEF Prune, TypeOK
<1>2. \A j \in Slots : Stale(j) => jobs[j].finishedAt + Retention < now
  BY <1>1 DEF Stale, Jobs, TypeOK, CompanionAssumption
<1>3. \A j \in Slots : Prune[j] \in Jobs
  BY <1>1, AbsentJob
<1>. QED
  BY <1>1, <1>2, <1>3 DEF Prune, Table, Stale

LEMMA CancelEffect ==
    ASSUME TypeOK, NEW js
    PROVE  /\ CancelJobs(js) \in Table
           /\ \A j \in Slots :
                 \/ CancelJobs(js)[j] = jobs[j]
                 \/ jobs[j].status = "QUEUED"
                    /\ CancelJobs(js)[j] = Ended(jobs[j], "CANCELLED")
                 \/ jobs[j].status = "COMPUTING" /\ CancelJobs(js)[j] = Aborted(jobs[j])
<1>1. \A j \in Slots :
         \/ CancelJobs(js)[j] = jobs[j]
         \/ jobs[j].status = "QUEUED" /\ CancelJobs(js)[j] = Ended(jobs[j], "CANCELLED")
         \/ jobs[j].status = "COMPUTING" /\ CancelJobs(js)[j] = Aborted(jobs[j])
  BY DEF CancelJobs, Ended, Aborted, Pending
<1>2. \A j \in Slots : CancelJobs(js)[j] \in Jobs
  BY <1>1, JobTypes DEF TypeOK, Final
<1>. QED
  BY <1>1, <1>2 DEF CancelJobs, Table

(* pump leaves the table alone while the miner is busy.  Otherwise every   *)
(* queued job before the one it starts has expired, and when it starts     *)
(* none, all have.                                                         *)
LEMMA PumpEffect ==
    ASSUME TypeOK, NEW js \in Table, NEW busy \in 0..MaxJobs, Pump(js, busy)
    PROVE  /\ jobs' \in Table /\ running' \in 0..MaxJobs
           /\ \A j \in Slots :
                 \/ jobs'[j] = js[j]
                 \/ js[j].status = "QUEUED" /\ jobs'[j] = Ended(js[j], "EXPIRED")
                 \/ js[j].status = "QUEUED" /\ jobs'[j] = Computing(js[j])
                    /\ busy = 0 /\ j = running'
           /\ busy # 0 => running' = busy /\ jobs' = js
           /\ busy = 0 /\ running' = 0 => \A j \in Slots : jobs'[j].status # "QUEUED"
           /\ busy = 0 /\ running' # 0
                => /\ jobs'[running'].status = "COMPUTING"
                   /\ \A k \in Slots : k < running' => jobs'[k].status # "QUEUED"
<1>. DEFINE queued == WithStatus(js, {"QUEUED"})
            ready == {j \in queued : ~TooSoon(js[j].expiresAt)}
<1>a. \A j \in Slots : js[j] \in Jobs /\ (j \in queued <=> js[j].status = "QUEUED")
  BY DEF Table, WithStatus
<1>b. "EXPIRED" \in Final /\ queued \subseteq Slots /\ Slots = 1..MaxJobs
  BY DEF Final, WithStatus, Slots
<1>1. CASE ~Free(busy) /\ jobs' = js /\ running' = busy
  BY <1>1 DEF Free
<1>2. CASE /\ Free(busy) /\ ready = {}
           /\ jobs' = Finish(js, queued, "EXPIRED") /\ running' = 0
  <2>1. /\ jobs' \in Table
        /\ \A j \in Slots : jobs'[j] = IF j \in queued THEN Ended(js[j], "EXPIRED") ELSE js[j]
    BY <1>2, <1>b, FinishEffect
  <2>2. \A j \in Slots : Ended(js[j], "EXPIRED").status = "EXPIRED"
    BY <1>a DEF Ended, Jobs
  <2>. QED
    BY <1>2, <1>a, <2>1, <2>2 DEF Free
<1>3. CASE \E next \in ready :
             /\ Free(busy) /\ IsNext(next, ready)
             /\ jobs' = Start(Finish(js, {j \in queued \ ready : j < next}, "EXPIRED"), next)
             /\ running' = next
  <2>1. PICK next \in ready :
             /\ Free(busy) /\ IsNext(next, ready)
             /\ jobs' = Start(Finish(js, {j \in queued \ ready : j < next}, "EXPIRED"), next)
             /\ running' = next
    BY <1>3
  <2>. DEFINE over == {j \in queued \ ready : j < next}
              fs == Finish(js, over, "EXPIRED")
  <2>2. next \in Slots /\ next \in queued /\ next \notin over /\ next \in 0..MaxJobs /\ next # 0
    BY <1>b
  <2>3. /\ fs \in Table
        /\ \A j \in Slots : fs[j] = IF j \in over THEN Ended(js[j], "EXPIRED") ELSE js[j]
    BY <1>b, FinishEffect
  <2>. HIDE DEF fs
  <2>4. jobs' = [fs EXCEPT ![next] = Computing(fs[next])]
    BY <2>1, <2>2, <2>3 DEF fs, Start, Computing, Table
  <2>5. /\ jobs'[next] = Computing(js[next])
        /\ \A j \in Slots : j # next =>
              jobs'[j] = IF j \in over THEN Ended(js[j], "EXPIRED") ELSE js[j]
    BY <2>2, <2>3, <2>4 DEF Table
  <2>6. jobs' \in Table
    <3>1. Computing(js[next]) \in Jobs
      BY <1>a, <2>2, JobTypes
    <3>. QED
      BY <2>2, <2>3, <2>4, <3>1 DEF Table
  <2>7. /\ Computing(js[next]).status = "COMPUTING"
        /\ \A j \in Slots : Ended(js[j], "EXPIRED").status = "EXPIRED"
    BY <1>a, <2>2 DEF Ended, Computing, Jobs
  <2>8. \A k \in Slots : k < next /\ js[k].status = "QUEUED" => k \in over
    <3>1. \A k \in ready : next <= k
      BY <2>1 DEF IsNext
    <3>. QED
      BY <1>a, <1>b, <2>2, <3>1
  <2>. HIDE DEF over, ready, queued
  <2>9. \A j \in Slots : j \in over => js[j].status = "QUEUED"
    BY <1>a DEF over, queued, ready
  <2>10. js[next].status = "QUEUED"
    BY <1>a, <2>2
  <2>11. \A k \in Slots : k < next => jobs'[k].status # "QUEUED"
    BY <1>b, <2>2, <2>5, <2>7, <2>8
  <2>. QED
    BY <2>1, <2>2, <2>5, <2>6, <2>7, <2>9, <2>10, <2>11 DEF Free
<1>. QED
  BY <1>1, <1>2, <1>3 DEF Pump

------------------------------------------------------------------------------
(* The invariants of CompanionJobs together: each needs the others, and    *)
(* that a slot nobody has used yet is empty.                               *)

Unused == \A j \in Slots : j > issued => jobs[j] = Absent

WaitsUnaborted == \A j \in Slots : jobs[j].status = "QUEUED" => ~jobs[j].aborted

CompanionInv ==
    /\ TypeOK /\ OneAtATime /\ NoIdleQueue /\ NoDuplicateWork /\ AbortedIsCancelled
    /\ Unused /\ WaitsUnaborted

(* What a step may make of one job when it starts none: nothing, the end   *)
(* of a waiting job, the abort of a computing one, or a slot given up.     *)
Settled(old, new) ==
    \/ new = old
    \/ old.status = "QUEUED" /\ \E status \in {"CANCELLED", "EXPIRED"} : new = Ended(old, status)
    \/ old.status = "COMPUTING" /\ new = Aborted(old)
    \/ old.status \in Final /\ new = Absent

LEMMA SettledFacts ==
    ASSUME TypeOK, NEW old \in Jobs, NEW new, Settled(old, new)
    PROVE  /\ new.status = "COMPUTING" <=> old.status = "COMPUTING"
           /\ new.status = "QUEUED" => new = old
           /\ new.status \in Resumable => old.status \in Resumable /\ new.work = old.work
           /\ new.status \in Final /\ new.aborted
                => \/ new = old
                   \/ old.status = "QUEUED" /\ old.aborted
           /\ old = Absent => new = old
<1>. USE DEF Jobs, Ended, Aborted, Absent, Final, Pending, Resumable
<1>1. CASE new = old
  BY <1>1
<1>2. CASE old.status = "QUEUED"
           /\ \E status \in {"CANCELLED", "EXPIRED"} : new = Ended(old, status)
  <2>1. PICK status \in {"CANCELLED", "EXPIRED"} : new = Ended(old, status)
    BY <1>2
  <2>2. /\ new.status = status /\ new.work = old.work /\ new.aborted = old.aborted
    BY <2>1
  <2>. QED
    BY <1>2, <2>2
<1>3. CASE old.status = "COMPUTING" /\ new = Aborted(old)
  BY <1>3
<1>4. CASE old.status \in Final /\ new = Absent
  BY <1>4
<1>. QED
  BY <1>1, <1>2, <1>3, <1>4 DEF Settled

(* Steps that neither start nor end a search. *)
LEMMA QuietJobs ==
    ASSUME CompanionInv, jobs' \in Table, running' = running, issued' = issued,
           TypeOK', \A j \in Slots : Settled(jobs[j], jobs'[j])
    PROVE  CompanionInv'
<1>1. \A j \in Slots : jobs[j] \in Jobs
  BY DEF CompanionInv, TypeOK
<1>2. ASSUME NEW j \in Slots
      PROVE  /\ jobs'[j].status = "COMPUTING" <=> jobs[j].status = "COMPUTING"
             /\ jobs'[j].status = "QUEUED" => jobs'[j] = jobs[j]
             /\ jobs'[j].status \in Resumable
                  => jobs[j].status \in Resumable /\ jobs'[j].work = jobs[j].work
             /\ jobs'[j].status \in Final /\ jobs'[j].aborted
                  => \/ jobs'[j] = jobs[j]
                     \/ jobs[j].status = "QUEUED" /\ jobs[j].aborted
             /\ jobs[j] = Absent => jobs'[j] = jobs[j]
  BY <1>1, SettledFacts DEF CompanionInv
<1>3. OneAtATime' /\ NoIdleQueue'
  BY <1>2 DEF CompanionInv, OneAtATime, NoIdleQueue, WithStatus
<1>4. NoDuplicateWork'
  BY <1>2 DEF CompanionInv, NoDuplicateWork, WithStatus
<1>5. AbortedIsCancelled'
  BY <1>2 DEF CompanionInv, AbortedIsCancelled, WaitsUnaborted, WithStatus
<1>6. Unused' /\ WaitsUnaborted'
  BY <1>2 DEF CompanionInv, Unused, WaitsUnaborted
<1>. QED
  BY <1>3, <1>4, <1>5, <1>6 DEF CompanionInv

(* The table pump works on, before it starts a job: as the invariants say, *)
(* except that the queue may be waiting.                                   *)
Ready(js, busy) ==
    /\ \A j \in Slots : js[j].status = "COMPUTING" <=> j = busy /\ busy # 0
    /\ \A j, k \in WithStatus(js, Resumable) : js[j].work = js[k].work => j = k
    /\ \A j \in WithStatus(js, Final) :
          js[j].aborted => js[j].status \in {"CANCELLED", "SOLUTION_FOUND"}
    /\ \A j \in Slots : js[j].status = "QUEUED" => ~js[j].aborted

LEMMA PumpStep ==
    ASSUME TypeOK, NEW js \in Table, NEW busy \in 0..MaxJobs, Ready(js, busy),
           Pump(js, busy), TypeOK',
           \A j \in Slots : j > issued' => js[j] = Absent
    PROVE  CompanionInv'
<1>1. /\ jobs' \in Table /\ running' \in 0..MaxJobs
      /\ \A j \in Slots :
            \/ jobs'[j] = js[j]
            \/ js[j].status = "QUEUED" /\ jobs'[j] = Ended(js[j], "EXPIRED")
            \/ js[j].status = "QUEUED" /\ jobs'[j] = Computing(js[j])
               /\ busy = 0 /\ j = running'
      /\ busy # 0 => running' = busy /\ jobs' = js
      /\ busy = 0 /\ running' = 0 => \A j \in Slots : jobs'[j].status # "QUEUED"
      /\ busy = 0 /\ running' # 0
           => /\ jobs'[running'].status = "COMPUTING"
              /\ \A k \in Slots : k < running' => jobs'[k].status # "QUEUED"
  BY PumpEffect
<1>2. \A j \in Slots : js[j] \in Jobs
  BY DEF Table
<1>3. ASSUME NEW j \in Slots
      PROVE  \/ jobs'[j] = js[j]
             \/ /\ js[j].status = "QUEUED" /\ jobs'[j].status = "EXPIRED"
                /\ jobs'[j].work = js[j].work /\ jobs'[j].aborted = js[j].aborted
             \/ /\ js[j].status = "QUEUED" /\ jobs'[j].status = "COMPUTING"
                /\ jobs'[j].work = js[j].work /\ jobs'[j].aborted = js[j].aborted
                /\ busy = 0 /\ j = running'
  <2>1. CASE jobs'[j] = js[j]
    BY <2>1
  <2>2. CASE js[j].status = "QUEUED" /\ jobs'[j] = Ended(js[j], "EXPIRED")
    BY <1>2, <2>2 DEF Ended, Jobs
  <2>3. CASE js[j].status = "QUEUED" /\ jobs'[j] = Computing(js[j]) /\ busy = 0 /\ j = running'
    BY <1>2, <2>3 DEF Computing, Jobs
  <2>. QED
    BY <1>1, <2>1, <2>2, <2>3
<1>4. OneAtATime'
  <2>1. CASE busy # 0
    BY <1>1, <2>1 DEF OneAtATime, Ready
  <2>2. CASE busy = 0
    <3>. SUFFICES ASSUME NEW j \in Slots
                  PROVE  jobs'[j].status = "COMPUTING" <=> j = running' /\ running' # 0
      BY DEF OneAtATime
    <3>1. js[j].status # "COMPUTING"
      BY <2>2 DEF Ready
    <3>2. j # 0
      BY DEF Slots
    <3>. QED
      BY <1>1, <1>3, <2>2, <3>1, <3>2
  <2>. QED
    BY <2>1, <2>2
<1>5. NoIdleQueue'
  BY <1>1 DEF NoIdleQueue, WithStatus
<1>6. NoDuplicateWork'
  <2>1. \A j \in Slots : jobs'[j].status \in Resumable
           => js[j].status \in Resumable /\ jobs'[j].work = js[j].work
    BY <1>3 DEF Resumable, Pending
  <2>. QED
    BY <2>1 DEF NoDuplicateWork, WithStatus, Ready
<1>7. AbortedIsCancelled'
  BY <1>3 DEF AbortedIsCancelled, WithStatus, Ready, Final
<1>8. Unused' /\ WaitsUnaborted'
  <2>1. Absent.status = "ABSENT"
    BY DEF Absent
  <2>. QED
    BY <1>3, <2>1 DEF Unused, WaitsUnaborted, Ready
<1>. QED
  BY <1>4, <1>5, <1>6, <1>7, <1>8 DEF CompanionInv

LEMMA PumpTypes ==
    ASSUME TypeOK, NEW js \in Table, NEW busy \in 0..MaxJobs, Pump(js, busy),
           issued' \in 0..MaxJobs, page' \in [Pages -> Requests \cup {None}],
           now' = now, server' = server
    PROVE  TypeOK'
BY PumpEffect DEF TypeOK, Table

LEMMA PruneStep ==
    ASSUME CompanionAssumption, CompanionInv, jobs' = Prune, NEW p \in Pages, Answer(p),
           UNCHANGED <<issued, running, now, server>>
    PROVE  CompanionInv'
<1>1. TypeOK
  BY DEF CompanionInv
<1>2. /\ jobs' \in Table
      /\ \A j \in Slots : Settled(jobs[j], jobs'[j])
  BY <1>1, PruneEffect DEF Settled
<1>3. TypeOK'
  BY <1>1, <1>2 DEF TypeOK, Table, Answer
<1>. QED
  BY <1>2, <1>3, QuietJobs

LEMMA CancelStep ==
    ASSUME CompanionInv, NEW js, jobs' = CancelJobs(js),
           UNCHANGED <<issued, running, now, page>>,
           server' \in {"serving", "closing", "closed"}
    PROVE  CompanionInv'
<1>1. TypeOK
  BY DEF CompanionInv
<1>2. /\ jobs' \in Table
      /\ \A j \in Slots : Settled(jobs[j], jobs'[j])
  BY <1>1, CancelEffect DEF Settled
<1>3. TypeOK'
  BY <1>1, <1>2 DEF TypeOK, Table
<1>. QED
  BY <1>2, <1>3, QuietJobs

(* The new job's work is on no job that can be resumed, and its slot is    *)
(* the first that nobody has used.                                         *)
LEMMA EnqueueStep ==
    ASSUME CompanionAssumption, CompanionInv, NEW p \in Pages, Enqueue(p)
    PROVE  CompanionInv'
<1>. DEFINE js == [Prune EXCEPT ![issued + 1] = Queued(page[p].work, page[p].expiresAt)]
<1>1. TypeOK
  BY DEF CompanionInv
<1>2. issued + 1 \in Slots /\ issued' = issued + 1 /\ Pump(js, running)
      /\ now' = now /\ server' = server /\ running \in 0..MaxJobs
  BY <1>1 DEF Enqueue, TypeOK, Slots, CompanionAssumption
<1>3. Queued(page[p].work, page[p].expiresAt) \in Jobs
  <2>1. page[p] \in Requests
    BY <1>1 DEF Enqueue, Accepted, Idle, TypeOK
  <2>. QED
    BY <1>1, <2>1 DEF Requests, Queued, Jobs, Pending, TypeOK, CompanionAssumption
<1>4. PICK first \in Slots : first = issued + 1
  BY <1>2
<1>5. jobs[first] = Absent /\ jobs[first].status = "ABSENT"
  <2>1. first > issued
    BY <1>1, <1>4 DEF TypeOK
  <2>2. jobs[first] = Absent
    BY <2>1 DEF CompanionInv, Unused
  <2>. QED
    BY <2>2 DEF Absent
<1>6. /\ js \in Table
      /\ js[first] = Queued(page[p].work, page[p].expiresAt)
      /\ \A j \in Slots : j # first => js[j] = Prune[j]
  BY <1>1, <1>3, <1>4, PruneEffect DEF Table
<1>7. /\ js[first].status = "QUEUED" /\ ~js[first].aborted /\ js[first].work = page[p].work
  BY <1>6 DEF Queued
<1>. HIDE DEF js
<1>8. \A j \in Slots : /\ jobs[j] \in Jobs
                       /\ Prune[j] = jobs[j] \/ (Prune[j].status = "ABSENT"
                                                 /\ jobs[j].status \in Final)
  BY <1>1, PruneEffect DEF TypeOK, Absent
<1>9. Ready(js, running)
  <2>1. \A j \in Slots : js[j].status = "COMPUTING" <=> j = running /\ running # 0
    <3>1. first # running \/ running = 0
      BY <1>5 DEF CompanionInv, OneAtATime
    <3>. QED
      BY <1>6, <1>7, <1>8, <3>1 DEF CompanionInv, OneAtATime, Final
  <2>2. \A j \in Slots : j # first /\ js[j].status \in Resumable
           => js[j].work # page[p].work /\ js[j] = jobs[j]
    <3>. SUFFICES ASSUME NEW j \in Slots, j # first, js[j].status \in Resumable
                  PROVE  js[j].work # page[p].work /\ js[j] = jobs[j]
      OBVIOUS
    <3>1. js[j] = Prune[j] /\ Prune[j] = jobs[j]
      BY <1>6, <1>8 DEF Resumable, Pending
    <3>2. j \notin Same(p)
      BY DEF Enqueue
    <3>. QED
      BY <3>1, <3>2 DEF Same, WithStatus
  <2>3. \A j, k \in WithStatus(js, Resumable) : js[j].work = js[k].work => j = k
    BY <1>7, <2>2 DEF CompanionInv, NoDuplicateWork, WithStatus
  <2>4. \A j \in WithStatus(js, Final) :
           js[j].aborted => js[j].status \in {"CANCELLED", "SOLUTION_FOUND"}
    BY <1>6, <1>7, <1>8 DEF CompanionInv, AbortedIsCancelled, WithStatus, Final
  <2>5. \A j \in Slots : js[j].status = "QUEUED" => ~js[j].aborted
    BY <1>6, <1>7, <1>8 DEF CompanionInv, WaitsUnaborted
  <2>. QED
    BY <2>1, <2>3, <2>4, <2>5 DEF Ready
<1>10. \A j \in Slots : j > issued' => js[j] = Absent
  <2>. SUFFICES ASSUME NEW j \in Slots, j > issued' PROVE js[j] = Absent
    OBVIOUS
  <2>1. j # first /\ j > issued
    BY <1>1, <1>2, <1>4 DEF TypeOK, Slots
  <2>2. jobs[j] = Absent
    BY <2>1 DEF CompanionInv, Unused
  <2>. QED
    BY <1>1, <1>6, <2>1, <2>2, PruneEffect
<1>11. TypeOK'
  <2>1. issued' \in 0..MaxJobs
    BY <1>2, <1>1 DEF Slots, TypeOK, CompanionAssumption
  <2>2. page' \in [Pages -> Requests \cup {None}]
    BY <1>1 DEF Enqueue, Answer, TypeOK
  <2>. QED
    BY <1>1, <1>2, <1>6, <2>1, <2>2, PumpTypes
<1>. QED
  BY <1>1, <1>2, <1>6, <1>9, <1>10, <1>11, PumpStep

LEMMA SettleStep ==
    ASSUME CompanionAssumption, CompanionInv, NEW status \in Final, Settle(status)
    PROVE  CompanionInv'
<1>. DEFINE js == Finish(jobs, {running}, status)
<1>1. TypeOK /\ jobs \in Table /\ running \in Slots
  BY DEF CompanionInv, TypeOK, Table, Slots, Settle
<1>2. /\ js \in Table /\ Pump(js, 0) /\ 0 \in 0..MaxJobs
      /\ \A j \in Slots : js[j] = IF j = running THEN Ended(jobs[j], status) ELSE jobs[j]
  BY <1>1, FinishEffect DEF Settle, CompanionAssumption
<1>3. /\ jobs[running] \in Jobs /\ jobs[running].status = "COMPUTING"
      /\ js[running].status = status /\ js[running].work = jobs[running].work
      /\ js[running].aborted = jobs[running].aborted
      /\ jobs[running].aborted => status \in {"SOLUTION_FOUND", "CANCELLED"}
  <2>1. jobs[running] \in Jobs /\ jobs[running].status = "COMPUTING"
    BY <1>1 DEF Table, CompanionInv, OneAtATime, Settle
  <2>2. jobs[running].aborted => status \in {"SOLUTION_FOUND", "CANCELLED"}
    BY DEF Settle
  <2>. QED
    BY <1>1, <1>2, <2>1, <2>2 DEF Ended, Jobs
<1>4. \A j \in Slots : j # running => js[j] = jobs[j]
  BY <1>2
<1>. HIDE DEF js
<1>5. Ready(js, 0)
  <2>1. \A j \in Slots : js[j].status # "COMPUTING"
    BY <1>3, <1>4 DEF CompanionInv, OneAtATime, Final
  <2>2. \A j \in Slots : js[j].work = jobs[j].work
                         /\ (js[j].status \in Resumable => jobs[j].status \in Resumable)
    BY <1>3, <1>4 DEF Resumable, Pending
  <2>3. \A j, k \in WithStatus(js, Resumable) : js[j].work = js[k].work => j = k
    BY <2>2 DEF CompanionInv, NoDuplicateWork, WithStatus
  <2>4. \A j \in WithStatus(js, Final) :
           js[j].aborted => js[j].status \in {"CANCELLED", "SOLUTION_FOUND"}
    BY <1>3, <1>4 DEF CompanionInv, AbortedIsCancelled, WithStatus
  <2>5. \A j \in Slots : js[j].status = "QUEUED" => ~js[j].aborted
    BY <1>3, <1>4 DEF CompanionInv, WaitsUnaborted, Final
  <2>. QED
    BY <2>1, <2>3, <2>4, <2>5 DEF Ready
<1>6. \A j \in Slots : j > issued' => js[j] = Absent
  <2>1. issued' = issued
    BY DEF Settle
  <2>2. jobs[running] # Absent
    BY <1>3 DEF Absent
  <2>. QED
    BY <1>1, <1>4, <2>1, <2>2 DEF CompanionInv, Unused
<1>7. TypeOK'
  <2>1. /\ issued' \in 0..MaxJobs /\ page' \in [Pages -> Requests \cup {None}]
        /\ now' = now /\ server' = server
    BY <1>1 DEF Settle, TypeOK
  <2>. QED
    BY <1>1, <1>2, <2>1, PumpTypes
<1>. QED
  BY <1>1, <1>2, <1>5, <1>6, <1>7, PumpStep

LEMMA OtherStep ==
    ASSUME CompanionInv, UNCHANGED <<jobs, issued, running>>, TypeOK'
    PROVE  CompanionInv'
BY DEF CompanionInv, OneAtATime, NoIdleQueue, NoDuplicateWork, AbortedIsCancelled, Unused,
   WaitsUnaborted, WithStatus

LEMMA CompanionStep ==
    ASSUME CompanionAssumption, CompanionInv, [Next]_vars
    PROVE  CompanionInv'
<1>1. TypeOK
  BY DEF CompanionInv
<1>2. ASSUME NEW p \in Pages, NEW w \in Works, NEW e \in Expiries, Post(p, w, e)
      PROVE  CompanionInv'
  <2>1. TypeOK'
    BY <1>1, <1>2 DEF Post, TypeOK, Requests
  <2>. QED
    BY <1>2, <2>1, OtherStep DEF Post
<1>3. ASSUME NEW p \in Pages, Served(p)
      PROVE  CompanionInv'
  <2>1. CASE Refuse(p)
    <3>1. TypeOK'
      BY <1>1, <2>1 DEF Refuse, Answer, TypeOK
    <3>. QED
      BY <2>1, <3>1, OtherStep DEF Refuse
  <2>2. CASE Resume(p) \/ TooMany(p)
    BY <2>2, PruneStep DEF Resume, TooMany
  <2>3. CASE Enqueue(p)
    BY <2>3, EnqueueStep
  <2>. QED
    BY <1>3, <2>1, <2>2, <2>3 DEF Served
<1>4. ASSUME NEW j \in Slots, Cancel(j)
      PROVE  CompanionInv'
  BY <1>1, <1>4, CancelStep DEF Cancel, TypeOK
<1>5. CASE Mined
  BY <1>5, SettleStep DEF Mined
<1>6. CASE Tick
  <2>1. TypeOK'
    BY <1>1, <1>6 DEF Tick, TypeOK, CompanionAssumption
  <2>. QED
    BY <1>6, <2>1, OtherStep DEF Tick
<1>7. CASE Stop
  BY <1>7, CancelStep DEF Stop
<1>8. CASE Close
  <2>1. TypeOK'
    BY <1>1, <1>8 DEF Close, TypeOK
  <2>. QED
    BY <1>8, <2>1, OtherStep DEF Close
<1>9. CASE UNCHANGED vars
  <2>1. TypeOK'
    BY <1>1, <1>9 DEF vars, TypeOK
  <2>. QED
    BY <1>9, <2>1, OtherStep DEF vars
<1>. QED
  BY <1>2, <1>3, <1>4, <1>5, <1>6, <1>7, <1>8, <1>9 DEF Next

LEMMA CompanionInit == ASSUME CompanionAssumption, Init PROVE CompanionInv
<1>1. Absent.status = "ABSENT" /\ ~Absent.aborted
  BY DEF Absent
<1>2. TypeOK
  BY AbsentJob DEF Init, TypeOK, CompanionAssumption
<1>. QED
  BY <1>1, <1>2 DEF Init, CompanionInv, OneAtATime, NoIdleQueue, NoDuplicateWork,
     AbortedIsCancelled, Unused, WaitsUnaborted, WithStatus, Resumable, Pending, Final, Slots

(* What no page, body, search or moment breaks in the companion's jobs:    *)
(* the jobs have their types, one mines, none waits beside a free miner,   *)
(* and a free place of the table is empty (submit, cancel, pump;           *)
(* companion.ts).                                                          *)
THEOREM CompanionInvHolds == Spec => []CompanionInv
<1>1. Init => CompanionInv
  BY CompanionInit, CompanionAssumption
<1>2. CompanionInv /\ [Next]_vars => CompanionInv'
  BY CompanionStep, CompanionAssumption
<1>. QED
  BY <1>1, <1>2, PTL DEF Spec

(* Jobs, the clock, the pages and the server keep their types. *)
THEOREM TypeCorrect == Spec => []TypeOK
<1>1. CompanionInv => TypeOK
  BY DEF CompanionInv
<1>. QED
  BY <1>1, CompanionInvHolds, PTL

(* The miner works on the one job that pump waits for, however many pages  *)
(* post and cancel meanwhile.                                              *)
THEOREM OneJobAtATime == Spec => []OneAtATime
<1>1. CompanionInv => OneAtATime
  BY DEF CompanionInv
<1>. QED
  BY <1>1, CompanionInvHolds, PTL

(* No job waits for a free miner: pump is called wherever one could.       *)
THEOREM QueueMovesOn == Spec => []NoIdleQueue
<1>1. CompanionInv => NoIdleQueue
  BY DEF CompanionInv
<1>. QED
  BY <1>1, CompanionInvHolds, PTL

(* Identical work is joined, never searched for twice.                     *)
THEOREM WorkIsJoined == Spec => []NoDuplicateWork
<1>1. CompanionInv => NoDuplicateWork
  BY DEF CompanionInv
<1>. QED
  BY <1>1, CompanionInvHolds, PTL

(* A cancelled job is never told as expired or failed.                     *)
THEOREM CancelIsTold == Spec => []AbortedIsCancelled
<1>1. CompanionInv => AbortedIsCancelled
  BY DEF CompanionInv
<1>. QED
  BY <1>1, CompanionInvHolds, PTL

------------------------------------------------------------------------------
(* Action properties.  Only pump starts a job, and only ends of waiting or *)
(* computing jobs and forgotten ones are written otherwise.                *)

InOrder ==
    \A j, k \in Slots :
        /\ jobs[j].status # "COMPUTING" /\ jobs'[j].status = "COMPUTING"
        /\ k < j
        => jobs'[k].status # "QUEUED"

Stays ==
    \A j \in WithStatus(jobs, Final) :
        \/ jobs'[j] = jobs[j]
        \/ jobs'[j] = Absent /\ jobs[j].finishedAt + Retention < now

LEMMA SettledInOrder ==
    ASSUME CompanionInv, \A j \in Slots : Settled(jobs[j], jobs'[j])
    PROVE  InOrder
<1>1. \A j \in Slots : jobs[j] \in Jobs
  BY DEF CompanionInv, TypeOK
<1>2. \A j \in Slots : jobs'[j].status = "COMPUTING" <=> jobs[j].status = "COMPUTING"
  BY <1>1, SettledFacts DEF CompanionInv
<1>. QED
  BY <1>2 DEF InOrder

(* A job pump starts was the first in the queue that still had time. *)
LEMMA PumpInOrder ==
    ASSUME TypeOK, NEW js \in Table, NEW busy \in 0..MaxJobs, Pump(js, busy),
           \A j \in Slots : js[j].status = "COMPUTING" => jobs[j].status = "COMPUTING",
           \A j \in Slots : jobs[j].status \in Final => js[j].status \notin {"QUEUED"}
    PROVE  /\ InOrder
           /\ \A j \in Slots : js[j].status \notin {"QUEUED"} => jobs'[j] = js[j]
<1>1. \A j \in Slots : js[j] \in Jobs
  BY DEF Table
<1>2. /\ \A j \in Slots :
            \/ jobs'[j] = js[j]
            \/ js[j].status = "QUEUED" /\ jobs'[j] = Ended(js[j], "EXPIRED")
            \/ js[j].status = "QUEUED" /\ jobs'[j] = Computing(js[j])
               /\ busy = 0 /\ j = running'
      /\ busy # 0 => running' = busy /\ jobs' = js
      /\ busy = 0 /\ running' # 0
           => /\ jobs'[running'].status = "COMPUTING"
              /\ \A k \in Slots : k < running' => jobs'[k].status # "QUEUED"
  BY PumpEffect
<1>3. InOrder
  <2>. SUFFICES ASSUME NEW j \in Slots, NEW k \in Slots, k < j,
                       jobs[j].status # "COMPUTING", jobs'[j].status = "COMPUTING"
                PROVE  jobs'[k].status # "QUEUED"
    BY DEF InOrder
  <2>1. Ended(js[j], "EXPIRED").status = "EXPIRED"
    BY <1>1 DEF Ended, Jobs
  <2>2. busy = 0 /\ j = running' /\ j # 0
    BY <1>2, <2>1 DEF Slots
  <2>. QED
    BY <1>2, <2>2
<1>. QED
  BY <1>2, <1>3

LEMMA StepsKeep ==
    ASSUME CompanionAssumption, CompanionInv, Next
    PROVE  InOrder /\ Stays
<1>1. TypeOK /\ \A j \in Slots : jobs[j] \in Jobs
  BY DEF CompanionInv, TypeOK
<1>2. ASSUME jobs' = jobs
      PROVE  InOrder /\ Stays
  BY <1>2 DEF InOrder, Stays
<1>3. ASSUME NEW p \in Pages, Resume(p) \/ TooMany(p)
      PROVE  InOrder /\ Stays
  <2>1. jobs' = Prune
    BY <1>3 DEF Resume, TooMany
  <2>2. \A j \in Slots : Settled(jobs[j], jobs'[j])
    BY <1>1, <2>1, PruneEffect DEF Settled
  <2>. QED
    BY <1>1, <2>1, <2>2, SettledInOrder, PruneEffect DEF Stays, WithStatus
<1>4. ASSUME NEW js, jobs' = CancelJobs(js)
      PROVE  InOrder /\ Stays
  <2>1. \A j \in Slots : Settled(jobs[j], jobs'[j])
    BY <1>1, <1>4, CancelEffect DEF Settled
  <2>2. Stays
    BY <1>1, <1>4, CancelEffect DEF Stays, WithStatus, Final
  <2>. QED
    BY <2>1, <2>2, SettledInOrder
<1>5. ASSUME NEW p \in Pages, Enqueue(p)
      PROVE  InOrder /\ Stays
  <2>. DEFINE js == [Prune EXCEPT ![issued + 1] = Queued(page[p].work, page[p].expiresAt)]
  <2>1. issued + 1 \in Slots /\ Pump(js, running) /\ running \in 0..MaxJobs
    BY <1>1, <1>5 DEF Enqueue, TypeOK, Slots, CompanionAssumption
  <2>2. Queued(page[p].work, page[p].expiresAt) \in Jobs
    <3>1. page[p] \in Requests
      BY <1>1, <1>5 DEF Enqueue, Accepted, Idle, TypeOK
    <3>. QED
      BY <1>1, <3>1 DEF Requests, Queued, Jobs, Pending, TypeOK, CompanionAssumption
  <2>3. PICK first \in Slots : first = issued + 1
    BY <2>1
  <2>4. jobs[first].status = "ABSENT"
    BY <1>1, <2>3 DEF CompanionInv, Unused, Absent, TypeOK
  <2>5. /\ js \in Table /\ js[first].status = "QUEUED"
        /\ \A j \in Slots : j # first => js[j] = Prune[j]
    BY <1>1, <2>2, <2>3, PruneEffect DEF Table, Queued
  <2>. HIDE DEF js
  <2>6. \A j \in Slots : \/ Prune[j] = jobs[j]
                         \/ Prune[j] = Absent /\ Prune[j].status = "ABSENT"
                            /\ jobs[j].status \in Final
                            /\ jobs[j].finishedAt + Retention < now
    <3>1. Absent.status = "ABSENT"
      BY DEF Absent
    <3>. QED
      BY <1>1, <3>1, PruneEffect
  <2>7. /\ \A j \in Slots : js[j].status = "COMPUTING" => jobs[j].status = "COMPUTING"
        /\ \A j \in Slots : jobs[j].status \in Final => js[j].status \notin {"QUEUED"}
    BY <2>4, <2>5, <2>6 DEF Final
  <2>8. /\ InOrder
        /\ \A j \in Slots : js[j].status \notin {"QUEUED"} => jobs'[j] = js[j]
    BY <1>1, <2>1, <2>5, <2>7, PumpInOrder
  <2>9. Stays
    BY <2>4, <2>5, <2>6, <2>7, <2>8 DEF Stays, WithStatus, Final
  <2>. QED
    BY <2>8, <2>9
<1>6. ASSUME NEW status \in Final, Settle(status)
      PROVE  InOrder /\ Stays
  <2>. DEFINE js == Finish(jobs, {running}, status)
  <2>1. jobs \in Table /\ running \in Slots
    BY <1>1, <1>6 DEF TypeOK, Table, Slots, Settle
  <2>2. /\ js \in Table /\ Pump(js, 0) /\ 0 \in 0..MaxJobs
        /\ \A j \in Slots : js[j] = IF j = running THEN Ended(jobs[j], status) ELSE jobs[j]
    BY <1>1, <1>6, <2>1, FinishEffect DEF Settle, CompanionAssumption
  <2>3. jobs[running].status = "COMPUTING" /\ js[running].status = status
    BY <1>1, <1>6, <2>1, <2>2 DEF CompanionInv, OneAtATime, Settle, Ended, Jobs
  <2>. HIDE DEF js
  <2>4. /\ \A j \in Slots : js[j].status = "COMPUTING" => jobs[j].status = "COMPUTING"
        /\ \A j \in Slots : jobs[j].status \in Final => js[j].status \notin {"QUEUED"}
    BY <2>2, <2>3 DEF Final
  <2>5. /\ InOrder
        /\ \A j \in Slots : js[j].status \notin {"QUEUED"} => jobs'[j] = js[j]
    BY <1>1, <2>2, <2>4, PumpInOrder
  <2>6. Stays
    BY <2>2, <2>3, <2>4, <2>5 DEF Stays, WithStatus, Final
  <2>. QED
    BY <2>5, <2>6
<1>. QED
  BY <1>2, <1>3, <1>4, <1>5, <1>6 DEF Next, Served, Post, Refuse, Cancel, Mined, Tick, Stop,
     Close

(* The queue is first come, first served: pump never starts a job while an *)
(* earlier one still waits.                                                *)
THEOREM FirstComeFirstServed == Spec => StartsInOrder
<1>1. CompanionInv /\ [Next]_vars => [InOrder]_vars
  BY StepsKeep, CompanionAssumption
<1>. QED
  BY <1>1, CompanionInvHolds, PTL DEF Spec, StartsInOrder, InOrder

(* What a page was told of an ended job is never taken back, and the job   *)
(* is remembered for the retention time.                                   *)
THEOREM EndedStaysEnded == Spec => FinalIsFinal
<1>1. CompanionInv /\ [Next]_vars => [Stays]_vars
  BY StepsKeep, CompanionAssumption
<1>. QED
  BY <1>1, CompanionInvHolds, PTL DEF Spec, FinalIsFinal, Stays
==============================================================================
