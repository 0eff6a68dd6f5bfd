---------------------------- MODULE WorkersProofs ----------------------------
(***************************************************************************)
(* Proofs about Workers, for every set of objects and slots, every size    *)
(* and every number of faults.                                             *)
(***************************************************************************)
EXTENDS Workers, FiniteSetTheorems, TLAPS

(* A job that was never attempted is available, waits for those before it,   *)
(* and the job in the worker's hands is of the kind its step is about.       *)
QueueInv ==
  /\ \A k \in DOMAIN queue :
       /\ queue[k].kind = "job" => queue[k].object \in Objects
       /\ ~ queue[k].attempted => queue[k].state = "available"
       /\ k <= queue[k].after + 1
  /\ pc # "idle" => queue[cur].attempted
  /\ pc \in {"match", "reserve", "release", "reject"} => queue[cur].kind = "job"
  /\ pc \in {"reserve", "release"} => resp.id \in Id

(* The job that clears reservations is the last of its batch, and of those   *)
(* before.                                                                   *)
BatchInv ==
  \A k \in DOMAIN queue :
    /\ queue[k].batch < Len(queue)
    /\ queue[k].kind = "reservation" =>
         \A j \in DOMAIN queue : queue[j].batch <= queue[k].batch => j <= k

OrderInv == BatchInv /\ ClearRunsLast

(* The queue keeps its jobs, and an attempted job stays attempted. *)
QueueKept ==
  /\ DOMAIN queue \subseteq DOMAIN queue'
  /\ \A k \in DOMAIN queue :
       /\ queue'[k].kind = queue[k].kind
       /\ queue'[k].object = queue[k].object
       /\ queue'[k].batch = queue[k].batch
       /\ queue[k].attempted => queue'[k].attempted

WorkerType ==
  /\ queue \in Seq(QueueJob)
  /\ pc \in {"idle", "match", "reserve", "release", "reject", "clear"}
  /\ cur \in 0 .. Len(queue) /\ (pc # "idle" => cur # 0)
  /\ resp \in Label

-----------------------------------------------------------------------------
LEMMA UnlabelledType == Unlabelled \in Label
BY DEF Unlabelled, Label

LEMMA InitInv == Init => TypeOK /\ QueueInv /\ OrderInv
<1> SUFFICES ASSUME Init PROVE TypeOK /\ QueueInv /\ OrderInv
  OBVIOUS
<1>1. 0 \in Id
  BY ConstantsAssumption DEF Id
<1>2. TypeOK
  BY <1>1, UnlabelledType DEF Init, TypeOK
<1> QED
  BY <1>2 DEF Init, QueueInv, OrderInv, BatchInv, ClearRunsLast

(* An update of the job in hand. *)
LEMMA UpdateCur ==
  ASSUME WorkerType, QueueInv, pc # "idle",
         NEW job \in QueueJob, queue' = [queue EXCEPT ![cur] = job],
         job.kind = queue[cur].kind, job.object = queue[cur].object,
         job.batch = queue[cur].batch, job.attempted, cur <= job.after + 1,
         pc' = "idle", cur' = 0, resp' = Unlabelled
  PROVE  WorkerType' /\ QueueInv' /\ QueueKept
<1>1. cur \in DOMAIN queue
  BY DEF WorkerType
<1>2. queue' \in Seq(QueueJob) /\ DOMAIN queue' = DOMAIN queue /\ Len(queue') = Len(queue)
  BY <1>1 DEF WorkerType
<1>3. WorkerType'
  BY <1>2, UnlabelledType DEF WorkerType
<1>4. \A k \in DOMAIN queue : queue'[k] = IF k = cur THEN job ELSE queue[k]
  BY <1>1 DEF WorkerType
<1>5. \A k \in DOMAIN queue : k \in Nat /\ queue[k].after \in Nat
  <2>1. \A k \in DOMAIN queue : k \in Nat /\ queue[k] \in QueueJob
    BY DEF WorkerType
  <2> QED
    BY <2>1 DEF QueueJob
<1>6. job.after \in Nat
  BY DEF QueueJob
<1>7. QueueInv'
  BY <1>1, <1>2, <1>4, <1>5, <1>6 DEF QueueInv
<1> QED
  BY <1>1, <1>2, <1>3, <1>4, <1>7 DEF QueueKept, QueueInv

LEMMA FinishKeeps ==
  ASSUME WorkerType, QueueInv, pc # "idle",
         NEW state \in {"completed", "cancelled"}, Finish(state)
  PROVE  WorkerType' /\ QueueInv' /\ QueueKept
<1>1. cur \in DOMAIN queue /\ queue[cur] \in QueueJob
  BY DEF WorkerType
<1> DEFINE job == [queue[cur] EXCEPT !.state = state]
<1>2. job \in QueueJob /\ job.kind = queue[cur].kind /\ job.object = queue[cur].object
      /\ job.attempted = queue[cur].attempted /\ job.after = queue[cur].after
      /\ job.batch = queue[cur].batch
  BY <1>1 DEF QueueJob
<1>3. queue' = [queue EXCEPT ![cur] = job]
  BY DEF Finish
<1>4. job.attempted /\ cur <= job.after + 1
  BY <1>1, <1>2 DEF QueueInv, QueueJob
<1> HIDE DEF job
<1> QED
  BY <1>2, <1>3, <1>4, UpdateCur, Zenon DEF Finish

LEMMA RetryKeeps ==
  ASSUME WorkerType, QueueInv, pc # "idle", Retry
  PROVE  WorkerType' /\ QueueInv' /\ QueueKept
<1>1. cur \in DOMAIN queue /\ queue[cur] \in QueueJob /\ Len(queue) \in Nat
  BY DEF WorkerType
<1> DEFINE job == [queue[cur] EXCEPT !.state = "available", !.after = Len(queue)]
<1>2. job \in QueueJob /\ job.kind = queue[cur].kind /\ job.object = queue[cur].object
      /\ job.attempted = queue[cur].attempted /\ job.after = Len(queue)
      /\ job.batch = queue[cur].batch
      /\ job.state = "available"
  BY <1>1, Zenon DEF QueueJob
<1>3. queue' = [queue EXCEPT ![cur] = job]
  BY Zenon DEF Retry
<1>4. job.attempted /\ cur <= job.after + 1
  BY <1>1, <1>2 DEF QueueInv, WorkerType
<1> HIDE DEF job
<1> QED
  BY <1>2, <1>3, <1>4, UpdateCur, Zenon DEF Retry

-----------------------------------------------------------------------------
(* The jobs that InsertMany appends. *)
LEMMA EntryType ==
  ASSUME NEW o \in Objects, NEW i \in Nat \ {0}, Len(queue) \in Nat
  PROVE  Entry(o, i) \in QueueJob /\ ClearEntry(i) \in QueueJob
BY DEF Entry, ClearEntry, QueueJob

LEMMA ClearEntryType ==
  ASSUME NEW i \in Nat \ {0}, Len(queue) \in Nat
  PROVE  /\ ClearEntry(i) \in QueueJob
         /\ ClearEntry(i).kind = "reservation" /\ ClearEntry(i).state = "available"
         /\ ClearEntry(i).after = i - 1 /\ ClearEntry(i).batch = Len(queue)
<1>1. i - 1 \in Nat
  OBVIOUS
<1> QED
  BY <1>1 DEF ClearEntry, QueueJob

LEMMA BatchType ==
  ASSUME NEW batch \in SetOfBatches
  PROVE  batch \in Seq(Objects)
<1>1. PICK n \in 1 .. Cardinality(Objects) : batch \in [1 .. n -> Objects]
  BY DEF SetOfBatches
<1>2. n \in Nat
  OBVIOUS
<1> QED
  BY <1>1, <1>2

LEMMA SplitIndex ==
  ASSUME NEW m \in Nat, NEW n \in Nat, NEW k \in 1 .. m + n + 1
  PROVE  k \in 1 .. m \/ (\E i \in 1 .. n : k = m + i) \/ k = m + n + 1
<1> SUFFICES ASSUME k \notin 1 .. m, k # m + n + 1
             PROVE  \E i \in 1 .. n : k = m + i
  OBVIOUS
<1>1. k - m \in 1 .. n /\ k = m + (k - m)
  OBVIOUS
<1> QED
  BY <1>1

LEMMA InsertManyKeeps ==
  ASSUME WorkerType, QueueInv, NEW batch \in SetOfBatches, InsertMany(batch)
  PROVE  /\ WorkerType' /\ QueueInv' /\ QueueKept
         /\ \A k \in DOMAIN queue : queue'[k] = queue[k]
         /\ Len(queue) < Len(queue')
         /\ \A k \in DOMAIN queue' \ DOMAIN queue :
              /\ queue'[k].state = "available" /\ queue'[k].batch = Len(queue)
              /\ queue'[k].kind = "reservation" => k = Len(queue')
<1> DEFINE jobs == [i \in DOMAIN batch |-> Entry(batch[i], Len(queue) + i)]
           last == ClearEntry(Len(queue) + Len(batch) + 1)
<1>1. batch \in Seq(Objects) /\ Len(batch) \in Nat /\ Len(queue) \in Nat
  BY BatchType DEF WorkerType
<1>2. jobs \in Seq(QueueJob) /\ Len(jobs) = Len(batch)
  <2>1. \A i \in 1 .. Len(batch) : Entry(batch[i], Len(queue) + i) \in QueueJob
    BY <1>1, EntryType
  <2> QED
    BY <1>1, <2>1
<1>3. last \in QueueJob /\ last.kind = "reservation" /\ last.state = "available"
      /\ last.after = Len(queue) + Len(batch) /\ last.batch = Len(queue)
  BY <1>1, ClearEntryType
<1>4. \A i \in 1 .. Len(batch) : /\ jobs[i].object \in Objects
                                 /\ jobs[i].state = "available"
                                 /\ jobs[i].after = Len(queue) + i - 1
                                 /\ jobs[i].kind = "job" /\ jobs[i].batch = Len(queue)
  BY <1>1 DEF Entry
<1> HIDE DEF jobs, last
<1>5. queue' = queue \o jobs \o <<last>>
  BY DEF InsertMany, jobs, last
<1>6. /\ queue' \in Seq(QueueJob)
      /\ Len(queue') = Len(queue) + Len(batch) + 1
      /\ \A k \in 1 .. Len(queue) : queue'[k] = queue[k]
      /\ \A i \in 1 .. Len(batch) : queue'[Len(queue) + i] = jobs[i]
      /\ queue'[Len(queue) + Len(batch) + 1] = last
  <2> DEFINE mid == queue \o jobs
  <2>1. queue \in Seq(QueueJob)
    BY DEF WorkerType
  <2>2. /\ mid \in Seq(QueueJob)
        /\ Len(mid) = Len(queue) + Len(batch)
        /\ \A k \in 1 .. Len(queue) : mid[k] = queue[k]
        /\ \A i \in 1 .. Len(batch) : mid[Len(queue) + i] = jobs[i]
    BY <1>1, <1>2, <2>1
  <2> HIDE DEF mid
  <2>3. queue' = mid \o <<last>>
    BY <1>5 DEF mid
  <2>4. /\ queue' \in Seq(QueueJob)
        /\ Len(queue') = Len(mid) + 1
        /\ \A k \in 1 .. Len(mid) : queue'[k] = mid[k]
        /\ queue'[Len(mid) + 1] = last
    <3>1. last \in QueueJob /\ mid \in Seq(QueueJob)
      BY <1>3, <2>2
    <3> QED BY <2>3, <3>1
  <2> QED
    BY <1>1, <2>2, <2>4
<1>7. DOMAIN queue = 1 .. Len(queue) /\ DOMAIN queue' = 1 .. Len(queue')
  BY <1>6 DEF WorkerType
<1>8. WorkerType'
  BY <1>1, <1>6 DEF WorkerType, InsertMany, workVars
<1>9. \A k \in DOMAIN queue' :
        \/ k \in 1 .. Len(queue)
        \/ \E i \in 1 .. Len(batch) : k = Len(queue) + i
        \/ k = Len(queue) + Len(batch) + 1
  <2>1. DOMAIN queue' = 1 .. Len(queue) + Len(batch) + 1
    BY <1>6, <1>7
  <2>2. Len(queue) \in Nat /\ Len(batch) \in Nat
    BY <1>1
  <2> TAKE k \in DOMAIN queue'
  <2>3. k \in 1 .. Len(queue) + Len(batch) + 1
    BY <2>1
  <2> QED
    BY <2>2, <2>3, SplitIndex, Zenon
<1>10. \A k \in DOMAIN queue' :
         /\ queue'[k].kind = "job" => queue'[k].object \in Objects
         /\ ~ queue'[k].attempted => queue'[k].state = "available"
         /\ k <= queue'[k].after + 1
  <2> TAKE k \in DOMAIN queue'
  <2>1. CASE k \in 1 .. Len(queue)
    BY <2>1, <1>6, <1>7 DEF QueueInv
  <2>2. CASE \E i \in 1 .. Len(batch) : k = Len(queue) + i
    BY <2>2, <1>1, <1>4, <1>6
  <2>3. CASE k = Len(queue) + Len(batch) + 1
    BY <2>3, <1>1, <1>3, <1>6
  <2> QED
    BY <2>1, <2>2, <2>3, <1>9
<1>11. pc # "idle" => cur \in 1 .. Len(queue)
  BY DEF WorkerType
<1>12. QueueInv'
  BY <1>6, <1>10, <1>11, Zenon DEF QueueInv, InsertMany, workVars
<1>13. \A k \in DOMAIN queue' \ DOMAIN queue :
         /\ queue'[k].state = "available" /\ queue'[k].batch = Len(queue)
         /\ queue'[k].kind = "reservation" => k = Len(queue')
  <2> TAKE k \in DOMAIN queue' \ DOMAIN queue
  <2>1. CASE \E i \in 1 .. Len(batch) : k = Len(queue) + i
    BY <2>1, <1>1, <1>4, <1>6
  <2>2. CASE k = Len(queue) + Len(batch) + 1
    BY <2>2, <1>1, <1>3, <1>6
  <2> QED
    BY <2>1, <2>2, <1>7, <1>9
<1> QED
  BY <1>1, <1>6, <1>7, <1>8, <1>12, <1>13 DEF QueueKept

(* What keeps the jobs of the queue keeps their batches. *)
LEMMA BatchKept ==
  ASSUME WorkerType, WorkerType', BatchInv, QueueKept, DOMAIN queue' = DOMAIN queue
  PROVE  BatchInv'
<1>1. /\ DOMAIN queue = 1 .. Len(queue) /\ DOMAIN queue' = 1 .. Len(queue')
      /\ Len(queue) \in Nat /\ Len(queue') \in Nat
  BY DEF WorkerType
<1>2. Len(queue') = Len(queue)
  BY <1>1
<1> QED
  BY <1>2, Zenon DEF BatchInv, QueueKept

(* A new batch comes after the others, and its clear job after its jobs. *)
LEMMA InsertManyOrder ==
  ASSUME WorkerType, QueueInv, OrderInv, NEW batch \in SetOfBatches, InsertMany(batch)
  PROVE  OrderInv'
<1>1. /\ WorkerType' /\ Len(queue) < Len(queue')
      /\ \A k \in DOMAIN queue : queue'[k] = queue[k]
      /\ \A k \in DOMAIN queue' \ DOMAIN queue :
           /\ queue'[k].batch = Len(queue)
           /\ queue'[k].kind = "reservation" => k = Len(queue')
  BY InsertManyKeeps
<1>2. /\ DOMAIN queue = 1 .. Len(queue) /\ DOMAIN queue' = 1 .. Len(queue')
      /\ Len(queue) \in Nat /\ Len(queue') \in Nat
  BY <1>1 DEF WorkerType
<1>3. \A k \in DOMAIN queue : queue[k].batch \in Nat
  <2>1. \A k \in DOMAIN queue : queue[k] \in QueueJob
    BY DEF WorkerType
  <2> QED
    BY <2>1 DEF QueueJob
<1>4. \A k \in DOMAIN queue : queue[k].batch < Len(queue) /\ queue[k].batch < Len(queue')
  BY <1>1, <1>2, <1>3 DEF OrderInv, BatchInv
<1>5. \A k \in DOMAIN queue' : queue'[k].batch < Len(queue')
  BY <1>1, <1>4, Zenon
<1>6. ASSUME NEW k \in DOMAIN queue', queue'[k].kind = "reservation",
             NEW j \in DOMAIN queue', queue'[j].batch <= queue'[k].batch
      PROVE  j <= k
  <2>1. CASE k \in DOMAIN queue
    <3>1. j \in DOMAIN queue
      BY <1>1, <1>2, <1>3, <1>4, <1>6, <2>1
    <3> QED
      BY <1>1, <1>6, <2>1, <3>1, Zenon DEF OrderInv, BatchInv
  <2>2. CASE k \notin DOMAIN queue
    <3>1. k = Len(queue')
      BY <1>1, <1>6, <2>2, Zenon
    <3> QED
      BY <1>2, <3>1
  <2> QED
    BY <2>1, <2>2
<1>7. BatchInv'
  BY <1>5, <1>6, Zenon DEF BatchInv
<1>8. ClearRunsLast'
  <2>1. pc' = pc /\ cur' = cur
    BY DEF InsertMany, workVars
  <2> SUFFICES ASSUME pc = "clear", NEW k \in DOMAIN queue',
                      queue'[k].batch <= queue'[cur].batch
               PROVE  queue'[k].attempted
    BY <2>1 DEF ClearRunsLast
  <2>2. cur \in DOMAIN queue
    BY <1>2 DEF WorkerType
  <2>3. k \in DOMAIN queue
    BY <1>1, <1>2, <1>3, <1>4, <2>2
  <2> QED
    BY <1>1, <2>2, <2>3, Zenon DEF OrderInv, ClearRunsLast
<1> QED
  BY <1>7, <1>8 DEF OrderInv

LEMMA FetchKeeps ==
  ASSUME WorkerType, QueueInv, OrderInv, NEW i \in DOMAIN queue, Fetch(i)
  PROVE  WorkerType' /\ QueueInv' /\ QueueKept /\ OrderInv'
<1> DEFINE job == [queue[i] EXCEPT !.state = "running", !.attempted = TRUE]
<1>1. queue[i] \in QueueJob /\ i \in 1 .. Len(queue) /\ Len(queue) \in Nat
  BY DEF WorkerType
<1>2. job \in QueueJob /\ job.kind = queue[i].kind /\ job.object = queue[i].object
      /\ job.attempted /\ job.after = queue[i].after /\ job.batch = queue[i].batch
  BY <1>1, Zenon DEF QueueJob
<1>3. queue' = [queue EXCEPT ![i] = job]
  BY Zenon DEF Fetch
<1> HIDE DEF job
<1>4. queue' \in Seq(QueueJob) /\ DOMAIN queue' = DOMAIN queue /\ Len(queue') = Len(queue)
  BY <1>1, <1>2, <1>3 DEF WorkerType
<1>5. \A k \in DOMAIN queue : queue'[k] = IF k = i THEN job ELSE queue[k]
  BY <1>3 DEF WorkerType
<1>6. pc = "idle" /\ cur' = i /\ resp' = resp
      /\ pc' = IF queue[i].kind = "job" THEN "match" ELSE "clear"
  BY DEF Fetch
<1>7. WorkerType'
  BY <1>1, <1>4, <1>6 DEF WorkerType
<1>8. QueueInv'
  BY <1>1, <1>2, <1>4, <1>5, <1>6 DEF QueueInv
<1>9. \A k \in 1 .. i : queue'[k].attempted
  <2> SUFFICES ASSUME NEW k \in 1 .. i - 1 PROVE queue[k].attempted
    BY <1>1, <1>2, <1>4, <1>5
  <2>1. queue[i].after \in Nat /\ DOMAIN queue = 1 .. Len(queue)
    BY <1>1 DEF QueueJob, WorkerType
  <2>2. i <= queue[i].after + 1
    BY Zenon DEF QueueInv
  <2>3. k \in DOMAIN queue /\ k \in 1 .. queue[i].after
    BY <1>1, <2>1, <2>2
  <2> QED
    BY <2>3, Zenon DEF Fetch, QueueInv
<1>10. QueueKept
  BY <1>1, <1>2, <1>4, <1>5 DEF QueueKept
<1>11. BatchInv'
  BY <1>4, <1>7, <1>10, BatchKept DEF OrderInv
<1>12. ClearRunsLast'
  <2> SUFFICES ASSUME pc' = "clear", NEW k \in DOMAIN queue,
                      queue'[k].batch <= queue'[i].batch
               PROVE  queue'[k].attempted
    BY <1>4, <1>6 DEF ClearRunsLast
  <2>1. queue[i].kind = "reservation"
    BY <1>1, <1>6 DEF QueueJob
  <2>2. k <= i
    BY <1>10, <2>1, Zenon DEF OrderInv, BatchInv, QueueKept
  <2>3. k \in 1 .. i
    BY <1>1, <2>2 DEF WorkerType
  <2> QED
    BY <1>9, <2>3
<1> QED
  BY <1>7, <1>8, <1>10, <1>11, <1>12 DEF OrderInv

-----------------------------------------------------------------------------
LEMMA TypeParts == TypeOK => WorkerType
BY DEF TypeOK, WorkerType

(* What is left to show of a step of the default queue's worker. *)
LEMMA WorkerStep ==
  ASSUME TypeOK, QueueInv, WorkStep
  PROVE  WorkerType' /\ QueueInv' /\ QueueKept
<1>1. WorkerType
  BY TypeParts
<1>2. pc # "idle" => cur \in DOMAIN queue
  BY <1>1 DEF WorkerType
<1>3. QueueKept \/ queue' # queue
  BY DEF QueueKept
<1>4. ASSUME Match PROVE WorkerType' /\ QueueInv' /\ QueueKept
  <2> USE <1>4
  <2>1. pc = "match"
    BY DEF Match
  <2>2. CASE Retry
    BY <2>1, <2>2, <1>1, RetryKeeps
  <2>3. ASSUME NEW nodes \in SUBSET Slots, Admit(queue[cur].object, nodes, FALSE),
               resp' = [id |-> nextId, nodes |-> nodes], Continue("release")
        PROVE  WorkerType' /\ QueueInv' /\ QueueKept
    <3>1. resp' \in Label /\ resp'.id \in Id
      BY <2>3 DEF TypeOK, Label, Admit
    <3> QED
      BY <2>1, <2>3, <3>1, <1>1, <1>3 DEF WorkerType, QueueInv, Continue
  <2>4. ASSUME Reserve(queue[cur].object),
               resp' = [id |-> nextId, nodes |-> {}], Continue("reserve")
        PROVE  WorkerType' /\ QueueInv' /\ QueueKept
    <3>1. resp' \in Label /\ resp'.id \in Id
      BY <2>4 DEF TypeOK, Label, Admit, Reserve
    <3> QED
      BY <2>1, <2>4, <3>1, <1>1, <1>3 DEF WorkerType, QueueInv, Continue
  <2>5. CASE Continue("reject") /\ UNCHANGED resp
    BY <2>1, <2>5, <1>1, <1>3 DEF WorkerType, QueueInv, Continue
  <2>6. \/ \E nodes \in SUBSET Slots :
             /\ Admit(queue[cur].object, nodes, FALSE)
             /\ resp' = [id |-> nextId, nodes |-> nodes]
             /\ Continue("release")
        \/ /\ Reserve(queue[cur].object)
           /\ resp' = [id |-> nextId, nodes |-> {}]
           /\ Continue("reserve")
        \/ Continue("reject") /\ UNCHANGED resp
        \/ Retry
    BY Zenon DEF Match, Allocate
  <2> QED
    BY <2>2, <2>3, <2>4, <2>5, <2>6, Zenon
<1>5. ASSUME ReserveJob PROVE WorkerType' /\ QueueInv' /\ QueueKept
  BY <1>1, <1>5, RetryKeeps DEF ReserveJob
<1>6. ASSUME UnsuspendJob PROVE WorkerType' /\ QueueInv' /\ QueueKept
  BY <1>1, <1>6, RetryKeeps, FinishKeeps DEF UnsuspendJob
<1>7. ASSUME UngatePod PROVE WorkerType' /\ QueueInv' /\ QueueKept
  BY <1>1, <1>7, FinishKeeps DEF UngatePod
<1>8. ASSUME MarkUnschedulable PROVE WorkerType' /\ QueueInv' /\ QueueKept
  BY <1>1, <1>8, FinishKeeps DEF MarkUnschedulable
<1>9. ASSUME GetReservations PROVE WorkerType' /\ QueueInv' /\ QueueKept
  BY <1>1, <1>9, RetryKeeps, FinishKeeps DEF GetReservations
<1> QED
  BY <1>4, <1>5, <1>6, <1>7, <1>8, <1>9 DEF WorkStep

-----------------------------------------------------------------------------
(* The other variables. *)

OtherTypes ==
  /\ tasks \subseteq Task
  /\ tpc \in {"idle", "patch", "ungate"}
  /\ IF tpc = "idle" THEN task = NoTask ELSE task \in Task
  /\ cancels \in Seq(CancelJob)
  /\ cpc \in {"idle", "cancel"}
  /\ IF cpc = "idle" THEN cancel = NoCancel ELSE cancel \in CancelJob
  /\ graph \subseteq Allocation
  /\ nextId \in Id /\ reservations \subseteq Id
  /\ exists \subseteq Objects /\ gated \subseteq Objects
  /\ label \in [Objects -> Label]
  /\ bound \in [Objects -> SUBSET Slots]
  /\ faults \in Nat

LEMMA FaultType == faults \in Nat /\ Fault => faults' \in Nat
BY DEF Fault

LEMMA AdmitType ==
  ASSUME OtherTypes, NEW o \in Objects, NEW nodes \in SUBSET Slots,
         NEW reserved \in BOOLEAN, Admit(o, nodes, reserved)
  PROVE  graph' \subseteq Allocation /\ nextId' \in Id
<1>1. [id |-> nextId, object |-> o, nodes |-> nodes, reserved |-> reserved] \in Allocation
  BY DEF OtherTypes, Allocation
<1>2. nextId' \in Id
  BY ConstantsAssumption DEF OtherTypes, Admit, Id
<1> QED
  BY <1>1, <1>2 DEF OtherTypes, Admit

LEMMA CancelType ==
  ASSUME OtherTypes, NEW id, CancelId(id)
  PROVE  graph' \subseteq Allocation /\ nextId' \in Id
BY DEF OtherTypes, CancelId

LEMMA WorkTypes ==
  ASSUME TypeOK, QueueInv, WorkStep
  PROVE  OtherTypes'
<1>1. OtherTypes
  BY DEF TypeOK, OtherTypes
<1> USE <1>1, FaultType
<1>2. ASSUME Match PROVE OtherTypes'
  <2>1. queue[cur].object \in Objects
    BY <1>2 DEF Match, QueueInv, TypeOK
  <2>2. faults' \in Nat
    BY <1>2 DEF Match, OtherTypes
  <2>3. \/ UNCHANGED fluxionVars
        \/ \E nodes \in SUBSET Slots : Admit(queue[cur].object, nodes, FALSE)
        \/ Admit(queue[cur].object, {}, TRUE)
    BY <1>2, Zenon DEF Match, Allocate, Reserve
  <2>4. graph' \subseteq Allocation /\ nextId' \in Id
    BY <2>1, <2>3, AdmitType, Zenon DEF fluxionVars, OtherTypes
  <2> QED
    BY <1>2, <2>2, <2>4 DEF Match, OtherTypes, taskVars, cleanVars, objectVars
<1>3. ASSUME ReserveJob PROVE OtherTypes'
  <2>1. resp.id \in Id
    BY <1>3 DEF ReserveJob, QueueInv
  <2> QED
    BY <1>3, <2>1 DEF ReserveJob, OtherTypes, taskVars, cleanVars, fluxionVars, objectVars
<1>4. ASSUME UnsuspendJob PROVE OtherTypes'
  <2>1. resp \in Label
    BY DEF TypeOK
  <2>2. /\ exists' = exists /\ bound' = bound /\ gated' \subseteq gated
        /\ label' \in [Objects -> Label]
    BY <1>4, <2>1 DEF UnsuspendJob, Unsuspend, OtherTypes, objectVars
  <2>3. faults' \in Nat
    BY <1>4 DEF UnsuspendJob, OtherTypes
  <2> QED
    BY <1>4, <2>2, <2>3 DEF UnsuspendJob, OtherTypes, taskVars, cleanVars, fluxionVars
<1>5. ASSUME UngatePod PROVE OtherTypes'
  <2> DEFINE new == [object |-> queue[cur].object, id |-> resp.id,
                     nodes |-> resp.nodes, attempts |-> 0]
  <2>1. new \in Task
    BY <1>5 DEF UngatePod, QueueInv, TypeOK, Task, Label
  <2>2. tasks' \subseteq Task
    BY <1>5, <2>1 DEF UngatePod, OtherTypes
  <2>3. faults' \in Nat
    BY <1>5 DEF UngatePod, OtherTypes
  <2> QED
    BY <1>5, <2>2, <2>3 DEF UngatePod, OtherTypes, taskVars, cleanVars, fluxionVars, objectVars
<1>6. ASSUME MarkUnschedulable PROVE OtherTypes'
  BY <1>6 DEF MarkUnschedulable, OtherTypes, taskVars, cleanVars, fluxionVars
<1>7. ASSUME GetReservations PROVE OtherTypes'
  BY <1>7 DEF GetReservations, OtherTypes, taskVars, cleanVars, fluxionVars, objectVars
<1> QED
  BY <1>2, <1>3, <1>4, <1>5, <1>6, <1>7 DEF WorkStep

LEMMA RemoveAtType ==
  ASSUME NEW S, NEW s \in Seq(S), NEW i \in DOMAIN s
  PROVE  /\ RemoveAt(s, i) \in Seq(S)
         /\ \A k \in DOMAIN RemoveAt(s, i) :
              \E m \in DOMAIN s : RemoveAt(s, i)[k] = s[m]
         /\ \A m \in DOMAIN s \ {i} :
              \E k \in DOMAIN RemoveAt(s, i) : RemoveAt(s, i)[k] = s[m]
<1> DEFINE left == SubSeq(s, 1, i - 1)
           right == SubSeq(s, i + 1, Len(s))
<1>1. i \in 1 .. Len(s) /\ Len(s) \in Nat
  OBVIOUS
<1>2. /\ left \in Seq(S) /\ Len(left) = i - 1
      /\ \A k \in 1 .. i - 1 : left[k] = s[k]
  BY <1>1
<1>3. /\ right \in Seq(S) /\ Len(right) = Len(s) - i
      /\ \A k \in 1 .. Len(s) - i : right[k] = s[i + k]
  BY <1>1
<1>4. RemoveAt(s, i) = left \o right
  BY DEF RemoveAt
<1> HIDE DEF left, right
<1>5. \A k \in DOMAIN (left \o right) :
        \/ k \in 1 .. i - 1 /\ (left \o right)[k] = left[k]
        \/ k - (i - 1) \in 1 .. Len(s) - i /\ (left \o right)[k] = right[k - (i - 1)]
  BY <1>1, <1>2, <1>3
<1>6. \A k \in DOMAIN (left \o right) : \E m \in DOMAIN s : (left \o right)[k] = s[m]
  <2> TAKE k \in DOMAIN (left \o right)
  <2>1. CASE k \in 1 .. i - 1 /\ (left \o right)[k] = left[k]
    BY <1>1, <1>2, <2>1
  <2>2. CASE k - (i - 1) \in 1 .. Len(s) - i
             /\ (left \o right)[k] = right[k - (i - 1)]
    <3>1. i + (k - (i - 1)) \in DOMAIN s
      BY <1>1, <2>2
    <3> QED
      BY <1>3, <2>2, <3>1
  <2> QED
    BY <1>5, <2>1, <2>2
<1>7. \A m \in DOMAIN s \ {i} : \E k \in DOMAIN (left \o right) : (left \o right)[k] = s[m]
  <2> TAKE m \in DOMAIN s \ {i}
  <2>1. CASE m < i
    <3>1. m \in 1 .. i - 1 /\ m \in DOMAIN (left \o right)
      BY <1>1, <1>2, <1>3, <2>1
    <3>2. (left \o right)[m] = left[m]
      BY <1>1, <1>2, <1>3, <3>1
    <3> QED
      BY <1>2, <3>1, <3>2
  <2>2. CASE m > i
    <3>1. m - 1 \in DOMAIN (left \o right) /\ m - i \in 1 .. Len(s) - i
      BY <1>1, <1>2, <1>3, <2>2
    <3>2. (left \o right)[m - 1] = right[m - i]
      <4>1. m - 1 \notin 1 .. i - 1 /\ (m - 1) - (i - 1) = m - i
        BY <1>1, <2>2
      <4> QED
        BY <1>5, <3>1, <4>1
    <3>3. right[m - i] = s[m]
      BY <1>1, <1>3, <3>1
    <3> QED
      BY <3>1, <3>2, <3>3
  <2> QED
    BY <1>1, <2>1, <2>2
<1>8. left \o right \in Seq(S)
  BY <1>2, <1>3
<1> QED
  BY <1>4, <1>6, <1>7, <1>8, Zenon

LEMMA TaskTypes ==
  ASSUME OtherTypes, TaskStep
  PROVE  OtherTypes'
<1> USE FaultType
<1>1. ASSUME NEW t \in tasks, TaskFetch(t) PROVE OtherTypes'
  <2>1. t \in Task
    BY <1>1 DEF OtherTypes
  <2>2. [t EXCEPT !.attempts = @ + 1] \in Task
    BY <2>1 DEF Task
  <2> QED
    BY <1>1, <2>2 DEF TaskFetch, OtherTypes, cleanVars, fluxionVars, objectVars
<1>2. tpc # "idle" => task \in Task /\ [id |-> task.id, nodes |-> task.nodes] \in Label
  BY DEF OtherTypes, Task, Label
<1>3. ASSUME TaskRetry, tpc # "idle" PROVE tasks' \subseteq Task
  BY <1>2, <1>3 DEF TaskRetry, OtherTypes
<1>4. ASSUME PatchPod PROVE OtherTypes'
  <2>1. tpc # "idle"
    BY <1>4 DEF PatchPod
  <2>2. label' \in [Objects -> Label] /\ faults' \in Nat
    BY <1>2, <1>4, <2>1 DEF PatchPod, LabelPod, OtherTypes
  <2>3. /\ tasks' \subseteq Task
        /\ \/ tpc' = "idle" /\ task' = NoTask
           \/ tpc' = "ungate" /\ task' = task
    BY <1>3, <1>4, <2>1 DEF PatchPod, TaskRetry, OtherTypes
  <2> QED
    BY <1>2, <1>4, <2>1, <2>2, <2>3 DEF PatchPod, OtherTypes, cleanVars, fluxionVars
<1>5. ASSUME RemoveGate PROVE OtherTypes'
  <2>1. tpc # "idle"
    BY <1>5 DEF RemoveGate
  <2>2. gated' \subseteq gated /\ faults' \in Nat
    BY <1>5 DEF RemoveGate, OtherTypes
  <2>3. tasks' \subseteq Task /\ tpc' = "idle" /\ task' = NoTask
    BY <1>3, <1>5, <2>1 DEF RemoveGate, TaskRetry, OtherTypes
  <2> QED
    BY <1>5, <2>2, <2>3 DEF RemoveGate, OtherTypes, cleanVars, fluxionVars
<1> QED
  BY <1>1, <1>4, <1>5 DEF TaskStep

LEMMA CleanupTypes ==
  ASSUME OtherTypes, CleanupStep
  PROVE  OtherTypes'
<1> USE FaultType
<1>1. ASSUME NEW i \in DOMAIN cancels, CleanupFetch(i) PROVE OtherTypes'
  <2>1. cancels[i] \in CancelJob /\ RemoveAt(cancels, i) \in Seq(CancelJob)
    BY <1>1, RemoveAtType DEF OtherTypes
  <2>2. [cancels[i] EXCEPT !.attempts = @ + 1] \in CancelJob
    BY <2>1 DEF CancelJob
  <2> QED
    BY <1>1, <2>1, <2>2 DEF CleanupFetch, OtherTypes, taskVars, fluxionVars, objectVars
<1>2. ASSUME DeleteFluxion PROVE OtherTypes'
  <2>1. cancel \in CancelJob
    BY <1>2 DEF DeleteFluxion, OtherTypes
  <2>2. cancels' \in Seq(CancelJob)
    <3>1. cancels \in Seq(CancelJob)
      BY DEF OtherTypes
    <3>2. CleanupRetry => cancels' \in Seq(CancelJob)
      BY <2>1, <3>1 DEF CleanupRetry
    <3>3. CleanupRetry \/ cancels' = cancels
      BY <1>2 DEF DeleteFluxion
    <3> QED
      BY <3>1, <3>2, <3>3
  <2>3. graph' \subseteq Allocation /\ nextId' \in Id
    BY <1>2, CancelType DEF DeleteFluxion, OtherTypes, fluxionVars
  <2>4. faults' \in Nat
    BY <1>2 DEF DeleteFluxion, OtherTypes
  <2> QED
    BY <1>2, <2>2, <2>3, <2>4 DEF DeleteFluxion, OtherTypes, taskVars, objectVars
<1> QED
  BY <1>1, <1>2 DEF CleanupStep

LEMMA CleanupInserts ==
  ASSUME OtherTypes, NEW l \in Label, Cleanup(l.id)
  PROVE  /\ cancels' \in Seq(CancelJob) /\ faults' \in Nat
         /\ \/ cancels' = cancels
            \/ l.id \in Id /\ cancels' = Append(cancels, [id |-> l.id, attempts |-> 0])
<1>1. l.id # NoId => l.id \in Id /\ [id |-> l.id, attempts |-> 0] \in CancelJob
  BY DEF Label, CancelJob
<1>2. cancels \in Seq(CancelJob) /\ faults \in Nat
  BY DEF OtherTypes
<1> QED
  BY <1>1, <1>2, FaultType DEF Cleanup

LEMMA ClusterTypes ==
  ASSUME OtherTypes, (\E o \in Objects : Bind(o)) \/ Deletion
  PROVE  OtherTypes'
<1>1. \A o \in Objects : label[o] \in Label /\ label[o].nodes \subseteq Slots
  BY DEF OtherTypes, Label
<1>2. ASSUME NEW o \in Objects, Bind(o) PROVE OtherTypes'
  BY <1>1, <1>2 DEF Bind, OtherTypes, taskVars, cleanVars, fluxionVars
<1>3. ASSUME NEW o \in Objects, DeletePod(o) PROVE OtherTypes'
  <2>1. cancels' \in Seq(CancelJob) /\ faults' \in Nat
    BY <1>1, <1>3, CleanupInserts, Zenon DEF DeletePod
  <2>2. bound' \in [Objects -> SUBSET Slots] /\ exists' \subseteq exists
    BY <1>3 DEF DeletePod, OtherTypes
  <2> QED
    BY <1>3, <2>1, <2>2 DEF DeletePod, OtherTypes, taskVars, cleanVars, fluxionVars
<1>4. ASSUME NEW o \in Objects, DeleteObject(o) PROVE OtherTypes'
  <2>1. cancels' \in Seq(CancelJob) /\ faults' \in Nat
    BY <1>1, <1>4, CleanupInserts, Zenon DEF DeleteObject, OtherTypes
  <2> QED
    BY <1>4, <2>1 DEF DeleteObject, OtherTypes, taskVars, cleanVars, fluxionVars
<1> QED
  BY <1>2, <1>3, <1>4 DEF Deletion

-----------------------------------------------------------------------------
(* Types and the order of the queue. *)

LEMMA NextTypes ==
  TypeOK /\ QueueInv /\ OrderInv /\ [Next]_vars
    => (TypeOK /\ QueueInv /\ OrderInv)' /\ QueueKept
<1> SUFFICES ASSUME TypeOK, QueueInv, OrderInv, [Next]_vars
             PROVE  (TypeOK /\ QueueInv /\ OrderInv)' /\ QueueKept
  OBVIOUS
<1>1. WorkerType /\ OtherTypes
  BY DEF TypeOK, WorkerType, OtherTypes
<1>2. ASSUME WorkerType', OtherTypes' PROVE TypeOK'
  BY <1>2 DEF TypeOK, WorkerType, OtherTypes
<1>3. ASSUME UNCHANGED <<queue, workVars>>
      PROVE  WorkerType' /\ QueueInv' /\ OrderInv' /\ QueueKept
  BY <1>1, <1>3 DEF WorkerType, QueueInv, OrderInv, BatchInv, ClearRunsLast, QueueKept,
                    workVars
<1>4. ASSUME NEW batch \in SetOfBatches, InsertMany(batch)
      PROVE  (TypeOK /\ QueueInv /\ OrderInv)' /\ QueueKept
  <2>1. WorkerType' /\ QueueInv' /\ QueueKept
    BY <1>1, <1>4, InsertManyKeeps
  <2>2. OtherTypes'
    BY <1>1, <1>4 DEF InsertMany, OtherTypes, taskVars, cleanVars, fluxionVars, objectVars
  <2>3. OrderInv'
    BY <1>1, <1>4, InsertManyOrder
  <2> QED
    BY <1>2, <2>1, <2>2, <2>3
<1>5. ASSUME NEW i \in DOMAIN queue, Fetch(i)
      PROVE  (TypeOK /\ QueueInv /\ OrderInv)' /\ QueueKept
  <2>1. OtherTypes'
    BY <1>1, <1>5 DEF Fetch, OtherTypes, taskVars, cleanVars, fluxionVars, objectVars
  <2> QED
    BY <1>1, <1>2, <1>5, <2>1, FetchKeeps
<1>6. ASSUME WorkStep
      PROVE  (TypeOK /\ QueueInv /\ OrderInv)' /\ QueueKept
  <2>1. WorkerType' /\ QueueInv' /\ QueueKept /\ OtherTypes'
    BY <1>6, WorkerStep, WorkTypes
  <2>2. pc' # "clear" /\ DOMAIN queue' = DOMAIN queue
    <3>1. \/ queue' = queue /\ pc' \in {"release", "reserve", "reject"}
          \/ Retry \/ Finish("completed") \/ Finish("cancelled")
      BY <1>6, Zenon DEF WorkStep, Match, ReserveJob, UnsuspendJob, UngatePod,
                  MarkUnschedulable, GetReservations, Continue
    <3> QED
      BY <3>1 DEF Retry, Finish
  <2>3. OrderInv'
    BY <1>1, <2>1, <2>2, BatchKept DEF OrderInv, ClearRunsLast
  <2> QED
    BY <1>2, <2>1, <2>3
<1>7. ASSUME TaskStep
      PROVE  (TypeOK /\ QueueInv /\ OrderInv)' /\ QueueKept
  <2>1. UNCHANGED <<queue, workVars>>
    BY <1>7 DEF TaskStep, TaskFetch, PatchPod, RemoveGate
  <2> QED
    BY <1>1, <1>2, <1>3, <1>7, <2>1, TaskTypes
<1>8. ASSUME CleanupStep
      PROVE  (TypeOK /\ QueueInv /\ OrderInv)' /\ QueueKept
  <2>1. UNCHANGED <<queue, workVars>>
    BY <1>8 DEF CleanupStep, CleanupFetch, DeleteFluxion
  <2> QED
    BY <1>1, <1>2, <1>3, <1>8, <2>1, CleanupTypes
<1>9. ASSUME (\E o \in Objects : Bind(o)) \/ Deletion
      PROVE  (TypeOK /\ QueueInv /\ OrderInv)' /\ QueueKept
  <2>1. UNCHANGED <<queue, workVars>>
    BY <1>9 DEF Deletion, Bind, DeletePod, DeleteObject
  <2> QED
    BY <1>1, <1>2, <1>3, <1>9, <2>1, ClusterTypes
<1>10. ASSUME UNCHANGED vars
       PROVE  (TypeOK /\ QueueInv /\ OrderInv)' /\ QueueKept
  <2>1. UNCHANGED <<queue, workVars>> /\ OtherTypes'
    BY <1>1, <1>10 DEF vars, workVars, OtherTypes
  <2> QED
    BY <1>2, <1>3, <2>1
<1> QED
  BY <1>4, <1>5, <1>6, <1>7, <1>8, <1>9, <1>10 DEF Next

(* Every variable of Workers has its type in every reachable state. *)
THEOREM WorkersTypeCorrect == Spec => []TypeOK
<1>1. Init => TypeOK /\ QueueInv /\ OrderInv
  BY InitInv
<1>2. TypeOK /\ QueueInv /\ OrderInv /\ [Next]_vars
        => (TypeOK /\ QueueInv /\ OrderInv)'
  BY NextTypes
<1> QED
  BY <1>1, <1>2, PTL DEF Spec

(* When a job that clears reservations runs, every job sent with it or       *)
(* before it has asked Fluxion, for any number of batches, of jobs in a      *)
(* batch, of retries and of failed calls: InsertMany puts it last, and one   *)
(* worker takes what was never tried in the order of the ids.                *)
THEOREM ClearIsLast == Spec => []ClearRunsLast
<1>1. Init => TypeOK /\ QueueInv /\ OrderInv
  BY InitInv
<1>2. TypeOK /\ QueueInv /\ OrderInv /\ [Next]_vars
        => (TypeOK /\ QueueInv /\ OrderInv)'
  BY NextTypes
<1>3. OrderInv => ClearRunsLast
  BY DEF OrderInv
<1> QED
  BY <1>1, <1>2, <1>3, PTL DEF Spec

-----------------------------------------------------------------------------
(* Pods run on nodes Fluxion holds for their object.  No step takes the      *)
(* allocation of a whole object (one of whose pods none was deleted) away: a *)
(* cleanup job carries an id only after a pod was deleted.                   *)

(* The ids that cleanup jobs carry, and those taken for reservations. *)
Doomed ==
  {cancels[i].id : i \in DOMAIN cancels}
    \cup IF cpc = "cancel" THEN {cancel.id} ELSE {}

Promised ==
  reservations \cup IF pc = "reserve" THEN {resp.id} ELSE {}

IsDoomed(id) ==
  /\ id < nextId
  /\ \A a \in graph : a.id = id => ~ Whole(a.object)

IsPromise(id) ==
  /\ id < nextId
  /\ \A a \in graph : a.id = id => a.reserved

MarksInv ==
  /\ \A a \in graph : a.id < nextId
  /\ \A id \in Doomed : IsDoomed(id)
  /\ \A id \in Promised : IsPromise(id)

Covered(o) ==
  Cardinality(bound[o]) = Size[o] =>
    \E a \in graph : ~ a.reserved /\ a.object = o /\ bound[o] \subseteq a.nodes

BoundInv ==
  \A o \in Objects : Cardinality(bound[o]) <= Size[o] /\ Covered(o)

AllocInv == NamedIsHeld /\ MarksInv /\ BoundInv

(* What every step does to Fluxion's graph and to whole objects. *)
GraphStep ==
  /\ nextId <= nextId'
  /\ \A a \in graph' : a \in graph \/ (nextId <= a.id /\ a.id < nextId')
  /\ \A a \in graph : a \in graph' \/ a.reserved \/ ~ Whole(a.object)
  /\ \A o \in Objects : Whole(o)' => Whole(o)

-----------------------------------------------------------------------------
(* Facts that such a step preserves. *)

LEMMA IdsAreNat ==
  ASSUME TypeOK
  PROVE  /\ Id \subseteq Nat /\ nextId \in Nat
         /\ \A a \in graph : a.id \in Nat /\ a.object \in Objects
BY ConstantsAssumption DEF TypeOK, Id, Allocation

LEMMA NewIdsAreNat ==
  ASSUME TypeOK'
  PROVE  nextId' \in Nat /\ \A a \in graph' : a.id \in Nat
BY ConstantsAssumption DEF TypeOK, Id, Allocation

LEMMA JobInHand ==
  ASSUME TypeOK, QueueInv, pc \in {"match", "release"}
  PROVE  queue[cur].object \in Objects /\ cur \in DOMAIN queue
BY DEF QueueInv, TypeOK

LEMMA BelowStays ==
  ASSUME NEW m \in Nat, NEW n \in Nat, m <= n, NEW i \in 0 .. m - 1
  PROVE  i \in 0 .. n - 1
OBVIOUS

LEMMA HeldStays ==
  ASSUME TypeOK, TypeOK', GraphStep,
         NEW o \in Objects, NEW id \in Nat, NEW nodes, Held(o, id, nodes)
  PROVE  Held(o, id, nodes)'
<1>1. nextId \in Nat /\ nextId' \in Nat
  BY IdsAreNat, NewIdsAreNat
<1>2. ~ (nextId <= id)
  BY <1>1 DEF Held
<1>3. \A a \in graph' : a.id = id => a \in graph
  BY <1>2, Zenon DEF GraphStep
<1>4. ASSUME Whole(o)'
      PROVE  \E a \in graph' : a.id = id /\ a.object = o /\ a.nodes = nodes
  <2>1. Whole(o)
    BY <1>4 DEF GraphStep
  <2>2. PICK a \in graph : a.id = id /\ a.object = o /\ a.nodes = nodes
    BY <2>1 DEF Held
  <2>3. ~ a.reserved
    BY <2>2 DEF Held
  <2>4. a \in graph'
    BY <2>1, <2>2, <2>3 DEF GraphStep
  <2> QED
    BY <2>2, <2>4
<1>5. id \in 0 .. nextId' - 1
  <2>1. id \in 0 .. nextId - 1 /\ nextId <= nextId'
    BY DEF GraphStep, Held
  <2> QED
    BY <1>1, <2>1, BelowStays, Zenon
<1> QED
  BY <1>3, <1>4, <1>5 DEF Held

LEMMA MarkStays ==
  ASSUME TypeOK, TypeOK', GraphStep, NEW id \in Nat
  PROVE  (IsDoomed(id) => IsDoomed(id)') /\ (IsPromise(id) => IsPromise(id)')
<1>1. nextId \in Nat /\ nextId' \in Nat
  BY IdsAreNat, ConstantsAssumption DEF TypeOK, Id
<1>2. \A a \in graph' : a.id \in Nat /\ a.object \in Objects
  BY ConstantsAssumption DEF TypeOK, Allocation, Id
<1>3. id < nextId => id < nextId' /\ \A a \in graph' : a.id = id => a \in graph
  BY <1>1, <1>2 DEF GraphStep
<1>4. ASSUME IsDoomed(id) PROVE IsDoomed(id)'
  <2>1. \A a \in graph' : a.id = id => ~ Whole(a.object)'
    <3> TAKE a \in graph'
    <3> HAVE a.id = id
    <3>1. ~ Whole(a.object) /\ a.object \in Objects
      BY <1>2, <1>3, <1>4 DEF IsDoomed
    <3> QED
      BY <3>1 DEF GraphStep
  <2> QED
    BY <1>3, <1>4, <2>1 DEF IsDoomed
<1>5. ASSUME IsPromise(id) PROVE IsPromise(id)'
  BY <1>3, <1>5 DEF IsPromise
<1> QED
  BY <1>4, <1>5

LEMMA CoveredStays ==
  ASSUME TypeOK, GraphStep, NEW o \in Objects, Covered(o), bound'[o] = bound[o]
  PROVE  Covered(o)'
<1> SUFFICES ASSUME Cardinality(bound'[o]) = Size[o]
             PROVE  \E a \in graph' : ~ a.reserved /\ a.object = o /\ bound'[o] \subseteq a.nodes
  BY Zenon DEF Covered
<1>1. PICK a \in graph : ~ a.reserved /\ a.object = o /\ bound[o] \subseteq a.nodes
  BY DEF Covered
<1>2. Whole(o)
  BY DEF Whole
<1> QED
  BY <1>1, <1>2, Zenon DEF GraphStep

-----------------------------------------------------------------------------
(* Every step is such a step. *)

LEMMA SameGraph ==
  ASSUME UNCHANGED <<graph, nextId>>, TypeOK,
         \A o \in Objects : Whole(o)' => Whole(o)
  PROVE  GraphStep
BY IdsAreNat DEF GraphStep

LEMMA SameObjects ==
  ASSUME UNCHANGED <<exists, bound>>
  PROVE  \A o \in Objects : Whole(o)' => Whole(o)
BY DEF Whole

LEMMA AdmitGraph ==
  ASSUME TypeOK, UNCHANGED <<exists, bound>>,
         NEW o, NEW nodes, NEW reserved, Admit(o, nodes, reserved)
  PROVE  GraphStep
<1>1. nextId \in Nat /\ nextId' = nextId + 1
  BY IdsAreNat DEF Admit
<1>2. \A a \in graph' : a \in graph \/ a.id = nextId
  BY DEF Admit
<1>3. graph \subseteq graph'
  BY DEF Admit
<1> QED
  BY <1>1, <1>2, <1>3, SameObjects DEF GraphStep

LEMMA CancelGraph ==
  ASSUME TypeOK, UNCHANGED <<exists, bound>>, NEW id, CancelId(id),
         IsDoomed(id) \/ IsPromise(id)
  PROVE  GraphStep
<1>1. nextId' = nextId /\ nextId \in Nat
  BY IdsAreNat DEF CancelId
<1>2. \A a \in graph' : a \in graph
  BY DEF CancelId
<1>3. \A a \in graph : a \in graph' \/ a.id = id
  BY DEF CancelId
<1> QED
  BY <1>1, <1>2, <1>3, SameObjects DEF GraphStep, IsDoomed, IsPromise

(* A deletion leaves its object less than whole, and the others alone. *)
LEMMA DeletionBreaks ==
  ASSUME TypeOK, BoundInv, NEW o \in Objects, DeletePod(o) \/ DeleteObject(o)
  PROVE  /\ ~ Whole(o)'
         /\ \A p \in Objects \ {o} : Whole(p)' => Whole(p)
         /\ \A p \in Objects \ {o} : bound'[p] = bound[p]
         /\ Cardinality(bound'[o]) < Size[o]
<1>1. IsFiniteSet(bound[o]) /\ Cardinality(bound[o]) \in Nat
  BY ConstantsAssumption, FS_Subset, FS_CardinalityType DEF TypeOK
<1>2. Size[o] \in Nat /\ Size[o] > 0
  BY ConstantsAssumption
<1>3. Cardinality({}) = 0
  BY FS_EmptySet
<1>4. CASE DeletePod(o)
  <2>1. PICK node \in bound[o] : bound' = [bound EXCEPT ![o] = @ \ {node}]
    BY <1>4, Zenon DEF DeletePod
  <2>2. bound'[o] = bound[o] \ {node} /\ \A p \in Objects \ {o} : bound'[p] = bound[p]
    BY <2>1 DEF TypeOK
  <2>3. Cardinality(bound'[o]) = Cardinality(bound[o]) - 1
    BY <1>1, <2>1, <2>2, FS_RemoveElement, Zenon
  <2>4. Cardinality(bound'[o]) < Size[o] /\ Cardinality(bound'[o]) # Size[o]
    <3>1. Cardinality(bound[o]) <= Size[o]
      BY Zenon DEF BoundInv
    <3> QED
      BY <1>1, <1>2, <2>3, <3>1
  <2>5. bound'[o] = {} => o \notin exists'
    BY <1>4 DEF DeletePod
  <2>6. \A p \in Objects \ {o} : p \in exists' => p \in exists
    BY <1>4 DEF DeletePod
  <2> QED
    BY <2>2, <2>4, <2>5, <2>6 DEF Whole
<1>5. CASE DeleteObject(o)
  <2>1. bound' = bound /\ bound[o] = {} /\ exists' = exists \ {o}
    BY <1>5 DEF DeleteObject
  <2>2. Cardinality(bound'[o]) < Size[o] /\ Cardinality(bound'[o]) # Size[o]
    BY <1>2, <1>3, <2>1
  <2>3. o \notin exists' /\ \A p \in Objects \ {o} : p \in exists' => p \in exists
    BY <2>1
  <2> QED
    BY <2>1, <2>2, <2>3, Zenon DEF Whole
<1> QED
  BY <1>4, <1>5

LEMMA DeletionGraph ==
  ASSUME TypeOK, BoundInv, NEW o \in Objects, DeletePod(o) \/ DeleteObject(o)
  PROVE  GraphStep
<1>1. \A p \in Objects : Whole(p)' => Whole(p)
  BY DeletionBreaks
<1>2. UNCHANGED <<graph, nextId>>
  BY DEF DeletePod, DeleteObject, fluxionVars
<1> QED
  BY <1>1, <1>2, SameGraph

LEMMA BindGraph ==
  ASSUME TypeOK, NEW o \in Objects, Bind(o)
  PROVE  GraphStep
<1>1. \A p \in Objects : Whole(p)' => Whole(p)
  BY Zenon DEF Bind, Whole, TypeOK
<1>2. UNCHANGED <<graph, nextId>>
  BY DEF Bind, fluxionVars
<1> QED
  BY <1>1, <1>2, SameGraph

LEMMA QuietGraph ==
  ASSUME TypeOK, UNCHANGED <<graph, nextId, exists, bound>>
  PROVE  GraphStep
BY SameGraph, SameObjects

LEMMA MatchGraph ==
  ASSUME TypeOK, Match
  PROVE  GraphStep
<1>1. \/ UNCHANGED fluxionVars
      \/ \E nodes \in SUBSET Slots : Admit(queue[cur].object, nodes, FALSE)
      \/ Admit(queue[cur].object, {}, TRUE)
  BY Zenon DEF Match, Allocate, Reserve
<1>2. UNCHANGED <<exists, bound>>
  BY Zenon DEF Match, objectVars
<1> QED
  BY <1>1, <1>2, AdmitGraph, QuietGraph, Zenon DEF fluxionVars

LEMMA DeleteFluxionGraph ==
  ASSUME TypeOK, MarksInv, DeleteFluxion
  PROVE  GraphStep
<1>1. CancelId(cancel.id) \/ UNCHANGED fluxionVars
  BY DEF DeleteFluxion
<1>2. UNCHANGED <<exists, bound>>
  BY DEF DeleteFluxion, objectVars
<1>3. IsDoomed(cancel.id)
  BY DEF MarksInv, Doomed, DeleteFluxion
<1> QED
  BY <1>1, <1>2, <1>3, CancelGraph, QuietGraph DEF fluxionVars

(* The steps that leave the graph and the pods alone. *)
Quiet ==
  \/ \E batch \in SetOfBatches : InsertMany(batch)
  \/ \E i \in DOMAIN queue : Fetch(i)
  \/ ReserveJob \/ UnsuspendJob \/ UngatePod \/ MarkUnschedulable
  \/ GetReservations
  \/ TaskStep
  \/ \E i \in DOMAIN cancels : CleanupFetch(i)
  \/ UNCHANGED vars

LEMMA QuietSteps == Quiet => UNCHANGED <<graph, nextId, exists, bound>>
BY Zenon DEF Quiet, InsertMany, Fetch, ReserveJob, UnsuspendJob, Unsuspend, UngatePod,
       MarkUnschedulable, GetReservations,
       TaskStep, TaskFetch, PatchPod, RemoveGate, CleanupFetch, vars,
       fluxionVars, objectVars

LEMMA Steps ==
  [Next]_vars => \/ Quiet
                \/ Match \/ DeleteFluxion
                 \/ \E o \in Objects : Bind(o) \/ DeletePod(o) \/ DeleteObject(o)
BY DEF Next, WorkStep, CleanupStep, Deletion, Quiet

LEMMA StepGraph ==
  ASSUME TypeOK, MarksInv, BoundInv, [Next]_vars
  PROVE  GraphStep
BY Steps, QuietSteps, QuietGraph, MatchGraph, DeleteFluxionGraph, BindGraph, DeletionGraph

-----------------------------------------------------------------------------
(* Where the names of a state come from. *)

LabelsFrom ==
  \A o \in Objects :
     \/ label'[o] = label[o]
     \/ /\ tpc # "idle" /\ task.object = o
        /\ label'[o] = [id |-> task.id, nodes |-> task.nodes]
     \/ pc = "release" /\ queue[cur].object = o /\ label'[o] = resp

TasksFrom ==
  \A t \in tasks' :
     \/ t \in tasks
     \/ tpc # "idle" /\ t = task
     \/ /\ pc = "release"
        /\ t.object = queue[cur].object /\ t.id = resp.id /\ t.nodes = resp.nodes

TaskFrom ==
  tpc' # "idle" =>
     \/ tpc # "idle" /\ task' = task
     \/ \E t \in tasks : task'.object = t.object /\ task'.id = t.id /\ task'.nodes = t.nodes

ReplyFrom ==
  pc' = "release" =>
     \/ pc = "release" /\ cur' = cur /\ resp' = resp
     \/ \E nodes \in SUBSET Slots :
          /\ pc = "match" /\ cur' = cur /\ resp' = [id |-> nextId, nodes |-> nodes]
          /\ Allocate(queue[cur].object, nodes)

LEMMA QuietNames ==
  ASSUME TypeOK, UNCHANGED <<label, tasks, tpc, task, pc, cur, resp>>
  PROVE  LabelsFrom /\ TasksFrom /\ TaskFrom /\ ReplyFrom
BY Zenon DEF LabelsFrom, TasksFrom, TaskFrom, ReplyFrom

LEMMA TaskNames ==
  ASSUME TypeOK, TaskStep
  PROVE  LabelsFrom /\ TasksFrom /\ TaskFrom /\ ReplyFrom
<1>1. ReplyFrom
  BY DEF ReplyFrom, TaskStep, TaskFetch, PatchPod, RemoveGate, workVars
<1>2. ASSUME NEW t \in tasks, TaskFetch(t)
      PROVE  LabelsFrom /\ TasksFrom /\ TaskFrom
  <2>1. t \in Task
    BY DEF TypeOK
  <2>2. task'.object = t.object /\ task'.id = t.id /\ task'.nodes = t.nodes
    BY <1>2, <2>1 DEF TaskFetch, Task
  <2> QED
    BY <1>2, <2>2 DEF TaskFetch, LabelsFrom, TasksFrom, TaskFrom, objectVars
<1>3. ASSUME PatchPod PROVE LabelsFrom /\ TasksFrom /\ TaskFrom
  <2>1. tpc # "idle"
    BY <1>3 DEF PatchPod
  <2>2. LabelsFrom
    BY <1>3, <2>1, Zenon DEF PatchPod, LabelPod, LabelsFrom, TypeOK
  <2>3. TasksFrom /\ TaskFrom
    BY <1>3, <2>1 DEF PatchPod, TaskRetry, TasksFrom, TaskFrom
  <2> QED
    BY <2>2, <2>3
<1>4. ASSUME RemoveGate PROVE LabelsFrom /\ TasksFrom /\ TaskFrom
  BY <1>4, Zenon DEF RemoveGate, TaskRetry, LabelsFrom, TasksFrom, TaskFrom
<1> QED
  BY <1>1, <1>2, <1>3, <1>4 DEF TaskStep

LEMMA WorkNames ==
  ASSUME TypeOK, WorkStep
  PROVE  LabelsFrom /\ TasksFrom /\ TaskFrom /\ ReplyFrom
<1>1. TaskFrom
  BY Zenon DEF WorkStep, Match, ReserveJob, UnsuspendJob, UngatePod, MarkUnschedulable,
         GetReservations,
         taskVars, TaskFrom
<1>2. ReplyFrom
  <2>1. CASE Match
    BY <2>1 DEF Match, ReplyFrom, Continue, Retry
  <2>2. CASE pc' # "release"
    BY <2>2 DEF ReplyFrom
  <2>3. Match \/ pc' # "release"
    BY DEF WorkStep, ReserveJob, UnsuspendJob, UngatePod, MarkUnschedulable,
           GetReservations, Retry, Finish
  <2> QED
    BY <2>1, <2>2, <2>3
<1>3. LabelsFrom
  <2>1. CASE UnsuspendJob
    BY <2>1, Zenon DEF UnsuspendJob, Unsuspend, LabelsFrom, TypeOK, objectVars
  <2>2. UnsuspendJob \/ UNCHANGED label
    BY Zenon DEF WorkStep, Match, ReserveJob, UngatePod, MarkUnschedulable,
           GetReservations, objectVars
  <2> QED
    BY <2>1, <2>2 DEF LabelsFrom
<1>4. TasksFrom
  <2>1. CASE UngatePod
    BY <2>1 DEF UngatePod, TasksFrom
  <2>2. UngatePod \/ UNCHANGED tasks
    BY Zenon DEF WorkStep, Match, ReserveJob, UnsuspendJob, MarkUnschedulable,
           GetReservations
  <2> QED
    BY <2>1, <2>2 DEF TasksFrom
<1> QED
  BY <1>1, <1>2, <1>3, <1>4

LEMMA StepNames ==
  ASSUME TypeOK, [Next]_vars
  PROVE  LabelsFrom /\ TasksFrom /\ TaskFrom /\ ReplyFrom
<1>1. CASE \/ \E batch \in SetOfBatches : InsertMany(batch)
           \/ CleanupStep
           \/ \E o \in Objects : Bind(o)
           \/ Deletion
           \/ UNCHANGED vars
  <2>1. UNCHANGED <<label, tasks, tpc, task, pc, cur, resp>>
    BY <1>1, Zenon DEF InsertMany, CleanupStep, CleanupFetch, DeleteFluxion, Bind,
                Deletion, DeletePod, DeleteObject, vars, workVars, taskVars, objectVars
  <2> QED
    BY <2>1, QuietNames
<1>2. CASE \E i \in DOMAIN queue : Fetch(i)
  BY <1>2 DEF Fetch, LabelsFrom, TasksFrom, TaskFrom, ReplyFrom, taskVars, objectVars
<1> QED
  BY <1>1, <1>2, TaskNames, WorkNames DEF Next

(* The allocation that Match makes is held. *)
LEMMA AllocatedIsHeld ==
  ASSUME TypeOK, MarksInv, NEW o \in Objects, NEW nodes \in SUBSET Slots,
         NEW id, id = nextId, Allocate(o, nodes)
  PROVE  Held(o, id, nodes)'
<1> DEFINE new == [id |-> nextId, object |-> o, nodes |-> nodes, reserved |-> FALSE]
<1>1. nextId \in Nat /\ nextId' = nextId + 1 /\ graph' = graph \cup {new}
  BY IdsAreNat DEF Allocate, Admit
<1>2. \A a \in graph : a.id # nextId
  BY <1>1, IdsAreNat DEF MarksInv
<1>3. Cardinality(nodes) = Size[o]
  BY DEF Allocate
<1>4. new.id = nextId /\ new.object = o /\ new.nodes = nodes /\ new.reserved = FALSE
  OBVIOUS
<1> HIDE DEF new
<1>5. \A a \in graph' : a.id = id => a = new
  BY <1>1, <1>2
<1>6. id \in 0 .. nextId' - 1
  BY <1>1
<1> QED
  BY <1>1, <1>3, <1>4, <1>5, <1>6, Zenon DEF Held

LEMMA NamesAreHeld ==
  ASSUME TypeOK, QueueInv, AllocInv, TypeOK', QueueKept, GraphStep,
         LabelsFrom, TasksFrom, TaskFrom, ReplyFrom
  PROVE  NamedIsHeld'
<1>1. Id \subseteq Nat
  BY ConstantsAssumption DEF Id
<1>2. \A o \in Objects, id \in Id, nodes \in SUBSET Slots :
        Held(o, id, nodes) => Held(o, id, nodes)'
  BY <1>1, HeldStays
<1>3. pc \in {"match", "release"} => queue[cur].object \in Objects /\ cur \in DOMAIN queue
  BY JobInHand
<1>4. pc = "release" => Held(queue[cur].object, resp.id, resp.nodes)
                        /\ resp.id \in Id /\ resp.nodes \in SUBSET Slots
  BY Zenon DEF AllocInv, NamedIsHeld, QueueInv, TypeOK, Label
<1>5. tpc # "idle" => Held(task.object, task.id, task.nodes)
                      /\ task.object \in Objects /\ task.id \in Id
                      /\ task.nodes \in SUBSET Slots
  BY DEF AllocInv, NamedIsHeld, TypeOK, Task
<1>6. \A t \in tasks : /\ Held(t.object, t.id, t.nodes)
                       /\ t.object \in Objects /\ t.id \in Id /\ t.nodes \in SUBSET Slots
  BY Zenon DEF AllocInv, NamedIsHeld, TypeOK, Task
<1>7. ASSUME NEW o \in Objects, NEW l, l = label'[o], l # Unlabelled
      PROVE  Held(o, l.id, l.nodes)'
  <2>1. CASE l = label[o]
    <3>1. Held(o, l.id, l.nodes)
      BY <1>7, <2>1 DEF AllocInv, NamedIsHeld
    <3>2. l \in Label
      BY <2>1 DEF TypeOK
    <3>3. l.id \in Id /\ l.nodes \in SUBSET Slots
      <4>1. l.id \in Nat
        BY <3>1 DEF Held
      <4> QED
        BY <3>2, <4>1 DEF Label, NoId
    <3> QED
      BY <1>2, <3>1, <3>3
  <2>2. CASE tpc # "idle" /\ task.object = o
             /\ l = [id |-> task.id, nodes |-> task.nodes]
    <3>1. l.id = task.id /\ l.nodes = task.nodes
      BY <2>2
    <3> QED
      BY <1>2, <1>5, <2>2, <3>1, Zenon
  <2>3. CASE pc = "release" /\ queue[cur].object = o /\ l = resp
    BY <1>2, <1>4, <2>3
  <2> QED
    BY <1>7, <2>1, <2>2, <2>3, Zenon DEF LabelsFrom
<1>8. ASSUME NEW t, t \in tasks'
      PROVE  Held(t.object, t.id, t.nodes)'
  BY <1>2, <1>3, <1>4, <1>5, <1>6, <1>8, Zenon DEF TasksFrom
<1>9. ASSUME NEW t, t = task', tpc' # "idle"
      PROVE  Held(t.object, t.id, t.nodes)'
  BY <1>2, <1>5, <1>6, <1>9 DEF TaskFrom
<1>10. ASSUME NEW o, o = queue'[cur'].object, NEW r, r = resp', pc' = "release"
       PROVE  Held(o, r.id, r.nodes)'
  <2>1. CASE pc = "release" /\ cur' = cur /\ resp' = resp
    <3>1. o = queue[cur].object
      BY <1>3, <1>10, <2>1 DEF QueueKept
    <3> QED
      BY <1>2, <1>3, <1>4, <1>10, <2>1, <3>1, Zenon
  <2>2. ASSUME NEW nodes \in SUBSET Slots, pc = "match", cur' = cur,
               resp' = [id |-> nextId, nodes |-> nodes],
               Allocate(queue[cur].object, nodes)
        PROVE  Held(o, r.id, r.nodes)'
    <3>1. o = queue[cur].object /\ o \in Objects
      BY <1>3, <1>10, <2>2, Zenon DEF QueueKept
    <3>2. r.id = nextId /\ r.nodes = nodes
      BY <1>10, <2>2, Zenon
    <3> QED
      BY <2>2, <3>1, <3>2, AllocatedIsHeld DEF AllocInv
  <2> QED
    BY <1>10, <2>1, <2>2, Zenon DEF ReplyFrom
<1> QED
  BY <1>7, <1>8, <1>9, <1>10 DEF NamedIsHeld

-----------------------------------------------------------------------------
(* Where the ids to be cancelled come from. *)

DoomedFrom ==
  \A id \in Doomed' :
     \/ id \in Doomed
     \/ \E o \in Objects : id = label[o].id /\ id \in Id
                           /\ (DeletePod(o) \/ DeleteObject(o))

PromisedFrom ==
  \A id \in Promised' :
     \/ id \in Promised
     \/ id = nextId /\ Admit(queue[cur].object, {}, TRUE)

LEMMA AppendDoomed ==
  ASSUME NEW c \in CancelJob, cancels \in Seq(CancelJob),
         cancels' = Append(cancels, c), NEW i \in DOMAIN cancels'
  PROVE  cancels'[i] = c \/ (i \in DOMAIN cancels /\ cancels'[i] = cancels[i])
OBVIOUS

LEMMA DeletionDoomed ==
  ASSUME TypeOK, NEW o \in Objects, DeletePod(o) \/ DeleteObject(o)
  PROVE  DoomedFrom
<1>1. label[o] \in Label /\ OtherTypes
  BY DEF TypeOK, OtherTypes
<1>2. UNCHANGED <<cpc, cancel>>
  BY Zenon DEF DeletePod, DeleteObject, cleanVars
<1>3. \/ cancels' = cancels
      \/ /\ label[o].id \in Id
         /\ cancels' = Append(cancels, [id |-> label[o].id, attempts |-> 0])
  BY <1>1, CleanupInserts, Zenon DEF DeletePod, DeleteObject
<1>4. CASE cancels' = cancels
  BY <1>2, <1>4 DEF DoomedFrom, Doomed
<1>5. ASSUME label[o].id \in Id,
             cancels' = Append(cancels, [id |-> label[o].id, attempts |-> 0])
      PROVE  DoomedFrom
  <2> DEFINE c == [id |-> label[o].id, attempts |-> 0]
  <2>1. c \in CancelJob /\ c.id = label[o].id
    BY <1>5 DEF CancelJob
  <2> HIDE DEF c
  <2>2. cancels' = Append(cancels, c) /\ cancels \in Seq(CancelJob)
    BY <1>5 DEF c, TypeOK
  <2>3. \A i \in DOMAIN cancels' :
          cancels'[i] = c \/ (i \in DOMAIN cancels /\ cancels'[i] = cancels[i])
    BY <2>1, <2>2, AppendDoomed
  <2> QED
    BY <1>2, <1>5, <2>1, <2>3, Zenon DEF DoomedFrom, Doomed
<1> QED
  BY <1>3, <1>4, <1>5

LEMMA CleanupDoomed ==
  ASSUME TypeOK, CleanupStep
  PROVE  DoomedFrom
<1>1. ASSUME NEW i \in DOMAIN cancels, CleanupFetch(i) PROVE Doomed' \subseteq Doomed
  <2>1. cancels[i] \in CancelJob /\ cancels \in Seq(CancelJob)
    BY DEF TypeOK
  <2>2. cancel'.id = cancels[i].id
    BY <1>1, <2>1 DEF CleanupFetch, CancelJob
  <2>3. \A k \in DOMAIN cancels' : \E m \in DOMAIN cancels : cancels'[k] = cancels[m]
    BY <1>1, <2>1, RemoveAtType DEF CleanupFetch
  <2> QED
    BY <2>2, <2>3 DEF Doomed
<1>2. ASSUME DeleteFluxion PROVE Doomed' \subseteq Doomed
  <2>1. cancel \in CancelJob /\ cancels \in Seq(CancelJob) /\ cpc = "cancel" /\ cpc' = "idle"
    BY <1>2 DEF TypeOK, DeleteFluxion
  <2>2. cancels' = cancels \/ cancels' = Append(cancels, cancel)
    BY <1>2 DEF DeleteFluxion, CleanupRetry
  <2>3. \A k \in DOMAIN cancels' :
          cancels'[k] = cancel \/ (k \in DOMAIN cancels /\ cancels'[k] = cancels[k])
    BY <2>1, <2>2, AppendDoomed
  <2> QED
    BY <2>1, <2>3 DEF Doomed
<1> QED
  BY <1>1, <1>2 DEF CleanupStep, DoomedFrom

LEMMA StepDoomed ==
  ASSUME TypeOK, [Next]_vars
  PROVE  DoomedFrom
<1>1. \/ UNCHANGED <<cancels, cpc, cancel>>
      \/ CleanupStep
      \/ \E o \in Objects : DeletePod(o) \/ DeleteObject(o)
  BY Zenon DEF Next, InsertMany, Fetch, WorkStep, Match, ReserveJob, UnsuspendJob,
         UngatePod, MarkUnschedulable, GetReservations, TaskStep, TaskFetch, PatchPod,
         RemoveGate, Bind, Deletion, vars, cleanVars
<1>2. CASE UNCHANGED <<cancels, cpc, cancel>>
  BY <1>2 DEF DoomedFrom, Doomed
<1> QED
  BY <1>1, <1>2, CleanupDoomed, DeletionDoomed

LEMMA StepPromised ==
  ASSUME TypeOK, [Next]_vars
  PROVE  PromisedFrom
<1>1. CASE UNCHANGED <<reservations, pc, resp>>
  BY <1>1, Zenon DEF PromisedFrom, Promised
<1>2. CASE \E i \in DOMAIN queue : Fetch(i)
  BY <1>2, Zenon DEF Fetch, PromisedFrom, Promised
<1>3. CASE Match
  <2>1. reservations' = reservations /\ pc # "reserve"
    BY <1>3, Zenon DEF Match
  <2>2. \/ pc' # "reserve"
        \/ resp'.id = nextId /\ Admit(queue[cur].object, {}, TRUE)
    <3>1. \/ Continue("release") \/ Continue("reject") \/ Retry
          \/ Reserve(queue[cur].object) /\ resp' = [id |-> nextId, nodes |-> {}]
      BY <1>3, Zenon DEF Match
    <3>2. Continue("release") => pc' = "release"
      BY DEF Continue
    <3>3. Continue("reject") => pc' = "reject"
      BY DEF Continue
    <3>4. Retry => pc' = "idle"
      BY DEF Retry
    <3>5. CASE Reserve(queue[cur].object) /\ resp' = [id |-> nextId, nodes |-> {}]
      <4>1. resp'.id = nextId
        BY <3>5
      <4>2. Admit(queue[cur].object, {}, TRUE)
        BY <3>5, Zenon DEF Reserve
      <4> QED
        BY <4>1, <4>2, Zenon
    <3>6. CASE Continue("release") \/ Continue("reject") \/ Retry
      <4>1. pc' \in {"release", "reject", "idle"}
        BY <3>2, <3>3, <3>4, <3>6
      <4> QED
        BY <4>1, Zenon
    <3> QED
      BY <3>1, <3>5, <3>6, Zenon
  <2> QED
    BY <2>1, <2>2, Zenon DEF PromisedFrom, Promised
<1>4. CASE ReserveJob
  BY <1>4, Zenon DEF ReserveJob, Retry, PromisedFrom, Promised
<1>5. CASE UnsuspendJob \/ UngatePod \/ MarkUnschedulable
  BY <1>5, Zenon DEF UnsuspendJob, UngatePod, MarkUnschedulable, Retry, Finish,
              PromisedFrom, Promised
<1>6. CASE GetReservations
  BY <1>6, Zenon DEF GetReservations, Retry, Finish, PromisedFrom, Promised
<1>7. ~ WorkStep /\ ~ (\E i \in DOMAIN queue : Fetch(i))
        => UNCHANGED <<reservations, pc, resp>>
  BY Zenon DEF Next, InsertMany, TaskStep, TaskFetch, PatchPod, RemoveGate, CleanupStep,
         CleanupFetch, DeleteFluxion, Bind, Deletion, DeletePod, DeleteObject,
         vars, workVars
<1> QED
  BY <1>1, <1>2, <1>3, <1>4, <1>5, <1>6, <1>7 DEF WorkStep

LEMMA DeletedIsDoomed ==
  ASSUME TypeOK, TypeOK', AllocInv, GraphStep, NEW o \in Objects,
         DeletePod(o) \/ DeleteObject(o), NEW id \in Id, id = label[o].id
  PROVE  IsDoomed(id)'
<1>1. label[o] # Unlabelled
  <2>1. id # NoId
    BY ConstantsAssumption DEF Id, NoId
  <2>2. Unlabelled.id = NoId
    BY DEF Unlabelled
  <2> QED
    BY <2>1, <2>2, Zenon
<1>2. Held(o, id, label[o].nodes)
  BY <1>1, Zenon DEF AllocInv, NamedIsHeld
<1>3. \A a \in graph : a.id = id => a.object = o
  BY <1>2 DEF Held
<1>4. id < nextId
  BY <1>2, IdsAreNat DEF Held
<1>5. UNCHANGED <<graph, nextId>>
  BY Zenon DEF DeletePod, DeleteObject, fluxionVars
<1>6. ~ Whole(o)'
  BY DeletionBreaks, Zenon DEF AllocInv
<1>7. \A a \in graph' : a.id = id => ~ Whole(a.object)'
  <2> TAKE a \in graph'
  <2> HAVE a.id = id
  <2>1. a.object = o
    BY <1>3, <1>5
  <2> QED
    BY <1>6, <2>1
<1> QED
  BY <1>4, <1>5, <1>7 DEF IsDoomed

LEMMA ReservedIsPromise ==
  ASSUME TypeOK, MarksInv, NEW o, Admit(o, {}, TRUE), NEW id, id = nextId
  PROVE  IsPromise(id)'
<1> DEFINE new == [id |-> nextId, object |-> o, nodes |-> {}, reserved |-> TRUE]
<1>1. nextId \in Nat /\ nextId' = nextId + 1 /\ graph' = graph \cup {new}
  BY IdsAreNat DEF Admit
<1>2. \A a \in graph : a.id # nextId
  BY <1>1, IdsAreNat DEF MarksInv
<1>3. new.reserved = TRUE
  OBVIOUS
<1> HIDE DEF new
<1>4. \A a \in graph' : a.id = id => a = new
  BY <1>1, <1>2
<1> QED
  BY <1>1, <1>3, <1>4 DEF IsPromise

LEMMA DoomedType == TypeOK => Doomed \subseteq Id /\ Id \subseteq Nat
<1> SUFFICES ASSUME TypeOK PROVE Doomed \subseteq Id
  BY IdsAreNat
<1>1. \A i \in DOMAIN cancels : cancels[i] \in CancelJob
  BY DEF TypeOK
<1>2. cpc = "cancel" => cancel \in CancelJob
  BY DEF TypeOK
<1> QED
  BY <1>1, <1>2 DEF Doomed, CancelJob

LEMMA PromisedType == TypeOK /\ QueueInv => Promised \subseteq Id
BY Zenon DEF TypeOK, QueueInv, Promised

LEMMA MarksKept ==
  ASSUME TypeOK, QueueInv, AllocInv, TypeOK', GraphStep, DoomedFrom, PromisedFrom
  PROVE  MarksInv'
<1>1. \A a \in graph' : a.id < nextId'
  <2> TAKE a \in graph'
  <2>1. CASE a \in graph
    <3>1. a.id < nextId /\ a.id \in Nat /\ nextId \in Nat /\ nextId <= nextId'
      BY <2>1, IdsAreNat DEF AllocInv, MarksInv, GraphStep
    <3>2. nextId' \in Nat
      BY NewIdsAreNat
    <3> QED
      BY <3>1, <3>2
  <2> QED
    BY <2>1 DEF GraphStep
<1>2. ASSUME NEW id, id \in Doomed' PROVE IsDoomed(id)'
  <2>1. CASE id \in Doomed
    BY <2>1, MarkStays, DoomedType DEF AllocInv, MarksInv
  <2> QED
    BY <1>2, <2>1, DeletedIsDoomed DEF DoomedFrom
<1>3. ASSUME NEW id, id \in Promised' PROVE IsPromise(id)'
  <2>1. CASE id \in Promised
    BY <2>1, MarkStays, DoomedType, PromisedType DEF AllocInv, MarksInv
  <2> QED
    BY <1>3, <2>1, ReservedIsPromise, Zenon DEF PromisedFrom, AllocInv
<1> QED
  BY <1>1, <1>2, <1>3 DEF MarksInv

-----------------------------------------------------------------------------
LEMMA BoundKept ==
  ASSUME TypeOK, TypeOK', AllocInv, GraphStep, [Next]_vars
  PROVE  BoundInv'
<1>1. CASE UNCHANGED bound
  BY <1>1, CoveredStays DEF AllocInv, BoundInv
<1>2. ASSUME NEW o \in Objects, DeletePod(o) \/ DeleteObject(o)
      PROVE  BoundInv'
  <2>1. /\ Cardinality(bound'[o]) < Size[o]
        /\ \A p \in Objects \ {o} : bound'[p] = bound[p]
    BY <1>2, DeletionBreaks DEF AllocInv
  <2>2. IsFiniteSet(bound'[o]) /\ Cardinality(bound'[o]) \in Nat /\ Size[o] \in Nat
    BY ConstantsAssumption, FS_Subset, FS_CardinalityType DEF TypeOK
  <2>3. Cardinality(bound'[o]) <= Size[o] /\ Covered(o)'
    <3>1. Cardinality(bound'[o]) <= Size[o] /\ Cardinality(bound'[o]) # Size[o]
      BY <2>1, <2>2
    <3> QED
      BY <3>1, Zenon DEF Covered
  <2>4. \A p \in Objects \ {o} : Cardinality(bound'[p]) <= Size[p] /\ Covered(p)'
    BY <2>1, CoveredStays DEF AllocInv, BoundInv
  <2> QED
    BY <2>3, <2>4 DEF BoundInv
<1>3. ASSUME NEW o \in Objects, Bind(o)
      PROVE  BoundInv'
  <2>1. label[o] # Unlabelled /\ Whole(o)
    <3>1. o \in exists /\ bound[o] = {} /\ label[o].nodes # {}
      BY <1>3 DEF Bind
    <3>2. Unlabelled.nodes = {}
      BY DEF Unlabelled
    <3> QED
      BY <3>1, <3>2 DEF Whole
  <2>2. Held(o, label[o].id, label[o].nodes)
    BY <2>1 DEF AllocInv, NamedIsHeld
  <2>3. PICK a \in graph : a.id = label[o].id /\ a.object = o /\ a.nodes = label[o].nodes
    BY <2>1, <2>2, Zenon DEF Held
  <2>4. ~ a.reserved /\ Cardinality(label[o].nodes) = Size[o]
    BY <2>2, <2>3 DEF Held
  <2>5. /\ graph' = graph /\ bound'[o] = label[o].nodes
        /\ \A p \in Objects \ {o} : bound'[p] = bound[p]
    BY <1>3, Zenon DEF Bind, fluxionVars, TypeOK
  <2>6. Cardinality(bound'[o]) <= Size[o] /\ Covered(o)'
    <3>1. Size[o] \in Nat /\ Cardinality(bound'[o]) = Size[o]
      BY <2>4, <2>5, ConstantsAssumption
    <3>2. Cardinality(bound'[o]) <= Size[o]
      BY <3>1
    <3> QED
      BY <2>3, <2>4, <2>5, <3>2, Zenon DEF Covered
  <2>7. \A p \in Objects \ {o} : Cardinality(bound'[p]) <= Size[p] /\ Covered(p)'
    BY <2>5, CoveredStays DEF AllocInv, BoundInv
  <2> QED
    BY <2>6, <2>7 DEF BoundInv
<1>4. CASE Match \/ DeleteFluxion
  BY <1>1, <1>4, Zenon DEF Match, DeleteFluxion, objectVars
<1> QED
  BY <1>1, <1>2, <1>3, <1>4, Steps, QuietSteps

LEMMA InitAlloc == Init => AllocInv
<1> SUFFICES ASSUME Init PROVE AllocInv
  OBVIOUS
<1>1. NamedIsHeld
  BY Zenon DEF Init, NamedIsHeld
<1>2. MarksInv
  <2>1. graph = {}
    BY DEF Init
  <2>2. Doomed = {}
    BY DEF Init, Doomed
  <2>3. Promised = {}
    BY DEF Init, Promised
  <2> QED
    BY <2>1, <2>2, <2>3 DEF MarksInv
<1>3. BoundInv
  <2>1. Cardinality({}) = 0
    BY FS_EmptySet
  <2>2. \A o \in Objects : Size[o] \in Nat /\ Size[o] > 0
    BY ConstantsAssumption
  <2> SUFFICES ASSUME NEW o \in Objects
               PROVE  Cardinality(bound[o]) <= Size[o] /\ Covered(o)
    BY DEF BoundInv
  <2>3. bound[o] = {}
    BY DEF Init
  <2>4. Cardinality(bound[o]) <= Size[o] /\ Cardinality(bound[o]) # Size[o]
    BY <2>1, <2>2, <2>3
  <2> QED
    BY <2>4 DEF Covered
<1> QED
  BY <1>1, <1>2, <1>3 DEF AllocInv

LEMMA NextAlloc ==
  TypeOK /\ QueueInv /\ OrderInv /\ AllocInv /\ [Next]_vars => AllocInv'
<1> SUFFICES ASSUME TypeOK, QueueInv, OrderInv, AllocInv, [Next]_vars
             PROVE  AllocInv'
  OBVIOUS
<1>1. TypeOK' /\ QueueKept
  BY NextTypes
<1>2. GraphStep
  BY StepGraph DEF AllocInv
<1>3. NamedIsHeld'
  BY <1>1, <1>2, StepNames, NamesAreHeld
<1>4. MarksInv'
  BY <1>1, <1>2, StepDoomed, StepPromised, MarksKept
<1>5. BoundInv'
  BY <1>1, <1>2, BoundKept
<1> QED
  BY <1>3, <1>4, <1>5 DEF AllocInv

(* The reply in the job worker's hands, every ungate job and the labels of   *)
(* every pod name an allocation that Fluxion holds for their object, until a *)
(* pod of the object is deleted.                                             *)
THEOREM WhatIsNamedIsHeld == Spec => []NamedIsHeld
<1>1. Init => TypeOK /\ QueueInv /\ OrderInv /\ AllocInv
  BY InitInv, InitAlloc
<1>2. TypeOK /\ QueueInv /\ OrderInv /\ AllocInv /\ [Next]_vars
        => (TypeOK /\ QueueInv /\ OrderInv /\ AllocInv)'
  BY NextTypes, NextAlloc
<1>3. AllocInv => NamedIsHeld
  BY DEF AllocInv
<1> QED
  BY <1>1, <1>2, <1>3, PTL DEF Spec

(* The pods of an object of which none was deleted run on nodes that Fluxion *)
(* holds for the object, whatever was retried, cleaned up or labelled again. *)
THEOREM PodsRunOnTheirAllocation == Spec => []BoundIsAllocated
<1>1. Init => TypeOK /\ QueueInv /\ OrderInv /\ AllocInv
  BY InitInv, InitAlloc
<1>2. TypeOK /\ QueueInv /\ OrderInv /\ AllocInv /\ [Next]_vars
        => (TypeOK /\ QueueInv /\ OrderInv /\ AllocInv)'
  BY NextTypes, NextAlloc
<1>3. AllocInv => BoundIsAllocated
  BY DEF AllocInv, BoundInv, Covered, BoundIsAllocated
<1> QED
  BY <1>1, <1>2, <1>3, PTL DEF Spec
==============================================================================
