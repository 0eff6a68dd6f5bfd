--------------------------- MODULE FluxQueueProofs ---------------------------
(***************************************************************************)
(* Proofs about FluxQueue, for every set of FluxJobs and names and every   *)
(* number of faults, restarts and resyncs: its safety, that it implements  *)
(* Delivery, and that it sends no FluxJob twice as long as there are none  *)
(* of them.                                                                *)
(***************************************************************************)
EXTENDS FluxQueue, FiniteSetTheorems, TLAPS

(* Rows and river jobs of the present state that the next one keeps. *)
RiverGrows ==
  /\ DOMAIN river \subseteq DOMAIN river'
  /\ \A i \in DOMAIN river : river'[i] = river[i]

RowsKept ==
  \A r \in pending : r \in pending' \/ \E i \in RiverJobs' : river'[i].row = r

-----------------------------------------------------------------------------
LEMMA InitTypeOK == Init => TypeOK
<1> SUFFICES ASSUME Init PROVE TypeOK
  OBVIOUS
<1>1. IsFiniteSet(pending)
  BY FS_EmptySet DEF Init
<1>2. Absent \in Version
  BY DEF Absent, Version
<1> QED
  BY <1>1, <1>2 DEF Init, TypeOK, PCs

(* The steps that only touch the API objects and the controller's state. *)
LEMMA WriteType ==
  ASSUME TypeOK, NEW f \in FluxJobs, NEW v \in Version, Write(f, v)
  PROVE  obj' \in [FluxJobs -> Version] /\ events' \in [FluxJobs -> Seq(Version)]
BY DEF TypeOK, Write

LEMMA AbsentType == Absent \in Version
BY DEF Absent, Version

LEMMA NewRowType == TypeOK /\ pc = "enqueue" => NewRow \in Row
BY ConstantsAssumption DEF TypeOK, NewRow, Row, Version

LEMMA SelectType ==
  ASSUME TypeOK, NEW jobs \in SelectPendingByCreation(pending)
  PROVE  /\ jobs \in Seq(Row)
         /\ EasySchedule(jobs) \in Seq(JobArgs)
         /\ \A r \in pending :
              \E i \in DOMAIN EasySchedule(jobs) : EasySchedule(jobs)[i].row = r
         /\ \A i \in DOMAIN EasySchedule(jobs) : EasySchedule(jobs)[i].row \in pending
<1>1. Cardinality(pending) \in Nat
  BY FS_CardinalityType DEF TypeOK
<1>2. jobs \in [1 .. Cardinality(pending) -> pending]
  BY DEF SelectPendingByCreation
<1>3. jobs \in [1 .. Cardinality(pending) -> Row] /\ jobs \in Seq(Row)
  <2>1. jobs \in [1 .. Cardinality(pending) -> Row]
    BY <1>2 DEF TypeOK
  <2> QED
    BY <1>1, <2>1
<1>4. \A i \in DOMAIN jobs : jobs[i] \in Row
  BY <1>3
<1>5. \A i \in DOMAIN jobs :
        [kind |-> "job", row |-> jobs[i], reservation |-> jobs[i].reservation] \in JobArgs
  BY <1>4 DEF JobArgs, Row
<1>6. EasySchedule(jobs) \in [1 .. Cardinality(pending) -> JobArgs]
  BY <1>2, <1>5 DEF EasySchedule
<1>7. EasySchedule(jobs) \in Seq(JobArgs)
  BY <1>1, <1>6
<1>8. \A r \in pending : \E i \in DOMAIN jobs : jobs[i] = r
  BY DEF SelectPendingByCreation
<1>9. DOMAIN EasySchedule(jobs) = DOMAIN jobs
      /\ \A i \in DOMAIN jobs : EasySchedule(jobs)[i].row = jobs[i]
  BY DEF EasySchedule
<1>10. \A i \in DOMAIN jobs : jobs[i] \in pending
  BY <1>2
<1> QED
  BY <1>3, <1>7, <1>8, <1>9, <1>10

(* What one batch adds to river. *)
LEMMA InsertManyType ==
  ASSUME TypeOK,
         river' = river \o Append(batch, ClearReservationJob)
  PROVE  /\ river' \in Seq(JobArgs \cup ReservationArgs)
         /\ Len(river') = Len(river) + Len(batch) + 1
         /\ RiverGrows
         /\ \A i \in 1 .. Len(batch) : river'[Len(river) + i] = batch[i]
         /\ river'[Len(river')] = ClearReservationJob
<1>1. ClearReservationJob \in ReservationArgs
  BY DEF ClearReservationJob, ReservationArgs
<1>2. batch \in Seq(JobArgs \cup ReservationArgs)
  BY DEF TypeOK
<1>3. river \in Seq(JobArgs \cup ReservationArgs)
  BY DEF TypeOK
<1> QED
  BY <1>1, <1>2, <1>3 DEF RiverGrows

-----------------------------------------------------------------------------
(* A step of a running Reconcile that returns. *)
LEMMA ReturnType ==
  ASSUME TypeOK, Return
  PROVE  /\ pc' \in PCs
         /\ cur' \in FluxJobs \cup {None} /\ (pc' # "idle" => cur' \in FluxJobs)
         /\ rd' \in Version
         /\ batch' \in Seq(JobArgs)
BY AbsentType DEF TypeOK, Return, PCs

LEMMA UpdateStatusType ==
  ASSUME TypeOK, pc # "idle",
         NEW status \in {"statusSubmit", "statusError"}, UpdateStatus(status)
  PROVE  TypeOK'
<1>1. cur \in FluxJobs
  BY DEF TypeOK
<1>2. [uid |-> rd.uid, status |-> status] \in Version
  BY DEF TypeOK, Version
<1>3. obj' \in [FluxJobs -> Version] /\ events' \in [FluxJobs -> Seq(Version)]
  BY <1>1, <1>2, WriteType DEF UpdateStatus, TypeOK
<1>4. workqueue' \subseteq FluxJobs
  BY <1>1 DEF UpdateStatus, TypeOK, Requeue
<1>5. faults' \in Nat
  BY DEF UpdateStatus, TypeOK, Fault
<1> QED
  BY <1>3, <1>4, <1>5, ReturnType DEF UpdateStatus, TypeOK, dbVars, boundVars

LEMMA NextTypeOK == TypeOK /\ BatchCoversPending /\ [Next]_vars => TypeOK'
<1> SUFFICES ASSUME TypeOK, BatchCoversPending, [Next]_vars PROVE TypeOK'
  OBVIOUS
<1>1. ASSUME NEW f \in FluxJobs, SubmitFluxJob(f) PROVE TypeOK'
  <2>1. [uid |-> created + 1, status |-> "unset"] \in Version
    BY DEF TypeOK, Version
  <2> QED
    BY <1>1, <2>1, WriteType
    DEF SubmitFluxJob, TypeOK, localVars, dbVars, boundVars
<1>2. ASSUME NEW f \in FluxJobs, WatchDeliver(f) PROVE TypeOK'
  <2>1. Head(events[f]) \in Version /\ Tail(events[f]) \in Seq(Version)
    BY <1>2 DEF WatchDeliver, TypeOK
  <2> QED
    BY <1>2, <2>1 DEF WatchDeliver, TypeOK, localVars, dbVars, boundVars
<1>3. ASSUME NEW f \in FluxJobs, Redeliver(f) PROVE TypeOK'
  BY <1>3 DEF Redeliver, TypeOK, apiVars, localVars, dbVars
<1>4. ASSUME NEW f \in FluxJobs, ReconcileGet(f) PROVE TypeOK'
  BY <1>4 DEF ReconcileGet, TypeOK, PCs, apiVars, localVars, dbVars, boundVars
<1>5. CASE ReconcileDelete
  <2>1. cur \in FluxJobs
    BY <1>5 DEF ReconcileDelete, TypeOK
  <2>2. obj' \in [FluxJobs -> Version] /\ events' \in [FluxJobs -> Seq(Version)]
    BY <1>5, <2>1, AbsentType, WriteType DEF ReconcileDelete, TypeOK
  <2>3. workqueue' \subseteq FluxJobs
    BY <1>5, <2>1 DEF ReconcileDelete, TypeOK, Requeue
  <2>4. faults' \in Nat
    BY <1>5 DEF ReconcileDelete, TypeOK, Fault
  <2> QED
    BY <1>5, <2>2, <2>3, <2>4, ReturnType
    DEF ReconcileDelete, TypeOK, dbVars, boundVars
<1>6. CASE Enqueue
  <2>1. pending' \subseteq Row /\ IsFiniteSet(pending')
    <3>1. NewRow \in Row
      BY <1>6, NewRowType DEF Enqueue
    <3>2. IsFiniteSet(pending \cup {NewRow})
      BY FS_AddElement, Zenon DEF TypeOK
    <3>3. pending' = pending \/ pending' = pending \cup {NewRow}
      BY <1>6 DEF Enqueue, InsertIntoPending
    <3> QED
      BY <3>1, <3>2, <3>3, Zenon DEF TypeOK
  <2>2. inserted' \in Nat /\ faults' \in Nat
    BY <1>6 DEF Enqueue, InsertIntoPending, Fault, TypeOK
  <2>3. pc' \in PCs /\ pc # "idle"
    BY <1>6 DEF Enqueue, PCs
  <2> QED
    BY <1>6, <2>1, <2>2, <2>3 DEF Enqueue, TypeOK, apiVars, localVars, boundVars
<1>7. CASE ScheduleSelect
  <2>1. batch' \in Seq(JobArgs)
    BY <1>7, SelectType DEF ScheduleSelect, TypeOK
  <2>2. faults' \in Nat
    BY <1>7 DEF ScheduleSelect, Fault, TypeOK
  <2>3. pc' \in PCs /\ pc # "idle"
    BY <1>7 DEF ScheduleSelect, PCs
  <2> QED
    BY <1>7, <2>1, <2>2, <2>3
    DEF ScheduleSelect, TypeOK, apiVars, localVars, dbVars, boundVars
<1>8. CASE ScheduleInsertMany
  <2>1. river' \in Seq(JobArgs \cup ReservationArgs)
    BY <1>8, InsertManyType, Zenon DEF ScheduleInsertMany, TypeOK
  <2>2. faults' \in Nat /\ batch' \in Seq(JobArgs)
    <3>1. batch' = batch \/ batch' = << >>
      BY <1>8 DEF ScheduleInsertMany
    <3>2. faults' \in Nat
      BY <1>8 DEF ScheduleInsertMany, Fault, TypeOK
    <3>3. << >> \in Seq(JobArgs)
      OBVIOUS
    <3>4. batch' \in Seq(JobArgs)
      BY <3>1, <3>3, Zenon DEF TypeOK
    <3> QED
      BY <3>2, <3>4
  <2>3. pc' \in PCs /\ pc # "idle"
    BY <1>8 DEF ScheduleInsertMany, PCs
  <2> QED
    BY <1>8, <2>1, <2>2, <2>3
    DEF ScheduleInsertMany, TypeOK, apiVars, localVars, boundVars
<1>9. CASE ScheduleDelete
  <2>1. pending' \subseteq pending /\ faults' \in Nat
    BY <1>9 DEF ScheduleDelete, DeleteFromPending, Fault, TypeOK
  <2>2. pending' \subseteq Row /\ IsFiniteSet(pending')
    BY <2>1, FS_Subset DEF TypeOK
  <2>3. batch' \in Seq(JobArgs)
    BY <1>9 DEF ScheduleDelete, BatchCoversPending, TypeOK
  <2>4. pc' \in PCs /\ pc # "idle"
    BY <1>9 DEF ScheduleDelete, PCs
  <2> QED
    BY <1>9, <2>1, <2>2, <2>3, <2>4
    DEF ScheduleDelete, TypeOK, apiVars, localVars, boundVars
<1>10. CASE ReconcileSubmitted
  BY <1>10, UpdateStatusType DEF ReconcileSubmitted
<1>11. CASE ReconcileFailed
  BY <1>11, UpdateStatusType DEF ReconcileFailed
<1>12. CASE Crash
  BY <1>12, AbsentType DEF Crash, TypeOK, PCs, dbVars
<1>13. CASE UNCHANGED vars
  BY <1>13 DEF vars, TypeOK
<1> QED
  BY <1>1, <1>2, <1>3, <1>4, <1>5, <1>6, <1>7, <1>8, <1>9, <1>10, <1>11,
     <1>12, <1>13 DEF Next, Reconciler

-----------------------------------------------------------------------------
(* Nothing that is queued is dropped by a step. *)
LEMMA StepKeepsRows ==
  ASSUME TypeOK, BatchCoversPending, [Next]_vars
  PROVE  RiverGrows /\ RowsKept
<1>1. ASSUME UNCHANGED dbVars PROVE RiverGrows /\ RowsKept
  BY <1>1 DEF dbVars, RiverGrows, RowsKept
<1>2. CASE Enqueue
  BY <1>2 DEF Enqueue, InsertIntoPending, RiverGrows, RowsKept
<1>3. CASE ScheduleInsertMany
  <2>1. RiverGrows
    BY <1>3, InsertManyType, Zenon DEF ScheduleInsertMany, RiverGrows
  <2> QED
    BY <1>3, <2>1 DEF ScheduleInsertMany, RowsKept
<1>4. CASE ScheduleDelete
  <2>1. \A r \in pending : \E i \in RiverJobs : river[i].row = r
    BY <1>4 DEF ScheduleDelete, BatchCoversPending
  <2>2. river' = river
    BY <1>4 DEF ScheduleDelete
  <2> QED
    BY <2>1, <2>2 DEF RiverGrows, RowsKept, RiverJobs
<1>5. ASSUME NEW f \in FluxJobs,
             SubmitFluxJob(f) \/ WatchDeliver(f) \/ Redeliver(f) \/ ReconcileGet(f)
      PROVE  UNCHANGED dbVars
  BY <1>5 DEF SubmitFluxJob, WatchDeliver, Redeliver, ReconcileGet
<1>6. ReconcileDelete \/ ScheduleSelect \/ ReconcileSubmitted \/ ReconcileFailed
        \/ Crash \/ UNCHANGED vars
      => UNCHANGED dbVars
  BY DEF ReconcileDelete, ScheduleSelect, ReconcileSubmitted, ReconcileFailed,
         UpdateStatus, Crash, vars, dbVars
<1> QED
  BY <1>1, <1>2, <1>3, <1>4, <1>5, <1>6 DEF Next, Reconciler

LEMMA JobsStay ==
  ASSUME TypeOK, RiverGrows
  PROVE  \A i \in RiverJobs : i \in RiverJobs' /\ river'[i] = river[i]
BY DEF RiverGrows, RiverJobs

LEMMA QueuedStays ==
  ASSUME TypeOK, RiverGrows, RowsKept, NEW uid, Queued(uid)
  PROVE  Queued(uid)'
<1>1. CASE \E i \in RiverJobs : river[i].row.uid = uid
  BY <1>1, JobsStay DEF Queued
<1>2. CASE \E r \in pending : r.uid = uid
  BY <1>2 DEF Queued, RowsKept
<1> QED
  BY <1>1, <1>2 DEF Queued

-----------------------------------------------------------------------------
(* BatchCoversPending is inductive. *)
LEMMA NextBatchCovers ==
  TypeOK /\ BatchCoversPending /\ [Next]_vars => BatchCoversPending'
<1> SUFFICES ASSUME TypeOK, BatchCoversPending, [Next]_vars
             PROVE  BatchCoversPending'
  OBVIOUS
<1>1. ASSUME pc' \notin {"insert", "clear"} PROVE BatchCoversPending'
  BY <1>1 DEF BatchCoversPending
<1>2. ASSUME UNCHANGED <<pc, batch, pending, river>> PROVE BatchCoversPending'
  BY <1>2 DEF BatchCoversPending, RiverJobs
<1>3. CASE ScheduleSelect
  <2>1. CASE pc' = "insert"
    <3>1. PICK jobs \in SelectPendingByCreation(pending) :
            batch' = EasySchedule(jobs)
      BY <1>3, <2>1 DEF ScheduleSelect
    <3>2. batch' # << >> /\ pending' = pending
      BY <1>3, <2>1 DEF ScheduleSelect, dbVars
    <3> QED
      BY <2>1, <3>1, <3>2, SelectType DEF BatchCoversPending
  <2> QED
    BY <1>1, <1>3, <2>1 DEF ScheduleSelect
<1>4. CASE ScheduleInsertMany
  <2>1. CASE pc' = "clear"
    <3>1. /\ river' = river \o Append(batch, ClearReservationJob)
          /\ batch' = batch /\ pending' = pending /\ pc = "insert"
      BY <1>4, <2>1 DEF ScheduleInsertMany
    <3>2. \A i \in 1 .. Len(batch) :
            Len(river) + i \in RiverJobs' /\ river'[Len(river) + i] = batch[i]
      <4>1. \A i \in 1 .. Len(batch) : batch[i].kind = "job"
        <5>1. batch \in Seq(JobArgs)
          BY DEF TypeOK
        <5>2. \A i \in 1 .. Len(batch) : batch[i] \in JobArgs
          BY <5>1
        <5> QED
          BY <5>2 DEF JobArgs
      <4>2. Len(river') = Len(river) + Len(batch) + 1
            /\ Len(river) \in Nat /\ Len(batch) \in Nat
            /\ DOMAIN river' = 1 .. Len(river')
        BY <3>1, InsertManyType DEF TypeOK
      <4>3. \A i \in 1 .. Len(batch) : river'[Len(river) + i] = batch[i]
        BY <3>1, InsertManyType
      <4> QED
        BY <4>1, <4>2, <4>3 DEF RiverJobs
    <3>3. DOMAIN batch = 1 .. Len(batch)
      BY DEF TypeOK
    <3>4. \A r \in pending : \E i \in 1 .. Len(batch) : batch[i].row = r
      BY <3>1, <3>3 DEF BatchCoversPending
    <3>5. \A r \in pending' : \E i \in RiverJobs' : river'[i].row = r
      <4> SUFFICES ASSUME NEW r \in pending
                   PROVE  \E i \in RiverJobs' : river'[i].row = r
        BY <3>1, Zenon
      <4>1. PICK i \in 1 .. Len(batch) : batch[i].row = r
        BY <3>4
      <4>2. Len(river) + i \in RiverJobs' /\ river'[Len(river) + i].row = r
        BY <3>2, <4>1
      <4> QED
        BY <4>2
    <3> QED
      BY <2>1, <3>1, <3>5, Zenon DEF BatchCoversPending
  <2> QED
    BY <1>1, <1>4, <2>1 DEF ScheduleInsertMany
<1>5. CASE ScheduleDelete
  BY <1>1, <1>5
  DEF ScheduleDelete, DeleteFromPending, BatchCoversPending, RiverJobs
<1>6. ASSUME NEW f \in FluxJobs,
             SubmitFluxJob(f) \/ WatchDeliver(f) \/ Redeliver(f) \/ ReconcileGet(f)
      PROVE  BatchCoversPending'
  BY <1>1, <1>2, <1>6
  DEF SubmitFluxJob, WatchDeliver, Redeliver, ReconcileGet, dbVars
<1>7. ReconcileDelete \/ ReconcileSubmitted \/ ReconcileFailed \/ Crash
        \/ Enqueue => pc' \notin {"insert", "clear"}
  BY DEF ReconcileDelete, ReconcileSubmitted, ReconcileFailed, UpdateStatus,
         Return, Crash, Enqueue
<1> QED
  BY <1>1, <1>2, <1>3, <1>4, <1>5, <1>6, <1>7 DEF Next, Reconciler, vars

(* FluxQueue's variables keep their types: the type invariant needs to know  *)
(* that the deletion loop has a row left to delete.                          *)
THEOREM TypeCorrect == Spec => [](TypeOK /\ BatchCoversPending)
<1>1. Init => TypeOK /\ BatchCoversPending
  BY InitTypeOK DEF Init, BatchCoversPending
<1>2. TypeOK /\ BatchCoversPending /\ [Next]_vars
        => (TypeOK /\ BatchCoversPending)'
  BY NextTypeOK, NextBatchCovers
<1> QED
  BY <1>1, <1>2, PTL DEF Spec

-----------------------------------------------------------------------------
(* Every row that an insert committed is pending or in river: the batch that *)
(* is deleted row by row was inserted first, in one transaction, and nothing *)
(* else is deleted.  Faults and restarts only lose what is in hand.          *)
THEOREM RowsAreNeverLost == Spec => []NoLostRow
<1>1. Init => NoLostRow
  BY DEF Init, NoLostRow
<1>2. ASSUME TypeOK, BatchCoversPending, NoLostRow, [Next]_vars
      PROVE  NoLostRow'
  <2>1. RiverGrows /\ RowsKept
    BY <1>2, StepKeepsRows
  <2>2. inserted \in Nat
    BY <1>2 DEF TypeOK
  <2>3. \/ inserted' = inserted
        \/ inserted' = inserted + 1 /\ NewRow \in pending'
           /\ NewRow.created = inserted + 1
    <3>1. CASE Enqueue
      BY <3>1 DEF Enqueue, InsertIntoPending, NewRow
    <3>2. CASE ~ Enqueue
      BY <1>2, <3>2, Zenon
      DEF Next, Reconciler, vars, SubmitFluxJob, WatchDeliver, Redeliver,
          ReconcileGet, ReconcileDelete, ReconcileSubmitted, ReconcileFailed,
          UpdateStatus, ScheduleSelect, ScheduleInsertMany, ScheduleDelete, Crash
    <3> QED
      BY <3>1, <3>2
  <2>4. ASSUME NEW stamp \in 1 .. inserted
        PROVE  (\E r \in pending' : r.created = stamp) \/ InRiver(stamp)'
    <3>1. CASE InRiver(stamp)
      BY <1>2, <2>1, <3>1, JobsStay DEF InRiver
    <3>2. CASE \E r \in pending : r.created = stamp
      BY <2>1, <3>2 DEF RowsKept, InRiver
    <3> QED
      BY <1>2, <3>1, <3>2 DEF NoLostRow
  <2>5. ASSUME NEW stamp \in 1 .. inserted', stamp \notin 1 .. inserted
        PROVE  NewRow \in pending' /\ NewRow.created = stamp
    <3>1. inserted' = inserted + 1
      BY <2>3, <2>5
    <3>2. stamp = inserted + 1
      BY <2>2, <2>5, <3>1
    <3> QED
      BY <2>3, <2>5, <3>2
  <2> QED
    BY <2>4, <2>5 DEF NoLostRow
<1> QED
  BY <1>1, <1>2, TypeCorrect, PTL DEF Spec

-----------------------------------------------------------------------------
(* A status that a step stores as Submit is that of the copy in hand, and    *)
(* the copy is the stored FluxJob: a stale one is refused as a conflict.     *)
LEMMA SubmitIsInHand ==
  ASSUME TypeOK, [Next]_vars, NEW f \in FluxJobs,
         obj'[f].status = "statusSubmit"
  PROVE  obj'[f] = obj[f] \/ (pc = "setSubmit" /\ obj'[f].uid = rd.uid)
<1>1. ASSUME obj' = obj PROVE obj'[f] = obj[f]
  BY <1>1
<1>2. ASSUME NEW g \in FluxJobs, NEW v \in Version, Write(g, v)
      PROVE  obj'[f] = IF f = g THEN v ELSE obj[f]
  BY <1>2 DEF Write, TypeOK
<1>3. ASSUME NEW g \in FluxJobs, SubmitFluxJob(g) PROVE obj'[f] = obj[f]
  <2>1. [uid |-> created + 1, status |-> "unset"] \in Version
    BY DEF TypeOK, Version
  <2> QED
    BY <1>2, <1>3, <2>1 DEF SubmitFluxJob
<1>4. CASE ReconcileDelete
  BY <1>1, <1>2, <1>4, AbsentType DEF ReconcileDelete, TypeOK, Absent
<1>5. ASSUME NEW status \in {"statusSubmit", "statusError"}, UpdateStatus(status),
             pc # "idle"
      PROVE  \/ obj'[f] = obj[f]
             \/ obj'[f] = [uid |-> rd.uid, status |-> status]
  <2>1. cur \in FluxJobs /\ [uid |-> rd.uid, status |-> status] \in Version
    BY <1>5, Zenon DEF TypeOK, Version
  <2> QED
    BY <1>1, <1>2, <1>5, <2>1, Zenon DEF UpdateStatus
<1>6. CASE ReconcileSubmitted
  BY <1>5, <1>6 DEF ReconcileSubmitted
<1>7. CASE ReconcileFailed
  BY <1>5, <1>7 DEF ReconcileFailed
<1>8. ASSUME NEW g \in FluxJobs, WatchDeliver(g) \/ Redeliver(g) \/ ReconcileGet(g)
      PROVE  obj' = obj
  BY <1>8 DEF WatchDeliver, Redeliver, ReconcileGet, apiVars
<1>9. Enqueue \/ ScheduleSelect \/ ScheduleInsertMany \/ ScheduleDelete
        \/ Crash \/ UNCHANGED vars => obj' = obj
  BY DEF Enqueue, ScheduleSelect, ScheduleInsertMany, ScheduleDelete, Crash,
         apiVars, vars
<1> QED
  BY <1>1, <1>3, <1>4, <1>6, <1>7, <1>8, <1>9, Zenon DEF Next, Reconciler

LEMMA NextInHand ==
  TypeOK /\ BatchCoversPending /\ InHandIsQueued /\ [Next]_vars
    => InHandIsQueued'
<1> DEFINE Scheduling == {"select", "insert", "clear", "setSubmit"}
<1> SUFFICES ASSUME TypeOK, BatchCoversPending, InHandIsQueued, [Next]_vars,
                    pc' \in Scheduling
             PROVE  Queued(rd.uid)'
  BY DEF InHandIsQueued
<1>1. RiverGrows /\ RowsKept
  BY StepKeepsRows
<1>2. ASSUME pc \in Scheduling, rd' = rd PROVE Queued(rd.uid)'
  BY <1>1, <1>2, QueuedStays DEF InHandIsQueued, Queued
<1>3. CASE Enqueue
  <2>1. NewRow \in pending' /\ NewRow.uid = rd.uid /\ rd' = rd
    BY <1>3 DEF Enqueue, InsertIntoPending, NewRow, localVars
  <2> QED
    BY <2>1 DEF Queued
<1>4. ScheduleSelect \/ ScheduleInsertMany \/ ScheduleDelete
        => pc \in Scheduling /\ rd' = rd
  BY DEF ScheduleSelect, ScheduleInsertMany, ScheduleDelete, localVars
<1>5. ASSUME NEW f \in FluxJobs,
             SubmitFluxJob(f) \/ WatchDeliver(f) \/ Redeliver(f) \/ ReconcileGet(f)
      PROVE  pc \in Scheduling /\ rd' = rd
  BY <1>5 DEF SubmitFluxJob, WatchDeliver, Redeliver, ReconcileGet, localVars
<1>6. ~ (ReconcileDelete \/ ReconcileSubmitted \/ ReconcileFailed \/ Crash)
  BY DEF ReconcileDelete, ReconcileSubmitted, ReconcileFailed, UpdateStatus,
         Return, Crash
<1>7. UNCHANGED vars => pc \in Scheduling /\ rd' = rd
  BY DEF vars
<1> QED
  BY <1>2, <1>3, <1>4, <1>5, <1>6, <1>7 DEF Next, Reconciler

(* A FluxJob that is stored as Submit, which Reconcile deletes without       *)
(* another look at the queue, is in the pending table or in river.           *)
THEOREM SubmittedFluxJobsAreQueued == Spec => []SubmittedIsQueued
<1> DEFINE Inv == InHandIsQueued /\ SubmittedIsQueued
<1>1. Init => Inv
  BY DEF Init, InHandIsQueued, SubmittedIsQueued, Absent
<1>2. ASSUME TypeOK, BatchCoversPending, Inv, [Next]_vars PROVE Inv'
  <2>1. InHandIsQueued'
    BY <1>2, NextInHand
  <2>2. RiverGrows /\ RowsKept
    BY <1>2, StepKeepsRows
  <2>3. ASSUME NEW f \in FluxJobs, (obj[f].status = "statusSubmit")'
        PROVE  Queued(obj[f].uid)'
    <3> DEFINE uid == obj'[f].uid
    <3>1. Queued(uid)
      BY <1>2, <2>3, SubmitIsInHand DEF SubmittedIsQueued, InHandIsQueued
    <3> HIDE DEF uid
    <3>2. \/ \E r \in pending' : r.uid = uid
          \/ \E i \in RiverJobs' : river'[i].row.uid = uid
      BY <1>2, <2>2, <3>1, JobsStay DEF Queued, RowsKept
    <3> QED
      BY <3>2 DEF Queued, uid
  <2>4. SubmittedIsQueued'
    BY <2>3 DEF SubmittedIsQueued
  <2> QED
    BY <2>1, <2>4
<1>3. Spec => []Inv
  BY <1>1, <1>2, TypeCorrect, PTL DEF Spec
<1> QED
  BY <1>3, PTL

-----------------------------------------------------------------------------
(* The clean up job is the last one InsertMany adds, so every job of the     *)
(* batch, and of every batch before, is followed by one.                     *)
THEOREM EveryJobIsFollowedByAClear == Spec => []ClearFollowsEveryJob
<1>1. Init => ClearFollowsEveryJob
  BY DEF Init, ClearFollowsEveryJob, RiverJobs
<1>2. ASSUME TypeOK, BatchCoversPending, ClearFollowsEveryJob, [Next]_vars
      PROVE  ClearFollowsEveryJob'
  <2>1. CASE river' = river
    BY <1>2, <2>1 DEF ClearFollowsEveryJob, RiverJobs
  <2>2. CASE river' = river \o Append(batch, ClearReservationJob)
    <3> DEFINE added == Append(batch, ClearReservationJob)
    <3>a. batch \in Seq(JobArgs) /\ river \in Seq(JobArgs \cup ReservationArgs)
      BY <1>2 DEF TypeOK
    <3>b. ClearReservationJob \in JobArgs \cup ReservationArgs
      BY DEF ClearReservationJob, ReservationArgs
    <3>c. /\ added \in Seq(JobArgs \cup ReservationArgs)
          /\ Len(added) = Len(batch) + 1 /\ Len(batch) \in Nat
          /\ added[Len(added)] = ClearReservationJob
      BY <3>a, <3>b
    <3>d. ClearReservationJob.kind = "reservation"
      BY DEF ClearReservationJob
    <3> HIDE DEF added
    <3>e. /\ Len(river') = Len(river) + Len(added) /\ Len(river) \in Nat
          /\ DOMAIN river' = 1 .. Len(river')
          /\ river'[Len(river) + Len(added)] = added[Len(added)]
      BY <2>2, <3>a, <3>c DEF added
    <3>1. Len(river') \in DOMAIN river' /\ river'[Len(river')].kind = "reservation"
          /\ DOMAIN river' = 1 .. Len(river') /\ Len(river') \in Nat
      BY <3>c, <3>d, <3>e
    <3>2. \A i \in RiverJobs' : i < Len(river')
      BY <3>1 DEF RiverJobs
    <3> QED
      BY <3>1, <3>2 DEF ClearFollowsEveryJob
  <2> QED
    BY <1>2, <2>1, <2>2, Zenon
    DEF Next, Reconciler, vars, dbVars, SubmitFluxJob, WatchDeliver, Redeliver,
        ReconcileGet, ReconcileDelete, ReconcileSubmitted, ReconcileFailed,
        UpdateStatus, Enqueue, ScheduleSelect, ScheduleInsertMany,
        ScheduleDelete, Crash
<1> QED
  BY <1>1, <1>2, TypeCorrect, PTL DEF Spec

-----------------------------------------------------------------------------
(* FluxQueue implements Delivery. *)

(* A version that is not Absent has the uid of a FluxJob that was created. *)
Known(v) == v = Absent \/ v.uid \in 1 .. created

(* So has every copy the manager holds, and a running Reconcile has one. *)
UidsAreKnown ==
  /\ \A f \in FluxJobs : Known(obj[f]) /\ Known(cache[f])
  /\ \A f \in FluxJobs : \A i \in DOMAIN events[f] : Known(events[f][i])
  /\ pc # "idle" => rd.uid \in 1 .. created

-----------------------------------------------------------------------------
LEMMA WriteKnown ==
  ASSUME TypeOK, UidsAreKnown, NEW f \in FluxJobs, NEW v \in Version, Write(f, v)
  PROVE  /\ \A g \in FluxJobs : obj'[g] = v \/ obj'[g] = obj[g]
         /\ \A g \in FluxJobs : \A i \in DOMAIN events'[g] :
              events'[g][i] = v \/ (i \in DOMAIN events[g] /\ events'[g][i] = events[g][i])
<1>1. \A g \in FluxJobs : obj'[g] = v \/ obj'[g] = obj[g]
  BY DEF Write, TypeOK
<1>2. ASSUME NEW g \in FluxJobs, NEW i \in DOMAIN events'[g]
      PROVE  events'[g][i] = v \/ (i \in DOMAIN events[g] /\ events'[g][i] = events[g][i])
  <2>1. events[g] \in Seq(Version)
    BY DEF TypeOK
  <2>2. CASE g = f
    <3>1. events'[g] = Append(events[g], v)
      BY <2>2 DEF Write, TypeOK
    <3> QED
      BY <1>2, <2>1, <3>1
  <2>3. CASE g # f
    <3>1. events'[g] = events[g]
      BY <2>3 DEF Write, TypeOK
    <3> QED
      BY <1>2, <3>1
  <2> QED
    BY <2>2, <2>3
<1> QED
  BY <1>1, <1>2

(* created never decreases, so what is known stays known. *)
LEMMA KnownStays ==
  ASSUME TypeOK, created' \in {created, created + 1}, NEW v, Known(v)
  PROVE  Known(v)'
<1>1. created \in Nat
  BY DEF TypeOK
<1>2. \A u \in 1 .. created : u \in 1 .. created'
  BY <1>1
<1>3. CASE v = Absent
  BY <1>3 DEF Known, Absent
<1>4. CASE v.uid \in 1 .. created
  BY <1>2, <1>4 DEF Known
<1> QED
  BY <1>3, <1>4 DEF Known

LEMMA CreatedStep == [Next]_vars => created' \in {created, created + 1}
BY Zenon DEF Next, Reconciler, vars, SubmitFluxJob, WatchDeliver, Redeliver,
       ReconcileGet, ReconcileDelete, ReconcileSubmitted, ReconcileFailed,
       UpdateStatus, Enqueue, ScheduleSelect, ScheduleInsertMany,
       ScheduleDelete, Crash

(* Steps that write at most one version that is known. *)
LEMMA ApiKnown ==
  ASSUME TypeOK, UidsAreKnown, [Next]_vars, cache' = cache,
         \/ UNCHANGED <<obj, events>>
         \/ \E f \in FluxJobs : \E v \in Version :
              Write(f, v) /\ (v = Absent \/ v.uid \in 1 .. created')
  PROVE  /\ \A f \in FluxJobs : Known(obj[f])' /\ Known(cache[f])'
         /\ \A f \in FluxJobs : \A i \in DOMAIN events'[f] : Known(events[f][i])'
<1>1. created' \in {created, created + 1}
  BY CreatedStep
<1>2. CASE UNCHANGED <<obj, events>>
  BY <1>1, <1>2, KnownStays DEF UidsAreKnown, Known
<1>3. ASSUME NEW g \in FluxJobs, NEW v \in Version, Write(g, v),
             v = Absent \/ v.uid \in 1 .. created'
      PROVE  /\ \A f \in FluxJobs : Known(obj[f])' /\ Known(cache[f])'
             /\ \A f \in FluxJobs : \A i \in DOMAIN events'[f] : Known(events[f][i])'
  <2>1. \A w : Known(w) => w = Absent \/ w.uid \in 1 .. created'
    BY <1>1, KnownStays DEF Known, Absent
  <2>2. ASSUME NEW f \in FluxJobs PROVE Known(obj[f])' /\ Known(cache[f])'
    <3>1. obj'[f] = v \/ obj'[f] = obj[f]
      BY <1>3, WriteKnown, Zenon
    <3>2. Known(obj[f]) /\ Known(cache[f]) /\ cache'[f] = cache[f]
      BY Zenon DEF UidsAreKnown
    <3> QED
      BY <1>3, <2>1, <3>1, <3>2 DEF Known
  <2>3. ASSUME NEW f \in FluxJobs, NEW i \in DOMAIN events'[f] PROVE Known(events[f][i])'
    <3>1. events'[f][i] = v \/ (i \in DOMAIN events[f] /\ events'[f][i] = events[f][i])
      BY <1>3, WriteKnown, Zenon
    <3>2. i \in DOMAIN events[f] => Known(events[f][i])
      BY Zenon DEF UidsAreKnown
    <3> QED
      BY <1>3, <2>1, <3>1, <3>2 DEF Known
  <2> QED
    BY <2>2, <2>3
<1> QED
  BY <1>2, <1>3

LEMMA NextUidsAreKnown == TypeOK /\ UidsAreKnown /\ [Next]_vars => UidsAreKnown'
<1> SUFFICES ASSUME TypeOK, UidsAreKnown, [Next]_vars PROVE UidsAreKnown'
  OBVIOUS
<1> DEFINE Api == /\ \A f \in FluxJobs : Known(obj[f])' /\ Known(cache[f])'
                  /\ \A f \in FluxJobs : \A i \in DOMAIN events'[f] : Known(events[f][i])'
           InHand == pc' # "idle" => rd'.uid \in 1 .. created'
<1> SUFFICES Api /\ InHand
  BY DEF UidsAreKnown
<1>1. created \in Nat /\ created' \in {created, created + 1}
  BY CreatedStep DEF TypeOK
<1>2. ASSUME pc # "idle", rd' = rd PROVE InHand
  BY <1>1, <1>2 DEF UidsAreKnown
<1>3. ASSUME UNCHANGED apiVars PROVE Api
  <2>1. cache' = cache /\ UNCHANGED <<obj, events>>
    BY <1>3 DEF apiVars
  <2> QED
    BY <2>1, ApiKnown
<1>4. ASSUME NEW f \in FluxJobs, SubmitFluxJob(f) PROVE Api /\ InHand
  <2> DEFINE v == [uid |-> created + 1, status |-> "unset"]
  <2>1. v \in Version /\ v.uid \in 1 .. created' /\ Write(f, v) /\ cache' = cache
    BY <1>1, <1>4 DEF SubmitFluxJob, Version
  <2> HIDE DEF v
  <2>2. Api
    BY <2>1, ApiKnown
  <2>3. pc' = pc /\ rd' = rd
    BY <1>4 DEF SubmitFluxJob, localVars
  <2> QED
    BY <1>2, <2>2, <2>3
<1>5. ASSUME NEW f \in FluxJobs, WatchDeliver(f) PROVE Api /\ InHand
  <2>1. /\ events[f] \in Seq(Version) /\ events[f] # << >>
        /\ cache' = [cache EXCEPT ![f] = Head(events[f])]
        /\ events' = [events EXCEPT ![f] = Tail(events[f])]
        /\ UNCHANGED <<obj, pc, rd, created>>
    BY <1>5 DEF WatchDeliver, TypeOK, localVars
  <2>2. \A w : Known(w)' <=> Known(w)
    BY <2>1 DEF Known, Absent
  <2>3. /\ Head(events[f]) = events[f][1] /\ 1 \in DOMAIN events[f]
        /\ \A i \in DOMAIN Tail(events[f]) :
             i + 1 \in DOMAIN events[f] /\ Tail(events[f])[i] = events[f][i + 1]
    BY <2>1
  <2>4. ASSUME NEW g \in FluxJobs PROVE Known(obj[g])' /\ Known(cache[g])'
    BY <2>1, <2>3, <2>4 DEF UidsAreKnown, Known, Absent, TypeOK
  <2>5. ASSUME NEW g \in FluxJobs, NEW i \in DOMAIN events'[g]
        PROVE  Known(events[g][i])'
    <3>1. CASE g = f
      <4>1. events'[g] = Tail(events[f])
        BY <2>1, <3>1 DEF TypeOK
      <4>2. events'[g][i] = events[f][i + 1] /\ i + 1 \in DOMAIN events[f]
        BY <2>3, <2>5, <4>1
      <4> QED
        BY <2>1, <4>2 DEF UidsAreKnown, Known, Absent
    <3>2. CASE g # f
      <4>1. events'[g] = events[g]
        BY <2>1, <3>2 DEF TypeOK
      <4> QED
        BY <2>1, <2>5, <4>1 DEF UidsAreKnown, Known, Absent
    <3> QED
      BY <3>1, <3>2
  <2> QED
    BY <1>2, <2>1, <2>4, <2>5
<1>6. ASSUME NEW f \in FluxJobs, Redeliver(f) PROVE Api /\ InHand
  BY <1>2, <1>3, <1>6 DEF Redeliver, localVars
<1>7. ASSUME NEW f \in FluxJobs, ReconcileGet(f) PROVE Api /\ InHand
  <2>1. created' = created /\ UNCHANGED apiVars
    BY <1>7 DEF ReconcileGet
  <2>2. CASE UNCHANGED <<pc, localVars>>
    BY <1>2, <1>3, <2>1, <2>2 DEF localVars
  <2>3. CASE cache[f] # Absent /\ rd' = cache[f]
    <3>1. rd'.uid \in 1 .. created'
      BY <2>1, <2>3 DEF UidsAreKnown, Known
    <3> QED
      BY <1>3, <2>1, <3>1
  <2> QED
    BY <1>7, <2>2, <2>3 DEF ReconcileGet
<1>8. CASE ReconcileDelete
  <2>1. cur \in FluxJobs /\ cache' = cache /\ pc' = "idle"
    BY <1>8 DEF ReconcileDelete, TypeOK, Return
  <2>2. UNCHANGED <<obj, events>> \/ Write(cur, Absent)
    BY <1>8 DEF ReconcileDelete
  <2> QED
    BY <2>1, <2>2, AbsentType, ApiKnown
<1>9. ASSUME NEW status \in {"statusSubmit", "statusError"}, UpdateStatus(status),
             pc # "idle"
      PROVE  Api /\ InHand
  <2> DEFINE v == [uid |-> rd.uid, status |-> status]
  <2>1. cur \in FluxJobs /\ cache' = cache /\ pc' = "idle" /\ created' = created
    BY <1>9 DEF UpdateStatus, TypeOK, Return
  <2>2. v \in Version /\ v.uid \in 1 .. created'
    BY <1>9, <2>1, Zenon DEF UidsAreKnown, TypeOK, Version
  <2>3. UNCHANGED <<obj, events>> \/ Write(cur, v)
    BY <1>9, Zenon DEF UpdateStatus
  <2> HIDE DEF v
  <2>4. Api
    BY <2>1, <2>2, <2>3, ApiKnown, Zenon
  <2> QED
    BY <2>1, <2>4
<1>10. CASE ReconcileSubmitted \/ ReconcileFailed
  BY <1>9, <1>10, Zenon DEF ReconcileSubmitted, ReconcileFailed
<1>11. CASE Enqueue \/ ScheduleSelect \/ ScheduleInsertMany \/ ScheduleDelete
  <2>1. UNCHANGED apiVars /\ rd' = rd /\ pc # "idle"
    BY <1>11 DEF Enqueue, ScheduleSelect, ScheduleInsertMany, ScheduleDelete, localVars
  <2> QED
    BY <1>2, <1>3, <2>1, Zenon
<1>12. CASE Crash
  <2>1. /\ cache' = obj /\ obj' = obj /\ created' = created /\ pc' = "idle"
        /\ events' = [f \in FluxJobs |-> << >>]
    BY <1>12 DEF Crash
  <2>2. \A f \in FluxJobs : DOMAIN events'[f] = {}
    BY <2>1
  <2> QED
    BY <2>1, <2>2 DEF UidsAreKnown, Known, Absent
<1>13. CASE UNCHANGED vars
  BY <1>2, <1>3, <1>13 DEF vars, apiVars
<1> QED
  BY <1>4, <1>5, <1>6, <1>7, <1>8, <1>10, <1>11, <1>12, <1>13, Zenon DEF Next, Reconciler

-----------------------------------------------------------------------------
(* What the mapping makes of a step that leaves both tables alone. *)
LEMMA TablesAlone ==
  ASSUME UNCHANGED dbVars
  PROVE  UNCHANGED <<Accepted, Sent>>
BY DEF dbVars, Accepted, Sent, RiverJobs

LEMMA SplitIndex ==
  ASSUME NEW m \in Nat, NEW n \in Nat, NEW i \in 1 .. m + n + 1, i # m + n + 1
  PROVE  i \in 1 .. m \/ \E k \in 1 .. n : i = m + k
<1>1. CASE i > m
  <2>1. i - m \in 1 .. n /\ i = m + (i - m)
    BY <1>1
  <2> QED
    BY <2>1
<1> QED
  BY <1>1

(* InsertMany sends what is accepted: the batch is the table. *)
LEMMA InsertManySends ==
  ASSUME TypeOK, BatchCoversPending, pc = "insert", pending' = pending,
         river' = river \o Append(batch, ClearReservationJob)
  PROVE  Sent' = Accepted /\ Accepted' = Accepted
<1>1. /\ batch \in Seq(JobArgs) /\ Len(batch) \in Nat /\ Len(river) \in Nat
      /\ DOMAIN batch = 1 .. Len(batch) /\ DOMAIN river = 1 .. Len(river)
      /\ \A i \in 1 .. Len(batch) : batch[i].kind = "job"
  <2>1. batch \in Seq(JobArgs) /\ river \in Seq(JobArgs \cup ReservationArgs)
    BY DEF TypeOK
  <2>2. \A i \in 1 .. Len(batch) : batch[i] \in JobArgs
    BY <2>1
  <2> QED
    BY <2>1, <2>2 DEF JobArgs
<1>2. /\ Len(river') = Len(river) + Len(batch) + 1
      /\ DOMAIN river' = 1 .. Len(river')
      /\ \A i \in DOMAIN river : i \in DOMAIN river' /\ river'[i] = river[i]
      /\ \A i \in 1 .. Len(batch) : river'[Len(river) + i] = batch[i]
      /\ river'[Len(river')] = ClearReservationJob
  BY InsertManyType DEF RiverGrows
<1>3. ClearReservationJob.kind = "reservation"
  BY DEF ClearReservationJob
<1>4. ASSUME NEW i \in RiverJobs'
      PROVE  i \in RiverJobs \/ \E k \in 1 .. Len(batch) : river'[i] = batch[k]
  <2>1. i \in 1 .. Len(river) + Len(batch) + 1 /\ river'[i].kind = "job"
    BY <1>2, <1>4 DEF RiverJobs
  <2>2. i # Len(river) + Len(batch) + 1
    BY <1>2, <1>3, <2>1
  <2>3. Len(river) \in Nat /\ Len(batch) \in Nat
    BY <1>1
  <2>4. i \in 1 .. Len(river) \/ \E k \in 1 .. Len(batch) : i = Len(river) + k
    BY <2>1, <2>2, <2>3, SplitIndex
  <2> QED
    BY <1>1, <1>2, <2>1, <2>4 DEF RiverJobs
<1>5. \A i \in RiverJobs : i \in RiverJobs' /\ river'[i] = river[i]
  BY <1>2 DEF RiverJobs
<1>6. \A k \in 1 .. Len(batch) :
        Len(river) + k \in RiverJobs' /\ river'[Len(river) + k] = batch[k]
  BY <1>1, <1>2 DEF RiverJobs
<1>7. \A k \in 1 .. Len(batch) : batch[k].row \in pending
  BY <1>1 DEF BatchCoversPending
<1>8. \A r \in pending : \E k \in 1 .. Len(batch) : batch[k].row = r
  BY <1>1 DEF BatchCoversPending
<1>9. Sent' \subseteq Accepted
  BY <1>4, <1>5, <1>7, Zenon DEF Sent, Accepted
<1>10. Accepted \subseteq Sent'
  <2>1. Sent \subseteq Sent'
    BY <1>5, Zenon DEF Sent
  <2>2. ASSUME NEW r \in pending PROVE r.uid \in Sent'
    <3>1. PICK k \in 1 .. Len(batch) : batch[k].row = r
      BY <1>8
    <3>2. Len(river) + k \in RiverJobs' /\ river'[Len(river) + k].row = r
      BY <1>6, <3>1
    <3> QED
      BY <3>2, Zenon DEF Sent
  <2> QED
    BY <2>1, <2>2 DEF Accepted
<1>11. Accepted' = {r.uid : r \in pending} \cup Sent'
  BY DEF Accepted
<1>12. Accepted' = Accepted
  BY <1>9, <1>10, <1>11 DEF Accepted
<1> QED
  BY <1>9, <1>10, <1>12, Zenon

LEMMA StepDelivers ==
  ASSUME TypeOK, BatchCoversPending, UidsAreKnown, [Next]_vars
  PROVE  [D!Next]_<<created, Accepted, Sent>>
<1>1. ASSUME UNCHANGED dbVars, created' = created
      PROVE  UNCHANGED <<created, Accepted, Sent>>
  BY <1>1, TablesAlone
<1>2. ASSUME NEW f \in FluxJobs, SubmitFluxJob(f) PROVE D!Submit
  BY <1>2, TablesAlone DEF SubmitFluxJob, D!Submit
<1>3. CASE Enqueue
  <2>1. created' = created /\ river' = river /\ pc = "enqueue"
    BY <1>3 DEF Enqueue
  <2>2. Sent' = Sent
    BY <2>1 DEF Sent, RiverJobs
  <2>3. pending' = pending \/ pending' = pending \cup {NewRow}
    BY <1>3 DEF Enqueue, InsertIntoPending
  <2>4. CASE pending' = pending
    BY <2>1, <2>2, <2>4 DEF Accepted
  <2>5. CASE pending' = pending \cup {NewRow}
    <3>1. NewRow.uid = rd.uid /\ rd.uid \in 1 .. created
      BY <2>1 DEF NewRow, UidsAreKnown
    <3>2. Accepted' = Accepted \cup {rd.uid}
      BY <2>2, <2>5, <3>1 DEF Accepted
    <3>3. D!Accept(rd.uid)
      BY <2>1, <2>2, <3>2 DEF D!Accept
    <3> QED
      BY <3>1, <3>3 DEF D!Next
  <2> QED
    BY <2>3, <2>4, <2>5
<1>4. CASE ScheduleInsertMany
  <2>1. pc = "insert" /\ pending' = pending /\ created' = created
    BY <1>4 DEF ScheduleInsertMany
  <2>2. CASE river' = river
    BY <1>1, <2>1, <2>2 DEF dbVars
  <2>3. CASE river' = river \o Append(batch, ClearReservationJob)
    <3>1. D!Send
      BY <2>1, <2>3, InsertManySends DEF D!Send
    <3> QED
      BY <3>1 DEF D!Next
  <2> QED
    BY <1>4, <2>2, <2>3 DEF ScheduleInsertMany
<1>5. CASE ScheduleDelete
  <2>1. /\ created' = created /\ river' = river /\ pc = "clear"
        /\ pending' \subseteq pending
    BY <1>5 DEF ScheduleDelete, DeleteFromPending
  <2>2. Sent' = Sent
    BY <2>1 DEF Sent, RiverJobs
  <2>3. \A r \in pending : r.uid \in Sent
    BY <2>1 DEF BatchCoversPending, Sent
  <2>4. Accepted = Sent /\ Accepted' = Sent
    BY <2>1, <2>2, <2>3 DEF Accepted
  <2> QED
    BY <2>1, <2>2, <2>4
<1>6. ASSUME NEW f \in FluxJobs,
             WatchDeliver(f) \/ Redeliver(f) \/ ReconcileGet(f)
      PROVE  UNCHANGED dbVars /\ created' = created
  BY <1>6 DEF WatchDeliver, Redeliver, ReconcileGet
<1>7. ReconcileDelete \/ ScheduleSelect \/ ReconcileSubmitted \/ ReconcileFailed
        \/ Crash \/ UNCHANGED vars
      => UNCHANGED dbVars /\ created' = created
  BY Zenon DEF ReconcileDelete, ScheduleSelect, ReconcileSubmitted, ReconcileFailed,
         UpdateStatus, Crash, vars, dbVars
<1> QED
  BY <1>1, <1>2, <1>3, <1>4, <1>5, <1>6, <1>7 DEF Next, Reconciler, D!Next

(* The producer side implements Delivery: inserting a row accepts a FluxJob, *)
(* InsertMany sends exactly what is accepted, and every other step (the      *)
(* deletion of rows, failed calls, restarts, late events) changes nothing.   *)
THEOREM ProducerImplementsDelivery == Spec => ImplementsDelivery
<1>1. ASSUME Init PROVE D!Init
  <2>1. created = 0 /\ pending = {} /\ river = << >>
    BY <1>1, Zenon DEF Init
  <2>2. RiverJobs = {}
    BY <2>1 DEF RiverJobs
  <2>3. Sent = {} /\ Accepted = {}
    BY <2>1, <2>2 DEF Sent, Accepted
  <2> QED
    BY <2>1, <2>3 DEF D!Init
<1>2. Init => UidsAreKnown
  BY DEF Init, UidsAreKnown, Known
<1>3. Spec => []UidsAreKnown
  BY <1>2, NextUidsAreKnown, TypeCorrect, PTL DEF Spec
<1> QED
  BY <1>1, <1>3, StepDelivers, TypeCorrect, PTL DEF Spec, ImplementsDelivery, D!Spec

-----------------------------------------------------------------------------
(* From the insert of its row to the update of its status, the FluxJob in    *)
(* hand is in the pending table or in river: what Schedule fails to do, and  *)
(* what it deletes, never takes it away.                                     *)
THEOREM FluxJobInHandIsQueued == Spec => []InHandIsQueued
<1>1. Init => InHandIsQueued
  BY DEF Init, InHandIsQueued
<1> QED
  BY <1>1, NextInHand, TypeCorrect, PTL DEF Spec

(* Schedule's batch is the pending table until InsertMany, and afterwards    *)
(* what is left of the table is in river.                                    *)
THEOREM BatchIsThePendingTable == Spec => []BatchCoversPending
BY TypeCorrect, PTL
-----------------------------------------------------------------------------
(* No FluxJob is sent twice as long as nothing fails.  Reconcile's only      *)
(* guard against it is the status it reads from the cache, so what counts is *)
(* that a FluxJob is in the work queue only when the cache is up to date.    *)

Undisturbed == faults = 0 /\ crashes = 0 /\ redeliveries = 0

Busy(f) == pc # "idle" /\ cur = f

(* The life of a FluxJob: not there, created and not seen yet, to be         *)
(* reconciled (or in hand), submitted and not seen yet, deleted and not seen *)
(* yet.                                                                      *)
Phase(f) ==
  \/ /\ obj[f] = Absent /\ cache[f] = Absent /\ events[f] = << >>
     /\ ~ Busy(f)
  \/ /\ obj[f].status = "unset" /\ cache[f] = Absent /\ events[f] = <<obj[f]>>
     /\ ~ Busy(f)
  \/ /\ obj[f].status \in {"unset", "statusSubmit"}
     /\ cache[f] = obj[f] /\ events[f] = << >>
     /\ (f \in workqueue) = ~ Busy(f)
  \/ /\ obj[f].status = "statusSubmit" /\ events[f] = <<obj[f]>>
     /\ f \notin workqueue /\ ~ Busy(f)
  \/ /\ obj[f] = Absent /\ cache[f] # Absent /\ events[f] = <<Absent>>
     /\ f \notin workqueue /\ ~ Busy(f)

InHand ==
  /\ pc # "idle" => rd = obj[cur]
  /\ pc = "delete" => rd.status = "statusSubmit"
  /\ pc \notin {"idle", "delete"} => rd.status = "unset"
  /\ pc # "setError"

Owned(f) == Busy(f) /\ pc \in {"select", "insert", "clear", "setSubmit"}

UidsDiffer ==
  \A f, g \in FluxJobs : obj[f] # Absent /\ obj[f].uid = obj[g].uid => f = g

NewIsUnsent ==
  \A f \in FluxJobs :
    obj[f].status = "unset" /\ ~ Owned(f) => obj[f].uid \notin Accepted

SentOnce == \A i, j \in RiverJobs : river[i].row.uid = river[j].row.uid => i = j

(* The row in hand is the only one. *)
OneRow ==
  /\ pc \notin {"select", "insert", "clear"} => pending = {}
  /\ pc \in {"select", "insert"} => /\ rd.uid \notin Sent
                                    /\ \E r \in Row : pending = {r} /\ r.uid = rd.uid
  /\ pc \in {"insert", "clear"} => Len(batch) = 1
  /\ pc = "clear" => pending \subseteq {batch[1].row}

Phases == \A f \in FluxJobs : Phase(f)

AcceptedIsKnown == Accepted \subseteq 1 .. created

OnceInv ==
  Phases /\ InHand /\ UidsDiffer /\ NewIsUnsent /\ SentOnce /\ OneRow /\ AcceptedIsKnown

Calm == TypeOK /\ BatchCoversPending /\ UidsAreKnown /\ OnceInv

(* What a FluxJob's phase depends on. *)
LEMMA SamePhase ==
  ASSUME NEW f, Phase(f),
         obj'[f] = obj[f], cache'[f] = cache[f], events'[f] = events[f],
         (f \in workqueue') = (f \in workqueue), Busy(f)' = Busy(f)
  PROVE  Phase(f)'
BY Zenon DEF Phase

(* A step that leaves the tables, and the FluxJob in hand, alone. *)
LEMMA SameTables ==
  ASSUME Calm, UNCHANGED <<pending, river, batch, pc, cur, rd, obj, created>>,
         Phases'
  PROVE  OnceInv'
<1>1. Accepted' = Accepted /\ Sent' = Sent /\ RiverJobs' = RiverJobs
  BY DEF Accepted, Sent, RiverJobs
<1>2. \A f : Owned(f)' = Owned(f)
  BY DEF Owned, Busy
<1>3. InHand' /\ UidsDiffer'
  BY DEF Calm, OnceInv, InHand, UidsDiffer
<1>4. NewIsUnsent'
  BY <1>1, <1>2 DEF Calm, OnceInv, NewIsUnsent
<1>5. SentOnce' /\ AcceptedIsKnown'
  BY <1>1 DEF Calm, OnceInv, SentOnce, AcceptedIsKnown
<1>6. OneRow'
  BY <1>1 DEF Calm, OnceInv, OneRow
<1> QED
  BY <1>3, <1>4, <1>5, <1>6 DEF OnceInv

LEMMA SubmitOnce ==
  ASSUME Calm, NEW f \in FluxJobs, SubmitFluxJob(f)
  PROVE  OnceInv'
<1> DEFINE v == [uid |-> created + 1, status |-> "unset"]
<1>1. /\ obj \in [FluxJobs -> Version] /\ events \in [FluxJobs -> Seq(Version)]
      /\ created \in Nat
  BY DEF Calm, TypeOK
<1>2. obj[f] = Absent /\ cache[f] = Absent /\ events[f] = << >> /\ ~ Busy(f)
  <2>1. Phase(f)
    BY DEF Calm, OnceInv, Phases
  <2>2. obj[f] = Absent /\ cache[f] = Absent /\ obj[f].status = "absent"
    BY DEF SubmitFluxJob, Absent
  <2> QED
    BY <2>1, <2>2 DEF Phase
<1>3. /\ UNCHANGED <<cache, workqueue, pc, cur, rd, batch, pending, river>>
      /\ created' = created + 1
  BY DEF SubmitFluxJob, localVars, dbVars
<1>4. /\ obj'[f] = v /\ events'[f] = Append(events[f], v)
      /\ \A g \in FluxJobs \ {f} : obj'[g] = obj[g] /\ events'[g] = events[g]
  BY <1>1 DEF SubmitFluxJob, Write
<1>5. events'[f] = <<v>>
  BY <1>2, <1>4
<1>6. v.status = "unset" /\ v.uid = created + 1
  OBVIOUS
<1> HIDE DEF v
<1>7. \A g : Busy(g)' = Busy(g) /\ Owned(g)' = Owned(g)
  BY <1>3 DEF Busy, Owned
<1>8. Phases'
  <2>1. ASSUME NEW g \in FluxJobs PROVE Phase(g)'
    <3>1. CASE g = f
      BY <1>2, <1>3, <1>4, <1>5, <1>6, <1>7, <3>1, Zenon DEF Phase
    <3>2. CASE g # f
      BY <1>3, <1>4, <1>7, <3>2, SamePhase, Zenon DEF Calm, OnceInv, Phases
    <3> QED
      BY <3>1, <3>2
  <2> QED
    BY <2>1 DEF Phases
<1>9. InHand'
  <2>1. pc # "idle" => cur \in FluxJobs \ {f}
    BY <1>2 DEF Busy, Calm, TypeOK
  <2> QED
    BY <1>3, <1>4, <2>1, Zenon DEF Calm, OnceInv, InHand
<1>10. Accepted' = Accepted /\ Sent' = Sent /\ RiverJobs' = RiverJobs
  BY <1>3 DEF Accepted, Sent, RiverJobs
<1>11. \A g \in FluxJobs : obj[g].uid \in 0 .. created
  BY <1>1 DEF Calm, UidsAreKnown, Known, Absent
<1>12. UidsDiffer'
  <2>1. \A g \in FluxJobs \ {f} : obj[g].uid # created + 1
    BY <1>1, <1>11
  <2> QED
    BY <1>4, <1>6, <2>1 DEF Calm, OnceInv, UidsDiffer
<1>13. NewIsUnsent'
  <2>1. created + 1 \notin Accepted
    BY <1>1 DEF Calm, OnceInv, AcceptedIsKnown
  <2> QED
    BY <1>4, <1>6, <1>7, <1>10, <2>1 DEF Calm, OnceInv, NewIsUnsent
<1>14. SentOnce'
  BY <1>3, <1>10 DEF Calm, OnceInv, SentOnce
<1>15. AcceptedIsKnown'
  <2>1. 1 .. created \subseteq 1 .. created + 1
    BY <1>1
  <2> QED
    BY <1>3, <1>10, <2>1 DEF Calm, OnceInv, AcceptedIsKnown
<1>16. OneRow'
  BY <1>3, <1>10 DEF Calm, OnceInv, OneRow
<1> QED
  BY <1>8, <1>9, <1>12, <1>13, <1>14, <1>15, <1>16 DEF OnceInv

LEMMA DeliverOnce ==
  ASSUME Calm, NEW f \in FluxJobs, WatchDeliver(f)
  PROVE  OnceInv'
<1>1. /\ cache \in [FluxJobs -> Version] /\ events \in [FluxJobs -> Seq(Version)]
  BY DEF Calm, TypeOK
<1>2. /\ UNCHANGED <<obj, pc, cur, rd, batch, pending, river, created>>
      /\ workqueue' = workqueue \cup {f} /\ events[f] # << >>
  BY DEF WatchDeliver, localVars, dbVars
<1>3. /\ cache'[f] = Head(events[f]) /\ events'[f] = Tail(events[f])
      /\ \A g \in FluxJobs \ {f} : cache'[g] = cache[g] /\ events'[g] = events[g]
  BY <1>1 DEF WatchDeliver
<1>4. /\ events[f] = <<obj[f]>> /\ ~ Busy(f)
      /\ obj[f] = Absent \/ obj[f].status \in {"unset", "statusSubmit"}
  BY <1>2, Zenon DEF Calm, OnceInv, Phases, Phase
<1>5. cache'[f] = obj[f] /\ events'[f] = << >>
  BY <1>3, <1>4
<1>6. \A g : Busy(g)' = Busy(g)
  BY <1>2 DEF Busy
<1>7. Phases'
  <2>1. ASSUME NEW g \in FluxJobs PROVE Phase(g)'
    <3>1. CASE g = f
      BY <1>2, <1>4, <1>5, <1>6, <3>1, Zenon DEF Phase
    <3>2. CASE g # f
      <4>1. /\ obj'[g] = obj[g] /\ cache'[g] = cache[g] /\ events'[g] = events[g]
            /\ (g \in workqueue') = (g \in workqueue)
        BY <1>2, <1>3, <3>2
      <4>2. Phase(g)
        BY Zenon DEF Calm, OnceInv, Phases
      <4> QED
        BY <1>6, <4>1, <4>2, SamePhase, Zenon
    <3> QED
      BY <3>1, <3>2
  <2> QED
    BY <2>1 DEF Phases
<1> QED
  BY <1>2, <1>7, SameTables

LEMMA GetOnce ==
  ASSUME Calm, NEW f \in FluxJobs, ReconcileGet(f)
  PROVE  OnceInv'
<1>1. /\ UNCHANGED <<obj, cache, events, batch, pending, river, created>>
      /\ workqueue' = workqueue \ {f} /\ f \in workqueue /\ pc = "idle"
  BY DEF ReconcileGet, apiVars, dbVars
<1>2. \A g : ~ Busy(g) /\ ~ Owned(g)
  BY <1>1 DEF Busy, Owned
<1>3. Phase(f)
  BY DEF Calm, OnceInv, Phases
<1>4. CASE cache[f] = Absent /\ UNCHANGED <<pc, cur, rd>>
  <2>1. \A g : ~ Busy(g)' /\ Busy(g)' = Busy(g)
    BY <1>1, <1>4 DEF Busy
  <2>2. ASSUME NEW g \in FluxJobs PROVE Phase(g)'
    <3>1. CASE g = f
      <4>1. obj[f].status \in {"unset", "statusSubmit"} => obj[f] # Absent
        BY DEF Absent
      <4> QED
        BY <1>1, <1>2, <1>3, <1>4, <2>1, <3>1, <4>1, Zenon DEF Phase
    <3>2. CASE g # f
      <4>1. /\ obj'[g] = obj[g] /\ cache'[g] = cache[g] /\ events'[g] = events[g]
            /\ (g \in workqueue') = (g \in workqueue)
        BY <1>1, <3>2
      <4>2. Phase(g)
        BY Zenon DEF Calm, OnceInv, Phases
      <4> QED
        BY <2>1, <4>1, <4>2, SamePhase, Zenon
    <3> QED
      BY <3>1, <3>2
  <2> QED
    BY <1>1, <1>4, <2>2, SameTables DEF Phases
<1>5. CASE /\ cache[f] # Absent /\ cur' = f /\ rd' = cache[f]
           /\ pc' = IF cache[f].status = "statusSubmit" THEN "delete" ELSE "enqueue"
  <2>1. /\ obj[f].status \in {"unset", "statusSubmit"}
        /\ cache[f] = obj[f] /\ events[f] = << >>
    BY <1>1, <1>3, <1>5 DEF Phase
  <2>2. /\ pc' \in {"delete", "enqueue"}
        /\ pc' = "delete" => obj[f].status = "statusSubmit"
        /\ pc' = "enqueue" => obj[f].status = "unset"
    BY <1>5, <2>1
  <2>3. /\ Busy(f)' /\ \A g : ~ Owned(g)'
        /\ \A g : g # f => Busy(g)' = Busy(g)
    BY <1>1, <1>5, <2>2 DEF Busy, Owned
  <2>4. Phases'
    <3>1. ASSUME NEW g \in FluxJobs PROVE Phase(g)'
      <4>1. CASE g = f
        <5>1. f \notin workqueue' /\ Busy(f)'
          BY <1>1, <2>3
        <5>2. (f \in workqueue') = ~ Busy(f)'
          BY <5>1
        <5> QED
          BY <1>1, <2>1, <4>1, <5>2, Zenon DEF Phase
      <4>2. CASE g # f
        <5>1. /\ obj'[g] = obj[g] /\ cache'[g] = cache[g] /\ events'[g] = events[g]
              /\ (g \in workqueue') = (g \in workqueue)
          BY <1>1, <4>2
        <5>2. Phase(g)
          BY Zenon DEF Calm, OnceInv, Phases
        <5> QED
          BY <2>3, <4>2, <5>1, <5>2, SamePhase, Zenon
      <4> QED
        BY <4>1, <4>2
    <3> QED
      BY <3>1 DEF Phases
  <2>5. InHand'
    BY <1>1, <1>5, <2>1, <2>2, Zenon DEF InHand
  <2>6. Accepted' = Accepted /\ Sent' = Sent /\ RiverJobs' = RiverJobs
    BY <1>1 DEF Accepted, Sent, RiverJobs
  <2>7. UidsDiffer' /\ SentOnce' /\ AcceptedIsKnown'
    BY <1>1, <2>6 DEF Calm, OnceInv, UidsDiffer, SentOnce, AcceptedIsKnown
  <2>8. NewIsUnsent'
    BY <1>1, <1>2, <2>3, <2>6, Zenon DEF Calm, OnceInv, NewIsUnsent
  <2>9. OneRow'
    BY <1>1, <2>2, Zenon DEF Calm, OnceInv, OneRow
  <2> QED
    BY <2>4, <2>5, <2>7, <2>8, <2>9 DEF OnceInv
<1> QED
  BY <1>4, <1>5 DEF ReconcileGet, localVars

(* Reconcile writes a version of the FluxJob in hand and returns. *)
LEMMA WriteOnce ==
  ASSUME Calm, pc \in {"delete", "setSubmit"}, NEW v \in Version,
         Write(cur, v), Return, UNCHANGED <<cache, workqueue, pending, river, created>>,
         \/ v = Absent
         \/ v.uid = rd.uid /\ v.status = "statusSubmit"
  PROVE  OnceInv'
<1>1. /\ obj \in [FluxJobs -> Version] /\ events \in [FluxJobs -> Seq(Version)]
      /\ cur \in FluxJobs
  BY DEF Calm, TypeOK
<1>2. /\ obj[cur].status \in {"unset", "statusSubmit"} /\ rd = obj[cur]
      /\ cache[cur] = obj[cur] /\ events[cur] = << >> /\ cur \notin workqueue
  <2>1. Phase(cur) /\ Busy(cur)
    BY <1>1 DEF Calm, OnceInv, Phases, Busy
  <2> QED
    BY <2>1, Zenon DEF Phase, Calm, OnceInv, InHand
<1>3. /\ obj'[cur] = v /\ events'[cur] = Append(events[cur], v)
      /\ \A g \in FluxJobs \ {cur} : obj'[g] = obj[g] /\ events'[g] = events[g]
  BY <1>1, Zenon DEF Write
<1>4. events'[cur] = <<v>>
  <2>1. Append(<< >>, v) = <<v>>
    OBVIOUS
  <2> QED
    BY <1>2, <1>3, <2>1, Zenon
<1>5. pc' = "idle"
  BY DEF Return
<1>6. \A g : ~ Busy(g)' /\ ~ Owned(g)'
  BY <1>5 DEF Busy, Owned
<1>7. \A g : g # cur => ~ Owned(g) /\ Busy(g)' = Busy(g)
  BY <1>5 DEF Busy, Owned
<1>8. Phases'
  <2>1. ASSUME NEW g \in FluxJobs PROVE Phase(g)'
    <3>1. CASE g = cur
      <4>1. cache[cur] # Absent
        <5>1. Absent.status \notin {"unset", "statusSubmit"}
          BY DEF Absent
        <5> QED
          BY <1>2, <5>1, Zenon
      <4> QED
        BY <1>2, <1>3, <1>4, <1>6, <3>1, <4>1, Zenon DEF Phase
    <3>2. CASE g # cur
      BY <1>3, <1>7, <3>2, SamePhase, Zenon DEF Calm, OnceInv, Phases
    <3> QED
      BY <3>1, <3>2
  <2> QED
    BY <2>1 DEF Phases
<1>9. InHand'
  BY <1>5 DEF InHand
<1>10. Accepted' = Accepted /\ Sent' = Sent /\ RiverJobs' = RiverJobs
  BY DEF Accepted, Sent, RiverJobs
<1>11. UidsDiffer'
  <2>1. /\ \A g \in FluxJobs : obj'[g] # Absent => obj[g] # Absent
        /\ \A g \in FluxJobs : obj'[g] = Absent \/ obj'[g].uid = obj[g].uid
    BY <1>2, <1>3 DEF Absent
  <2>2. \A g, h \in FluxJobs : obj'[g] # Absent /\ obj'[g].uid = obj'[h].uid
                               => obj'[h] # Absent
    <3>1. ASSUME NEW g \in FluxJobs, obj[g] # Absent PROVE obj[g].uid # 0
      <4>1. obj[g].uid \in 1 .. created
        BY <3>1, Zenon DEF Calm, UidsAreKnown, Known
      <4>2. 0 \notin 1 .. created
        OBVIOUS
      <4> QED
        BY <4>1, <4>2, Zenon
    <3>2. Absent.uid = 0
      BY DEF Absent
    <3> QED
      BY <2>1, <3>1, <3>2
  <2> QED
    BY <2>1, <2>2 DEF Calm, OnceInv, UidsDiffer
<1>12. NewIsUnsent'
  <2>1. v.status # "unset"
    BY DEF Absent
  <2> QED
    BY <1>3, <1>7, <1>10, <2>1, Zenon DEF Calm, OnceInv, NewIsUnsent
<1>13. SentOnce' /\ AcceptedIsKnown'
  BY <1>10 DEF Calm, OnceInv, SentOnce, AcceptedIsKnown
<1>14. OneRow'
  BY <1>5 DEF Calm, OnceInv, OneRow
<1> QED
  BY <1>8, <1>9, <1>11, <1>12, <1>13, <1>14, Zenon DEF OnceInv

LEMMA DeleteOnce ==
  ASSUME Calm, ReconcileDelete, faults' = 0
  PROVE  OnceInv'
<1>1. obj[cur] # Absent
  BY DEF ReconcileDelete, Calm, OnceInv, InHand, Absent
<1>2. ~ Fault
  BY DEF Fault, Calm, TypeOK
<1>3. Write(cur, Absent) /\ UNCHANGED workqueue
  BY <1>1, <1>2 DEF ReconcileDelete
<1>4. pc = "delete" /\ Return /\ UNCHANGED <<cache, pending, river, created>>
  BY DEF ReconcileDelete, dbVars
<1> QED
  BY <1>3, <1>4, AbsentType, WriteOnce

LEMMA SubmittedOnce ==
  ASSUME Calm, ReconcileSubmitted, faults' = 0
  PROVE  OnceInv'
<1> DEFINE v == [uid |-> rd.uid, status |-> "statusSubmit"]
<1>1. pc = "setSubmit" /\ rd.status = "unset" /\ obj[cur] = rd
  BY DEF ReconcileSubmitted, Calm, OnceInv, InHand
<1>2. ~ Fault
  BY DEF Fault, Calm, TypeOK
<1>3. Write(cur, v) /\ UNCHANGED workqueue
  BY <1>1, <1>2 DEF ReconcileSubmitted, UpdateStatus
<1>4. Return /\ UNCHANGED <<cache, pending, river, created>>
  BY DEF ReconcileSubmitted, UpdateStatus, dbVars
<1>5. v \in Version /\ v.uid = rd.uid /\ v.status = "statusSubmit"
  BY DEF Calm, TypeOK, Version
<1> HIDE DEF v
<1> QED
  BY <1>1, <1>3, <1>4, <1>5, WriteOnce

(* A step of submitJob: the FluxJob stays in hand. *)
LEMMA SubmitJobPhases ==
  ASSUME Calm, UNCHANGED <<obj, cache, events, workqueue, cur, rd>>,
         pc \notin {"idle", "delete"}, pc' \notin {"idle", "delete", "setError"}
  PROVE  Phases' /\ InHand' /\ UidsDiffer'
<1>1. \A g : Busy(g)' = Busy(g)
  BY DEF Busy
<1>2. Phases'
  BY <1>1, SamePhase DEF Calm, OnceInv, Phases
<1> QED
  BY <1>2 DEF Calm, OnceInv, InHand, UidsDiffer

LEMMA EnqueueOnce ==
  ASSUME Calm, Enqueue, faults' = 0
  PROVE  OnceInv'
<1>1. /\ pc = "enqueue" /\ cur \in FluxJobs
      /\ UNCHANGED <<obj, cache, events, workqueue, cur, rd, batch, river, created>>
  BY DEF Enqueue, apiVars, localVars, Calm, TypeOK
<1>2. pending = {} /\ ~ Fault
  BY <1>1 DEF Calm, OnceInv, OneRow, Fault, TypeOK
<1>3. NameFree
  BY <1>2 DEF NameFree
<1>4. pending' = {NewRow} /\ pc' = "select"
  BY <1>2, <1>3 DEF Enqueue, InsertIntoPending
<1>5. NewRow \in Row /\ NewRow.uid = rd.uid
  BY <1>1, NewRowType DEF Calm, NewRow
<1>6. Phases' /\ InHand' /\ UidsDiffer'
  BY <1>1, <1>4, SubmitJobPhases
<1>7. Sent' = Sent /\ RiverJobs' = RiverJobs
  BY <1>1, Zenon DEF Sent, RiverJobs
<1>8. Accepted = Sent /\ Accepted' = Sent \cup {rd.uid}
  BY <1>2, <1>4, <1>5, <1>7 DEF Accepted
<1>9. rd = obj[cur] /\ rd.status = "unset" /\ ~ Owned(cur)
  BY <1>1 DEF Calm, OnceInv, InHand, Owned
<1>10. rd.uid \notin Sent
  BY <1>1, <1>8, <1>9 DEF Calm, OnceInv, NewIsUnsent
<1>11. NewIsUnsent'
  <2>1. ASSUME NEW g \in FluxJobs, obj[g].status = "unset", ~ Owned(g)'
        PROVE  obj[g].uid \notin Accepted'
    <3>1. g # cur
      BY <1>1, <1>4, <2>1, Zenon DEF Owned, Busy
    <3>2. ~ Owned(g)
      BY <3>1 DEF Owned, Busy
    <3>3. obj[g].uid \notin Accepted
      BY <2>1, <3>2, Zenon DEF Calm, OnceInv, NewIsUnsent
    <3>4. obj[g].uid # rd.uid
      <4>1. obj[g] # Absent
        BY <2>1 DEF Absent
      <4> QED
        BY <1>1, <1>9, <3>1, <4>1 DEF Calm, OnceInv, UidsDiffer
    <3> QED
      BY <1>8, <3>3, <3>4
  <2> QED
    BY <1>1, <2>1, Zenon DEF NewIsUnsent
<1>12. SentOnce'
  BY <1>1, <1>7 DEF Calm, OnceInv, SentOnce
<1>13. AcceptedIsKnown'
  BY <1>1, <1>8, Zenon DEF Calm, OnceInv, AcceptedIsKnown, UidsAreKnown
<1>14. OneRow'
  BY <1>1, <1>4, <1>5, <1>7, <1>10 DEF OneRow
<1> QED
  BY <1>6, <1>11, <1>12, <1>13, <1>14 DEF OnceInv

(* A sequence of one element. *)
LEMMA SingleSequence ==
  ASSUME NEW S, NEW s \in Seq(S)
  PROVE  /\ DOMAIN s = 1 .. 1 => Len(s) = 1 /\ s # << >>
         /\ Len(s) = 1 => Head(s) = s[1] /\ Tail(s) = << >>
<1>1. DOMAIN s = 1 .. Len(s) /\ Len(s) \in Nat
  OBVIOUS
<1>2. ASSUME DOMAIN s = 1 .. 1 PROVE Len(s) = 1
  <2>1. 1 .. Len(s) = 1 .. 1
    BY <1>1, <1>2, Zenon
  <2>2. 1 \in 1 .. 1 /\ 2 \notin 1 .. 1
    OBVIOUS
  <2>3. 1 \in 1 .. Len(s) /\ 2 \notin 1 .. Len(s)
    BY <2>1, <2>2
  <2> QED
    BY <1>1, <2>3
<1>3. Len(s) = 1 => s # << >>
  <2>1. Len(<< >>) = 0
    OBVIOUS
  <2>2. s = << >> => Len(s) = 0
    BY <2>1, Zenon
  <2> QED
    BY <2>2
<1>4. ASSUME Len(s) = 1 PROVE Head(s) = s[1] /\ Tail(s) = << >>
  <2>1. s # << >>
    BY <1>3, <1>4
  <2>2. Tail(s) \in Seq(S) /\ Len(Tail(s)) = 0
    BY <1>4, <2>1
  <2>3. \A t \in Seq(S) : t # << >> => Len(t) \in Nat \ {0}
    OBVIOUS
  <2>4. Tail(s) = << >>
    BY <2>2, <2>3, Zenon
  <2> QED
    BY <2>1, <2>4
<1> QED
  BY <1>2, <1>3, <1>4

LEMMA SelectOnce ==
  ASSUME Calm, ScheduleSelect, faults' = 0
  PROVE  OnceInv'
<1>1. /\ pc = "select"
      /\ UNCHANGED <<obj, cache, events, workqueue, cur, rd, pending, river, created>>
  BY DEF ScheduleSelect, apiVars, localVars, dbVars
<1>2. ~ Fault
  BY DEF Fault, Calm, TypeOK
<1>3. PICK jobs \in SelectPendingByCreation(pending) : batch' = EasySchedule(jobs)
  BY <1>2 DEF ScheduleSelect
<1>4. PICK r \in Row : pending = {r} /\ r.uid = rd.uid
  BY <1>1 DEF Calm, OnceInv, OneRow
<1>5. Cardinality(pending) = 1
  BY <1>4, FS_Singleton, Zenon
<1>6. batch' \in Seq(JobArgs)
  BY <1>3, SelectType DEF Calm
<1>7. DOMAIN batch' = 1 .. 1
  BY <1>3, <1>5 DEF SelectPendingByCreation, EasySchedule
<1>8. Len(batch') = 1 /\ batch' # << >>
  BY <1>6, <1>7, SingleSequence
<1>9. pc' = "insert"
  BY <1>2, <1>8 DEF ScheduleSelect
<1>10. Phases' /\ InHand' /\ UidsDiffer'
  BY <1>1, <1>9, SubmitJobPhases
<1>11. Accepted' = Accepted /\ Sent' = Sent /\ RiverJobs' = RiverJobs
  BY <1>1, Zenon DEF Accepted, Sent, RiverJobs
<1>12. \A g : Owned(g)' = Owned(g)
  BY <1>1, <1>9 DEF Owned, Busy
<1>13. NewIsUnsent'
  BY <1>1, <1>11, <1>12 DEF Calm, OnceInv, NewIsUnsent
<1>14. SentOnce' /\ AcceptedIsKnown'
  BY <1>1, <1>11 DEF Calm, OnceInv, SentOnce, AcceptedIsKnown
<1>15. OneRow'
  BY <1>1, <1>8, <1>9, <1>11 DEF Calm, OnceInv, OneRow
<1> QED
  BY <1>10, <1>13, <1>14, <1>15 DEF OnceInv

LEMMA InsertManyOnce ==
  ASSUME Calm, ScheduleInsertMany, faults' = 0
  PROVE  OnceInv'
<1>1. /\ pc = "insert"
      /\ UNCHANGED <<obj, cache, events, workqueue, cur, rd, pending, created>>
  BY DEF ScheduleInsertMany, apiVars, localVars
<1>2. ~ Fault
  BY DEF Fault, Calm, TypeOK
<1>3. /\ river' = river \o Append(batch, ClearReservationJob)
      /\ pc' = "clear" /\ batch' = batch
  BY <1>2 DEF ScheduleInsertMany
<1>4. PICK r \in Row : pending = {r} /\ r.uid = rd.uid
  BY <1>1 DEF Calm, OnceInv, OneRow
<1>5. rd.uid \notin Sent /\ Len(batch) = 1
  BY <1>1 DEF Calm, OnceInv, OneRow
<1>6. batch \in Seq(JobArgs) /\ Len(river) \in Nat /\ DOMAIN river = 1 .. Len(river)
  BY DEF Calm, TypeOK
<1>7. batch[1].row = r
  <2>1. 1 \in DOMAIN batch
    BY <1>5, <1>6
  <2> QED
    BY <1>1, <1>4, <2>1 DEF Calm, BatchCoversPending
<1>8. Sent' = Accepted /\ Accepted' = Accepted
  BY <1>1, <1>3, InsertManySends DEF Calm
<1>9. /\ Len(river') = Len(river) + 2
      /\ \A i \in DOMAIN river : river'[i] = river[i]
      /\ river'[Len(river) + 1] = batch[1]
      /\ river'[Len(river')] = ClearReservationJob
      /\ DOMAIN river' = 1 .. Len(river')
  <2>1. /\ river' \in Seq(JobArgs \cup ReservationArgs)
        /\ Len(river') = Len(river) + Len(batch) + 1
        /\ RiverGrows
        /\ \A i \in 1 .. Len(batch) : river'[Len(river) + i] = batch[i]
        /\ river'[Len(river')] = ClearReservationJob
    BY <1>3, InsertManyType DEF Calm
  <2>2. Len(river') = Len(river) + 2 /\ 1 \in 1 .. Len(batch)
    BY <1>5, <1>6, <2>1
  <2>3. DOMAIN river' = 1 .. Len(river')
    BY <2>1
  <2> QED
    BY <2>1, <2>2, <2>3, Zenon DEF RiverGrows
<1>10. ASSUME NEW i \in RiverJobs'
       PROVE  \/ i \in RiverJobs /\ river'[i].row.uid \in Sent /\ river'[i] = river[i]
              \/ i = Len(river) + 1 /\ river'[i].row.uid = rd.uid
  <2>1. i \in 1 .. Len(river) + 2 /\ river'[i].kind = "job"
    BY <1>9 DEF RiverJobs
  <2>2. i # Len(river) + 2
    BY <1>9, <2>1 DEF ClearReservationJob
  <2>3. CASE i = Len(river) + 1
    BY <1>4, <1>7, <1>9, <2>3
  <2>4. CASE i \in DOMAIN river
    <3>1. i \in RiverJobs /\ river'[i] = river[i]
      BY <1>9, <2>1, <2>4 DEF RiverJobs
    <3> QED
      BY <3>1 DEF Sent
  <2> QED
    BY <1>6, <2>1, <2>2, <2>3, <2>4
<1>11. SentOnce'
  <2>1. ASSUME NEW i \in RiverJobs', NEW j \in RiverJobs',
               river'[i].row.uid = river'[j].row.uid
        PROVE  i = j
    BY <1>5, <1>10, <2>1 DEF Calm, OnceInv, SentOnce
  <2> QED
    BY <2>1 DEF SentOnce
<1>12. Phases' /\ InHand' /\ UidsDiffer'
  BY <1>1, <1>3, SubmitJobPhases
<1>13. \A g : Owned(g)' = Owned(g)
  BY <1>1, <1>3 DEF Owned, Busy
<1>14. NewIsUnsent'
  BY <1>1, <1>8, <1>13 DEF Calm, OnceInv, NewIsUnsent
<1>15. AcceptedIsKnown'
  BY <1>1, <1>8 DEF Calm, OnceInv, AcceptedIsKnown
<1>16. OneRow'
  BY <1>1, <1>3, <1>4, <1>5, <1>7 DEF OneRow
<1> QED
  BY <1>11, <1>12, <1>14, <1>15, <1>16 DEF OnceInv

LEMMA DeleteRowOnce ==
  ASSUME Calm, ScheduleDelete, faults' = 0
  PROVE  OnceInv'
<1>1. /\ pc = "clear"
      /\ UNCHANGED <<obj, cache, events, workqueue, cur, rd, river, created>>
  BY DEF ScheduleDelete, apiVars, localVars
<1>2. ~ Fault
  BY DEF Fault, Calm, TypeOK
<1>3. /\ batch \in Seq(JobArgs) /\ Len(batch) = 1
      /\ pending \subseteq {batch[1].row}
  BY <1>1 DEF Calm, OnceInv, OneRow, TypeOK
<1>4. Head(batch) = batch[1] /\ Tail(batch) = << >>
  BY <1>3, SingleSequence
<1>5. pc' = "setSubmit"
  BY <1>4 DEF ScheduleDelete
<1>6. pending' = {}
  BY <1>2, <1>3, <1>4 DEF ScheduleDelete, DeleteFromPending
<1>7. Sent' = Sent /\ RiverJobs' = RiverJobs
  BY <1>1 DEF Sent, RiverJobs
<1>8. Accepted' = Accepted
  <2>1. \A r \in pending : r.uid \in Sent
    BY <1>1 DEF Calm, BatchCoversPending, Sent
  <2> QED
    BY <1>6, <1>7, <2>1 DEF Accepted
<1>9. Phases' /\ InHand' /\ UidsDiffer'
  BY <1>1, <1>5, SubmitJobPhases
<1>10. \A g : Owned(g)' = Owned(g)
  BY <1>1, <1>5 DEF Owned, Busy
<1>11. NewIsUnsent'
  BY <1>1, <1>8, <1>10, Zenon DEF Calm, OnceInv, NewIsUnsent
<1>12. SentOnce' /\ AcceptedIsKnown'
  BY <1>1, <1>7, <1>8 DEF Calm, OnceInv, SentOnce, AcceptedIsKnown
<1>13. OneRow'
  BY <1>5, <1>6 DEF OneRow
<1> QED
  BY <1>9, <1>11, <1>12, <1>13 DEF OnceInv

LEMMA StepOnce ==
  ASSUME TypeOK, BatchCoversPending, UidsAreKnown, Undisturbed => OnceInv,
         [Next]_vars, Undisturbed'
  PROVE  OnceInv'
<1>1. /\ faults \in Nat /\ crashes \in Nat /\ redeliveries \in Nat
      /\ faults' = 0 /\ crashes' = 0 /\ redeliveries' = 0
  BY DEF TypeOK, Undisturbed
<1>2. ~ Crash /\ ~ \E f \in FluxJobs : Redeliver(f)
  BY <1>1 DEF Crash, Redeliver
<1>3. faults' = faults \/ faults' = faults + 1
  BY Zenon DEF Next, Reconciler, vars, SubmitFluxJob, WatchDeliver, Redeliver,
         ReconcileGet, ReconcileDelete, ReconcileSubmitted, ReconcileFailed,
         UpdateStatus, Enqueue, ScheduleSelect, ScheduleInsertMany,
         ScheduleDelete, Crash, Fault
<1>4. crashes' = crashes /\ redeliveries' = redeliveries
  BY <1>2, Zenon DEF Next, Reconciler, vars, SubmitFluxJob, WatchDeliver, ReconcileGet,
              ReconcileDelete, ReconcileSubmitted, ReconcileFailed, UpdateStatus,
              Enqueue, ScheduleSelect, ScheduleInsertMany, ScheduleDelete, boundVars
<1>5. Undisturbed
  BY <1>1, <1>3, <1>4 DEF Undisturbed
<1>6. Calm
  BY <1>5 DEF Calm
<1>7. ASSUME NEW f \in FluxJobs, SubmitFluxJob(f) \/ WatchDeliver(f) PROVE OnceInv'
  BY <1>6, <1>7, SubmitOnce, DeliverOnce
<1>8. CASE Reconciler
  <2>1. ~ ReconcileFailed
    BY <1>6 DEF ReconcileFailed, Calm, OnceInv, InHand
  <2> QED
    BY <1>1, <1>6, <1>8, <2>1, GetOnce, DeleteOnce, EnqueueOnce, SelectOnce,
       InsertManyOnce, DeleteRowOnce, SubmittedOnce DEF Reconciler
<1>9. CASE UNCHANGED vars
  <2>1. Phases'
    BY <1>6, <1>9, SamePhase, Zenon DEF vars, Calm, OnceInv, Phases, Busy
  <2> QED
    BY <1>6, <1>9, <2>1, SameTables DEF vars
<1> QED
  BY <1>2, <1>7, <1>8, <1>9 DEF Next

(* As long as no call fails, the manager does not restart and the informer   *)
(* does not resync, no FluxJob is sent to Fluxion twice: the status that the *)
(* reconciler reads from its cache is never one it has overwritten.          *)
THEOREM FluxJobsAreScheduledOnce == Spec => [](Undisturbed => ScheduledOnce)
<1>1. Init => OnceInv
  <2>1. ASSUME Init PROVE /\ obj = [f \in FluxJobs |-> Absent]
                          /\ cache = [f \in FluxJobs |-> Absent]
                          /\ events = [f \in FluxJobs |-> << >>]
                          /\ pc = "idle" /\ pending = {} /\ RiverJobs = {}
                          /\ Absent.status = "absent"
    BY <2>1 DEF Init, RiverJobs, Absent
  <2>2. Init => Phases
    BY <2>1 DEF Phases, Phase, Busy
  <2>3. Init => UidsDiffer /\ NewIsUnsent /\ InHand
    BY <2>1 DEF UidsDiffer, NewIsUnsent, InHand
  <2>4. Init => SentOnce /\ OneRow /\ AcceptedIsKnown
    BY <2>1 DEF SentOnce, OneRow, AcceptedIsKnown, Accepted, Sent
  <2> QED
    BY <2>2, <2>3, <2>4 DEF OnceInv
<1>2. Init => UidsAreKnown
  BY DEF Init, UidsAreKnown, Known
<1>3. Spec => []UidsAreKnown
  BY <1>2, NextUidsAreKnown, TypeCorrect, PTL DEF Spec
<1> DEFINE I == Undisturbed => OnceInv
<1>4. TypeOK /\ BatchCoversPending /\ UidsAreKnown /\ I /\ [Next]_vars => I'
  BY StepOnce
<1>5. OnceInv => ScheduledOnce
  <2>1. ASSUME OnceInv, pc # "clear", NEW i \in RiverJobs, NEW r \in pending
        PROVE  r.uid # river[i].row.uid
    <3>1. rd.uid \notin Sent /\ r.uid = rd.uid
      BY <2>1 DEF OnceInv, OneRow
    <3> QED
      BY <3>1 DEF Sent
  <2> QED
    BY <2>1 DEF OnceInv, SentOnce, ScheduledOnce
<1>6. I => (Undisturbed => ScheduledOnce)
  BY <1>5
<1>7. Init => I
  BY <1>1
<1> HIDE DEF I
<1> QED
  BY <1>3, <1>4, <1>6, <1>7, TypeCorrect, PTL DEF Spec
==============================================================================
