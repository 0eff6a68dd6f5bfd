------------------------------ MODULE FluxQueue ------------------------------
(***************************************************************************)
(* The producer side of fluxqueue: the FluxJob reconciler, the pending     *)
(* queue it fills (a Postgres table) and the scheduling loop that moves    *)
(* every pending row into river's job table.                               *)
(*                                                                         *)
(* One reconciler worker runs (controller-runtime's default), and it is    *)
(* the only caller of Queue.Schedule, so the loop check at the top of      *)
(* Schedule never finds the lock taken.  Each call that leaves the process *)
(* (API server, Postgres, river) is a step of its own, so that faults,     *)
(* crashes and watch events can fall between any two of them.              *)
(***************************************************************************)
EXTENDS Integers, Sequences, FiniteSets

CONSTANTS
  FluxJobs,        \* names of FluxJobs (wrapped name, type and namespace)
  Names,           \* (name, namespace) pairs of wrapped objects
  NameOf,          \* the wrapped object's (name, namespace) of a FluxJob
  Reserving,       \* FluxJobs whose spec sets Reservation
  None,            \* "no FluxJob in hand"
  MaxSubmits,      \* bound: FluxJobs ever created
  MaxInserts,      \* bound: rows ever inserted into pending_queue
  MaxFaults,       \* bound: failed API or database calls
  MaxCrashes,      \* bound: restarts of the manager
  MaxRedeliveries  \* bound: informer resyncs (or edits that change nothing)

ASSUME ConstantsAssumption ==
  /\ NameOf \in [FluxJobs -> Names]
  /\ Reserving \subseteq FluxJobs
  /\ None \notin FluxJobs
  /\ MaxSubmits \in Nat /\ MaxInserts \in Nat
  /\ MaxFaults \in Nat /\ MaxCrashes \in Nat /\ MaxRedeliveries \in Nat

VARIABLES
  (* the API server and the manager's informer cache *)
  obj,          \* stored FluxJobs
  cache,        \* what the cached client returns
  events,       \* watch events not delivered to the cache yet, per FluxJob
  (* the controller *)
  workqueue,    \* FluxJobs to reconcile
  pc,           \* the next call of the running Reconcile
  cur,          \* the FluxJob it was called for
  rd,           \* the copy of it read from the cache
  batch,        \* Schedule's local batch
  (* the database *)
  pending,      \* table pending_queue
  river,        \* river's default queue, every job ever inserted in id order
  (* history and bounds *)
  created,      \* FluxJobs created so far; the last one's uid
  inserted,     \* rows inserted so far; the last one's created_at
  faults, crashes, redeliveries

apiVars   == <<obj, cache, events>>
localVars == <<cur, rd>>
dbVars    == <<pending, river>>
boundVars == <<crashes, redeliveries>>
vars == <<obj, cache, events, workqueue, pc, cur, rd, batch, pending, river,
          created, inserted, faults, crashes, redeliveries>>

-----------------------------------------------------------------------------
(* A version of a FluxJob.  A status is never written twice for one uid, so  *)
(* the pair identifies a resourceVersion.  The create request's status is    *)
(* dropped by the API server (status is a subresource): it starts "unset".   *)
Version == [uid : Nat,
            status : {"absent", "unset", "statusSubmit", "statusError"}]

Absent == [uid |-> 0, status |-> "absent"]

(* A row of pending_queue.  uid is history: which FluxJob of that name.      *)
Row == [fluxjob : FluxJobs, uid : Nat, created : Nat, reservation : {0, 1}]

JobArgs == [kind : {"job"}, row : Row, reservation : {0, 1}]

ReservationArgs == [kind : {"reservation"}]

PCs == {"idle", "delete", "enqueue", "select", "insert", "clear",
        "setSubmit", "setError"}

Init ==
  /\ obj = [f \in FluxJobs |-> Absent]
  /\ cache = [f \in FluxJobs |-> Absent]
  /\ events = [f \in FluxJobs |-> << >>]
  /\ workqueue = {}
  /\ pc = "idle" /\ cur = None /\ rd = Absent /\ batch = << >>
  /\ pending = {} /\ river = << >>
  /\ created = 0 /\ inserted = 0
  /\ faults = 0 /\ crashes = 0 /\ redeliveries = 0

-----------------------------------------------------------------------------
(* The API server and the watch.                                            *)

(* A stored change of FluxJob f, announced to the watch. *)
Write(f, version) ==
  /\ obj' = [obj EXCEPT ![f] = version]
  /\ events' = [events EXCEPT ![f] = Append(@, version)]

(* A call fails; the caller cannot tell whether it took effect. *)
Fault ==
  /\ faults < MaxFaults
  /\ faults' = faults + 1

(* The webhook's SubmitFluxJob, up to its Create.  When the cached Get finds *)
(* the FluxJob, or Create finds it stored, nothing is written.  One          *)
(* admission request of an object runs at a time.                            *)
SubmitFluxJob(f) ==
  /\ cache[f] = Absent
  /\ obj[f] = Absent
  /\ created < MaxSubmits
  /\ created' = created + 1
  /\ Write(f, [uid |-> created + 1, status |-> "unset"])
  /\ UNCHANGED <<cache, workqueue, pc, localVars, batch, dbVars, inserted,
                 faults, boundVars>>

(* The informer applies the next event and the handler adds a request. *)
WatchDeliver(f) ==
  /\ events[f] # << >>
  /\ cache' = [cache EXCEPT ![f] = Head(events[f])]
  /\ events' = [events EXCEPT ![f] = Tail(@)]
  /\ workqueue' = workqueue \cup {f}
  /\ UNCHANGED <<obj, pc, localVars, batch, dbVars, created, inserted, faults,
                 boundVars>>

(* The informer's periodic resync hands every cached object out again. *)
Redeliver(f) ==
  /\ redeliveries < MaxRedeliveries
  /\ redeliveries' = redeliveries + 1
  /\ cache[f] # Absent
  /\ workqueue' = workqueue \cup {f}
  /\ UNCHANGED <<apiVars, pc, localVars, batch, dbVars, created, inserted,
                 faults, crashes>>

-----------------------------------------------------------------------------
(* Reconcile.                                                               *)

(* Reconcile returns; with an error the request goes back to the queue. *)
Return ==
  /\ pc' = "idle" /\ cur' = None /\ rd' = Absent
  /\ UNCHANGED batch

Requeue == workqueue' = workqueue \cup {cur}

(* Variant: only FluxJobs in error are submitted. *)
ReconcileGetDeletesNew(f) ==
  /\ pc = "idle"
  /\ f \in workqueue
  /\ workqueue' = workqueue \ {f}
  /\ \/ /\ cache[f] = Absent
        /\ UNCHANGED <<pc, localVars>>
     \/ /\ cache[f] # Absent
        /\ pc' = IF cache[f].status = "statusError" THEN "enqueue" ELSE "delete"
        /\ cur' = f
        /\ rd' = cache[f]
  /\ UNCHANGED <<apiVars, batch, dbVars, created, inserted, faults, boundVars>>

(* Get (from the cache) and the branch on the status. *)
ReconcileGet(f) ==
  /\ pc = "idle"
  /\ f \in workqueue
  /\ workqueue' = workqueue \ {f}
  /\ \/ /\ cache[f] = Absent
        /\ UNCHANGED <<pc, localVars>>
     \/ /\ cache[f] # Absent
        /\ pc' = IF cache[f].status = "statusSubmit" THEN "delete"
                                                     ELSE "enqueue"
        /\ cur' = f
        /\ rd' = cache[f]
  /\ UNCHANGED <<apiVars, batch, dbVars, created, inserted, faults, boundVars>>

(* Client.Delete of a FluxJob that was read with status Submit: by name, no  *)
(* precondition on what is stored.  Not found is an error like any other.    *)
ReconcileDelete ==
  /\ pc = "delete"
  /\ \/ /\ obj[cur] # Absent
        /\ Write(cur, Absent)
        /\ UNCHANGED <<workqueue, faults>>
     \/ /\ obj[cur] = Absent
        /\ Requeue
        /\ UNCHANGED <<obj, events, faults>>
     \/ /\ Fault
        /\ Requeue
        /\ \/ UNCHANGED <<obj, events>>
           \/ obj[cur] # Absent /\ Write(cur, Absent)
  /\ Return
  /\ UNCHANGED <<cache, dbVars, created, inserted, boundVars>>

(* updateStatus: nothing is written when the copy already has the status     *)
(* (and nothing requeued); an update of a stale copy is a conflict.          *)
UpdateStatus(status) ==
  /\ \/ /\ rd.status = status
        /\ UNCHANGED <<obj, events, workqueue, faults>>
     \/ /\ rd.status # status
        /\ obj[cur] = rd
        /\ Write(cur, [uid |-> rd.uid, status |-> status])
        /\ UNCHANGED <<workqueue, faults>>
     \/ /\ rd.status # status
        /\ obj[cur] # rd
        /\ Requeue
        /\ UNCHANGED <<obj, events, faults>>
     \/ /\ rd.status # status
        /\ Fault
        /\ Requeue
        /\ \/ UNCHANGED <<obj, events>>
           \/ /\ obj[cur] = rd
              /\ Write(cur, [uid |-> rd.uid, status |-> status])
  /\ Return
  /\ UNCHANGED <<cache, dbVars, created, inserted, boundVars>>

(* Variant: the wrong status after a successful submission. *)
ReconcileSubmittedAsError == pc = "setSubmit" /\ UpdateStatus("statusError")

ReconcileSubmitted == pc = "setSubmit" /\ UpdateStatus("statusSubmit")

ReconcileFailed == pc = "setError" /\ UpdateStatus("statusError")

-----------------------------------------------------------------------------
(* Queue.Enqueue.                                                           *)

(* Variant: -1 for "no reservation", as in the reservation depth. *)
NewRowMinusOne ==
  [fluxjob |-> cur, uid |-> rd.uid, created |-> inserted + 1,
   reservation |-> IF cur \in Reserving THEN 1 ELSE -1]

(* The columns of the insert; created_at defaults to now(). *)
NewRow ==
  [fluxjob |-> cur, uid |-> rd.uid, created |-> inserted + 1,
   reservation |-> IF cur \in Reserving THEN 1 ELSE 0]

(* The unique index on (name, namespace) admits the row. *)
NameFree == \A r \in pending : NameOf[r.fluxjob] # NameOf[cur]

InsertIntoPending ==
  /\ NameFree
  /\ pending' = pending \cup {NewRow}
  /\ inserted < MaxInserts
  /\ inserted' = inserted + 1

(* Variant: an error of the insert is taken for success. *)
EnqueueIgnoresErrors ==
  /\ pc = "enqueue"
  /\ \/ InsertIntoPending /\ UNCHANGED faults
     \/ ~ NameFree /\ UNCHANGED <<pending, inserted, faults>>
     \/ Fault /\ UNCHANGED <<pending, inserted>>
  /\ pc' = "select"
  /\ UNCHANGED <<apiVars, workqueue, localVars, batch, river, created,
                 boundVars>>

(* The check for a pending row compares the command tag of a select with     *)
(* "INSERT 1", which no select returns: it always falls through to the       *)
(* insert, and a row of that name is only found as a constraint violation.   *)
Enqueue ==
  /\ pc = "enqueue"
  /\ \/ /\ InsertIntoPending
        /\ pc' = "select"
        /\ UNCHANGED faults
     \/ /\ ~ NameFree
        /\ pc' = "setError"
        /\ UNCHANGED <<pending, inserted, faults>>
     \/ /\ Fault
        /\ pc' = "setError"
        /\ InsertIntoPending \/ UNCHANGED <<pending, inserted>>
  /\ UNCHANGED <<apiVars, workqueue, localVars, batch, river, created,
                 boundVars>>

-----------------------------------------------------------------------------
(* Queue.Schedule and EasyBackfill.Schedule.  submitJob logs an error of     *)
(* Schedule and goes on, so each one leads to the status update.             *)

(* "order by created_at desc": the one listing of the rows, newest first. *)
SelectPendingByCreation(rows) ==
  {jobs \in [1 .. Cardinality(rows) -> rows] :
     /\ \A r \in rows : \E i \in DOMAIN jobs : jobs[i] = r
     /\ \A i, j \in DOMAIN jobs : i < j => jobs[i].created > jobs[j].created}

(* Variant: the reservation depth, one, bounds the batch. *)
EasyScheduleDepth(jobs) ==
  [i \in DOMAIN jobs \cap {1} |->
     [kind |-> "job", row |-> jobs[i], reservation |-> jobs[i].reservation]]

(* The loop that builds the batch.  The insert parameters take a copy of     *)
(* jobArgs before jobArgs.Reservation is set, so the reservation depth       *)
(* changes nothing that is inserted.                                         *)
EasySchedule(jobs) ==
  [i \in DOMAIN jobs |->
     [kind |-> "job", row |-> jobs[i], reservation |-> jobs[i].reservation]]

ClearReservationJob == [kind |-> "reservation"]

ScheduleSelect ==
  /\ pc = "select"
  /\ \/ /\ \E jobs \in SelectPendingByCreation(pending) :
             batch' = EasySchedule(jobs)
        /\ pc' = IF batch' = << >> THEN "setSubmit" ELSE "insert"
        /\ UNCHANGED faults
     \/ /\ Fault
        /\ pc' = "setSubmit"
        /\ UNCHANGED batch
  /\ UNCHANGED <<apiVars, workqueue, localVars, dbVars, created, inserted,
                 boundVars>>

(* Variant: the error of InsertMany is not checked. *)
ScheduleInsertManyUnchecked ==
  /\ pc = "insert"
  /\ \/ /\ river' = river \o Append(batch, ClearReservationJob)
        /\ UNCHANGED faults
     \/ Fault /\ UNCHANGED river
  /\ pc' = "clear"
  /\ UNCHANGED <<apiVars, workqueue, localVars, batch, pending, created,
                 inserted, boundVars>>

(* Variant: the clean up job goes in front of the batch. *)
ScheduleInsertManyClearFirst ==
  /\ pc = "insert"
  /\ river' = river \o <<ClearReservationJob>> \o batch
  /\ pc' = "clear"
  /\ UNCHANGED <<apiVars, workqueue, localVars, batch, pending, created,
                 inserted, faults, boundVars>>

(* InsertMany is one transaction. *)
ScheduleInsertMany ==
  /\ pc = "insert"
  /\ \/ /\ river' = river \o Append(batch, ClearReservationJob)
        /\ pc' = "clear"
        /\ UNCHANGED <<batch, faults>>
     \/ /\ Fault
        /\ \/ UNCHANGED river
           \/ river' = river \o Append(batch, ClearReservationJob)
        /\ batch' = << >>
        /\ pc' = "setSubmit"
  /\ UNCHANGED <<apiVars, workqueue, localVars, pending, created, inserted,
                 boundVars>>

(* Variant: the arguments (namespace, name) are swapped: no row matches. *)
DeleteFromPendingSwapped(f) == pending' = pending

(* deleteFromPending(namespace, name) *)
DeleteFromPending(f) ==
  pending' = {r \in pending : NameOf[r.fluxjob] # NameOf[f]}

(* One turn of the deletion loop; its errors are dropped. *)
ScheduleDelete ==
  /\ pc = "clear"
  /\ \/ DeleteFromPending(Head(batch).row.fluxjob) /\ UNCHANGED faults
     \/ Fault /\ UNCHANGED pending
  /\ batch' = Tail(batch)
  /\ pc' = IF Tail(batch) = << >> THEN "setSubmit" ELSE "clear"
  /\ UNCHANGED <<apiVars, workqueue, localVars, river, created, inserted,
                 boundVars>>

-----------------------------------------------------------------------------
(* The manager restarts: a fresh informer lists what is stored and adds a    *)
(* request for each; what the process had in hand is gone.                   *)
Crash ==
  /\ crashes < MaxCrashes
  /\ crashes' = crashes + 1
  /\ cache' = obj
  /\ events' = [f \in FluxJobs |-> << >>]
  /\ workqueue' = {f \in FluxJobs : obj[f] # Absent}
  /\ pc' = "idle" /\ cur' = None /\ rd' = Absent /\ batch' = << >>
  /\ UNCHANGED <<obj, dbVars, created, inserted, faults, redeliveries>>

Reconciler ==
  \/ \E f \in FluxJobs : ReconcileGet(f)
  \/ ReconcileDelete
  \/ Enqueue
  \/ ScheduleSelect
  \/ ScheduleInsertMany
  \/ ScheduleDelete
  \/ ReconcileSubmitted
  \/ ReconcileFailed

Next ==
  \/ \E f \in FluxJobs : SubmitFluxJob(f) \/ WatchDeliver(f) \/ Redeliver(f)
  \/ Reconciler
  \/ Crash

Spec == Init /\ [][Next]_vars

(* The watch delivers and the reconciler's worker runs as long as the        *)
(* manager does.  Submissions, faults, resyncs and restarts need not happen. *)
FairSpec ==
  /\ Spec
  /\ \A f \in FluxJobs : WF_vars(WatchDeliver(f))
  /\ \A f \in FluxJobs : SF_vars(ReconcileGet(f))
  /\ WF_vars(Reconciler)
-----------------------------------------------------------------------------
(* Properties.                                                              *)

(* Every variable has its type. *)
TypeOK ==
  /\ obj \in [FluxJobs -> Version]
  /\ cache \in [FluxJobs -> Version]
  /\ events \in [FluxJobs -> Seq(Version)]
  /\ workqueue \subseteq FluxJobs
  /\ pc \in PCs
  /\ cur \in FluxJobs \cup {None} /\ (pc # "idle" => cur \in FluxJobs)
  /\ rd \in Version
  /\ batch \in Seq(JobArgs)
  /\ pending \subseteq Row /\ IsFiniteSet(pending)
  /\ river \in Seq(JobArgs \cup ReservationArgs)
  /\ created \in Nat /\ inserted \in Nat
  /\ faults \in Nat /\ crashes \in Nat /\ redeliveries \in Nat

(* The jobs river has been given. *)
RiverJobs == {i \in DOMAIN river : river[i].kind = "job"}

InRiver(stamp) == \E i \in RiverJobs : river[i].row.created = stamp

(* Some row or river job carries out the submission with this uid. *)
Queued(uid) ==
  \/ \E r \in pending : r.uid = uid
  \/ \E i \in RiverJobs : river[i].row.uid = uid

(* While Schedule runs, what it has in hand covers the pending table: before *)
(* InsertMany the batch holds the rows of the table, and while rows are      *)
(* deleted every row left is in river.  The reconciler is the only writer of the table.    *)
BatchCoversPending ==
  /\ pc = "insert" =>
       /\ batch # << >>
       /\ \A r \in pending : \E i \in DOMAIN batch : batch[i].row = r
       /\ \A i \in DOMAIN batch : batch[i].row \in pending
  /\ pc = "clear" =>
       /\ batch # << >>
       /\ \A r \in pending : \E i \in RiverJobs : river[i].row = r

(* From a successful insert to the status update, the copy in hand is queued. *)
InHandIsQueued ==
  pc \in {"select", "insert", "clear", "setSubmit"} => Queued(rd.uid)

(* No accepted submission is lost.  A row that an insert into pending_queue  *)
(* committed is in the table or in river's queue, whatever call of Schedule  *)
(* fails and wherever the manager restarts between InsertMany and the loop   *)
(* of deleteFromPending.                                                     *)
NoLostRow ==
  \A stamp \in 1 .. inserted :
     (\E r \in pending : r.created = stamp) \/ InRiver(stamp)

(* A FluxJob whose stored status is Submit (the state in which Reconcile     *)
(* deletes it) has been queued: that very FluxJob, not one of its name that  *)
(* was there before.                                                         *)
SubmittedIsQueued ==
  \A f \in FluxJobs :
     obj[f].status = "statusSubmit" => Queued(obj[f].uid)

(* Every allocation request in river is followed by a job that clears        *)
(* reservations: Schedule never leaves a batch without its clean up.         *)
ClearFollowsEveryJob ==
  \A i \in RiverJobs :
     \E j \in DOMAIN river : j > i /\ river[j].kind = "reservation"

(* No FluxJob is sent to Fluxion twice: river has at most one job for each   *)
(* submission, and none that is also waiting in pending_queue to be sent     *)
(* again once the deletion loop is over.                                     *)
ScheduledOnce ==
  /\ \A i, j \in RiverJobs : river[i].row.uid = river[j].row.uid => i = j
  /\ pc \notin {"clear"} =>
       \A i \in RiverJobs : \A r \in pending : r.uid # river[i].row.uid

(* Every FluxJob that is created is handed to river. *)
EverySubmissionReachesRiver ==
  \A uid \in 1 .. MaxSubmits :
     (created >= uid) ~> (\E i \in RiverJobs : river[i].row.uid = uid)

(* Every FluxJob that is created is deleted again, which frees its name for  *)
(* the webhook. *)
EveryFluxJobIsRetired ==
  \A f \in FluxJobs : []<>(obj[f] = Absent)

-----------------------------------------------------------------------------
(* The producer side implements Delivery: a FluxJob is accepted by the       *)
(* insert of its row and sent by InsertMany; a row that is in both tables,   *)
(* is deleted from the first, or is sent again changes nothing.              *)

Sent == {river[i].row.uid : i \in RiverJobs}

Accepted == {r.uid : r \in pending} \cup Sent

D == INSTANCE Delivery WITH submitted <- created, accepted <- Accepted, sent <- Sent

(* Every behaviour of the reconciler and the scheduling loop, with failed    *)
(* calls, restarts and late events, is one of Delivery: Schedule sends all   *)
(* that was accepted and nothing else, and nothing accepted is dropped.      *)
ImplementsDelivery == D!Spec

-----------------------------------------------------------------------------
(* What comments and documents of the code say and the code does not do.    *)

(* easy.go: "first come first serve - we just sort based on the timestamp".  *)
(* River runs jobs in the order of their ids, so of two rows one Schedule    *)
(* sends, the one inserted first comes first.                                *)
FirstComeFirstServe ==
  \A i, j \in DOMAIN batch :
     i < j => batch[i].row.created < batch[j].row.created

(* fluxqueue.go, Enqueue: "If unknown, we won't give status submit, and it   *)
(* should requeue to try again".  A FluxJob that is not submitted and not    *)
(* being reconciled has a request queued or an event on its way.             *)
UnsubmittedIsRequeued ==
  \A f \in FluxJobs :
     /\ obj[f].status \in {"unset", "statusError"}
     /\ cur # f
     => f \in workqueue \/ events[f] # << >>
=============================================================================
