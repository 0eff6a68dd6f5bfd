------------------------------- MODULE Workers -------------------------------
(***************************************************************************)
(* The consumer side of fluxqueue: the river workers and what they act on. *)
(*   - the default queue's one worker runs JobWorker.Work (ask Fluxion for *)
(*     an allocation, release the object) and ReservationWorker.Work;      *)
(*   - the task queue's one worker runs UngateWorker.Work;                 *)
(*   - the cleanup queue's one worker runs CleanupWorker.Work;             *)
(*   - the pod informer's DeleteFunc inserts the cleanup jobs.             *)
(* Fluxion, the API server and river are external.  A call is in flight    *)
(* from the step that sets a program counter to the step that clears it,   *)
(* and may fail with or without taking effect.                             *)
(*                                                                         *)
(* Objects are single pods (gated) and batch Jobs (suspended); the pods of *)
(* a Job number its size.  A node is an abstract slot for one pod.         *)
(***************************************************************************)
EXTENDS Integers, Sequences, FiniteSetsExt

CONSTANTS
  Objects,            \* wrapped objects, one FluxJob each
  BatchJobs,          \* those that are batch Jobs; the others are single pods
  Size,               \* nodes an object asks for
  Reserving,          \* objects whose river job has Reservation = 1
  Slots,              \* places in the cluster Fluxion's graph holds
  Copies,             \* bound: times an object's job is inserted into river
  MaxIds,             \* bound: ids Fluxion hands out
  MaxFaults,          \* bound: failed calls
  MaxCancelAttempts,  \* attempts of a cleanup job
  MaxTaskAttempts     \* attempts of an ungate job (river's default)

ASSUME ConstantsAssumption ==
  /\ BatchJobs \subseteq Objects /\ Reserving \subseteq Objects
  /\ Size \in [Objects -> Nat \ {0}]
  /\ \A o \in Objects \ BatchJobs : Size[o] = 1
  /\ IsFiniteSet(Objects) /\ IsFiniteSet(Slots)
  /\ Copies \in [Objects -> Nat] /\ MaxIds \in Nat /\ MaxFaults \in Nat
  /\ MaxCancelAttempts \in Nat \ {0} /\ MaxTaskAttempts \in Nat \ {0}

VARIABLES
  (* the default queue and its worker *)
  queue,         \* river jobs in id order
  pc, cur,       \* the worker's next call and the index of its job
  resp,          \* Fluxion's reply it holds
  (* the task queue and its worker *)
  tasks, tpc, task,
  (* the cleanup queue and its worker *)
  cancels, cpc, cancel,
  (* Fluxion and the reservations table *)
  graph, nextId, reservations,
  (* the Kubernetes objects *)
  exists,        \* stored objects
  gated,         \* those that are suspended or carry the scheduling gate
  label,         \* the jobid and nodes labels of an object's pods
  bound,         \* nodes the pods of an object run on
  (* bound *)
  faults

workVars   == <<pc, cur, resp>>
taskVars   == <<tpc, task>>
cleanVars  == <<cpc, cancel>>
fluxionVars == <<graph, nextId>>
objectVars == <<exists, gated, label, bound>>
vars == <<queue, pc, cur, resp, tasks, tpc, task, cancels, cpc, cancel,
          graph, nextId, reservations, exists, gated, label, bound, faults>>

-----------------------------------------------------------------------------
NoId == -1

Unlabelled == [id |-> NoId, nodes |-> {}]

NoTask == [object |-> NoId, id |-> NoId, nodes |-> {}, attempts |-> 0]

NoCancel == [id |-> NoId, attempts |-> 0]

Init ==
  /\ queue = << >>
  /\ pc = "idle" /\ cur = 0 /\ resp = Unlabelled
  /\ tasks = {} /\ tpc = "idle" /\ task = NoTask
  /\ cancels = << >> /\ cpc = "idle" /\ cancel = NoCancel
  /\ graph = {} /\ nextId = 0 /\ reservations = {}
  /\ exists = Objects /\ gated = Objects
  /\ label = [o \in Objects |-> Unlabelled]
  /\ bound = [o \in Objects |-> {}]
  /\ faults = 0

Fault ==
  /\ faults < MaxFaults
  /\ faults' = faults + 1

-----------------------------------------------------------------------------
(* Fluxion.                                                                 *)

Ids == {a.id : a \in graph}

Free == Slots \ UNION {a.nodes : a \in graph}

Reserved == {a \in graph : a.reserved}

CanAllocate(o) == Cardinality(Free) >= Size[o]

Admit(o, nodes, reserved) ==
  /\ nextId < MaxIds
  /\ nextId' = nextId + 1
  /\ graph' = graph \cup
       {[id |-> nextId, object |-> o, nodes |-> nodes, reserved |-> reserved]}

(* Match allocates now. *)
Allocate(o, nodes) ==
  /\ nodes \subseteq Free
  /\ Cardinality(nodes) = Size[o]
  /\ Admit(o, nodes, FALSE)

(* A reservation holds resources of a later time, which may keep Fluxion     *)
(* from allocating what is free now.                                         *)
MayRefuse(o) == ~ CanAllocate(o) \/ Reserved # {}

(* Match with Reservation set, when the object fits the cluster at all. *)
Reserve(o) ==
  /\ o \in Reserving
  /\ MayRefuse(o)
  /\ Size[o] <= Cardinality(Slots)
  /\ Admit(o, {}, TRUE)

(* Cancel of a known id; that of an unknown one is an error. *)
CancelId(id) ==
  /\ id \in Ids
  /\ graph' = {a \in graph : a.id # id}
  /\ UNCHANGED nextId

-----------------------------------------------------------------------------
(* The default queue.                                                       *)

Inserted(o) == {i \in DOMAIN queue : queue[i].object = o}

(* An entry waits for those before it; "batch" is history. *)
Entry(o, i) ==
  [kind |-> "job", object |-> o, state |-> "available", attempted |-> FALSE,
   after |-> i - 1, batch |-> Len(queue)]

ClearEntry(i) ==
  [kind |-> "reservation", object |-> NoId, state |-> "available",
   attempted |-> FALSE, after |-> i - 1, batch |-> Len(queue)]

(* What a Schedule may send: distinct objects in any order. *)
SetOfBatches ==
  UNION {{s \in [1 .. n -> Objects] : IsInjective(s)} : n \in 1 .. Cardinality(Objects)}

(* Variant: the job that clears reservations comes first. *)
InsertManyClearFirst(batch) ==
  /\ batch # << >>
  /\ \A i \in DOMAIN batch : Cardinality(Inserted(batch[i])) < Copies[batch[i]]
  /\ queue' = queue \o <<ClearEntry(Len(queue) + 1)>>
       \o [i \in DOMAIN batch |-> Entry(batch[i], Len(queue) + 1 + i)]
  /\ UNCHANGED <<workVars, tasks, taskVars, cancels, cleanVars, fluxionVars,
                 reservations, objectVars, faults>>

(* Queue.Schedule's InsertMany: a batch and the job that clears reservations. *)
InsertMany(batch) ==
  /\ batch # << >>
  /\ \A i \in DOMAIN batch : Cardinality(Inserted(batch[i])) < Copies[batch[i]]
  /\ queue' = queue
       \o [i \in DOMAIN batch |-> Entry(batch[i], Len(queue) + i)]
       \o <<ClearEntry(Len(queue) + Len(batch) + 1)>>
  /\ UNCHANGED <<workVars, tasks, taskVars, cancels, cleanVars, fluxionVars,
                 reservations, objectVars, faults>>

(* River runs jobs in the order of their scheduled time, then their id.  One *)
(* that failed is scheduled for a later time than those inserted by then.    *)
Fetch(i) ==
  /\ pc = "idle"
  /\ queue[i].state = "available"
  /\ \A k \in 1 .. queue[i].after :
       queue[k].state = "available" => queue[k].attempted
  /\ queue' = [queue EXCEPT ![i].state = "running", ![i].attempted = TRUE]
  /\ cur' = i
  /\ pc' = IF queue[i].kind = "job" THEN "match" ELSE "clear"
  /\ UNCHANGED <<resp, tasks, taskVars, cancels, cleanVars, fluxionVars,
                 reservations, objectVars, faults>>

(* Work returns: nil, river.JobCancel, or an error that has it retried.      *)
Finish(state) ==
  /\ queue' = [queue EXCEPT ![cur].state = state]
  /\ pc' = "idle" /\ cur' = 0 /\ resp' = Unlabelled

(* Variant: an error cancels the job. *)
RetryNever ==
  /\ queue' = [queue EXCEPT ![cur].state = "cancelled", ![cur].after = Len(queue)]
  /\ pc' = "idle" /\ cur' = 0 /\ resp' = Unlabelled

Retry ==
  /\ queue' = [queue EXCEPT ![cur].state = "available", ![cur].after = Len(queue)]
  /\ pc' = "idle" /\ cur' = 0 /\ resp' = Unlabelled

Continue(next) ==
  /\ pc' = next
  /\ UNCHANGED <<queue, cur>>

-----------------------------------------------------------------------------
(* JobWorker.Work.                                                          *)

(* The reply to Match, and the branches on it.  The reply to a request       *)
(* without Reservation that gives no allocation is an error to be retried;   *)
(* with Reservation it means the object can never be scheduled.              *)
Match ==
  /\ pc = "match"
  /\ LET o == queue[cur].object IN
     \/ \E nodes \in SUBSET Slots :
          /\ Allocate(o, nodes)
          /\ resp' = [id |-> nextId, nodes |-> nodes]
          /\ Continue("release")
          /\ UNCHANGED faults
     \/ /\ Reserve(o)
        /\ resp' = [id |-> nextId, nodes |-> {}]
        /\ Continue("reserve")
        /\ UNCHANGED faults
     \/ /\ o \in Reserving
        /\ Size[o] > Cardinality(Slots)
        /\ Continue("reject")
        /\ UNCHANGED <<resp, fluxionVars, faults>>
     \/ /\ o \notin Reserving
        /\ MayRefuse(o)
        /\ Retry
        /\ UNCHANGED <<fluxionVars, faults>>
     \/ /\ Fault
        /\ Retry
        /\ \/ UNCHANGED fluxionVars
           \/ \E nodes \in SUBSET Slots : Allocate(o, nodes)
           \/ Reserve(o)
  /\ UNCHANGED <<tasks, taskVars, cancels, cleanVars, reservations, objectVars>>

(* Variant: the reservation is not recorded. *)
ReserveJobForgotten ==
  /\ pc = "reserve"
  /\ Retry
  /\ UNCHANGED <<tasks, taskVars, cancels, cleanVars, fluxionVars, reservations,
                 objectVars, faults>>

(* reserveJob, whose error is dropped; then "could not allocate nodes". *)
ReserveJob ==
  /\ pc = "reserve"
  /\ \/ reservations' = reservations \cup {resp.id} /\ UNCHANGED faults
     \/ Fault /\ UNCHANGED reservations
  /\ Retry
  /\ UNCHANGED <<tasks, taskVars, cancels, cleanVars, fluxionVars, objectVars>>

(* The patch that unsuspends a Job and labels its pod template.  The API     *)
(* server takes a change of the template only while the Job is suspended.    *)
Unsuspend(o) ==
  /\ o \in exists \cap gated
  /\ gated' = gated \ {o}
  /\ label' = [label EXCEPT ![o] = resp]
  /\ UNCHANGED <<exists, bound>>

(* releaseJob for a batch Job: an error has the whole of Work done again. *)
UnsuspendJob ==
  /\ pc = "release"
  /\ LET o == queue[cur].object IN
     /\ o \in BatchJobs
     /\ \/ Unsuspend(o) /\ Finish("completed") /\ UNCHANGED faults
        \/ /\ o \notin exists \cap gated
           /\ Retry
           /\ UNCHANGED <<objectVars, faults>>
        \/ /\ Fault
           /\ Retry
           /\ Unsuspend(o) \/ UNCHANGED objectVars
  /\ UNCHANGED <<tasks, taskVars, cancels, cleanVars, fluxionVars, reservations>>

(* releaseJob for a pod: insert an ungate job; its error is dropped. *)
UngatePod ==
  /\ pc = "release"
  /\ LET o == queue[cur].object
         new == [object |-> o, id |-> resp.id, nodes |-> resp.nodes, attempts |-> 0]
     IN
     /\ o \notin BatchJobs
     /\ \/ tasks' = tasks \cup {new} /\ UNCHANGED faults
        \/ Fault /\ UNCHANGED tasks
  /\ Finish("completed")
  /\ UNCHANGED <<taskVars, cancels, cleanVars, fluxionVars, reservations,
                 objectVars>>

(* markUnschedulable, whose errors are dropped: a Job is unsuspended and a   *)
(* pod ungated, both without a node assignment.                              *)
MarkUnschedulable ==
  /\ pc = "reject"
  /\ \/ gated' = gated \ {queue[cur].object} /\ UNCHANGED faults
     \/ Fault /\ UNCHANGED gated
  /\ Finish("cancelled")
  /\ UNCHANGED <<tasks, taskVars, cancels, cleanVars, fluxionVars, reservations,
                 exists, label, bound>>

-----------------------------------------------------------------------------
(* ReservationWorker.Work.                                                  *)

(* The query selects one composite column, which the driver cannot put into  *)
(* the model's two fields: with a row in the table CollectRows fails.  So    *)
(* the loop that cancels each reservation and deletes its row has no rows,   *)
(* or is not reached.                                                        *)
GetReservations ==
  /\ pc = "clear"
  /\ \/ reservations = {} /\ Finish("completed") /\ UNCHANGED faults
     \/ reservations # {} /\ Retry /\ UNCHANGED faults
     \/ Fault /\ Retry
  /\ UNCHANGED <<tasks, taskVars, cancels, cleanVars, fluxionVars, reservations,
                 objectVars>>

-----------------------------------------------------------------------------
(* UngateWorker.Work for a single pod.                                      *)

TaskFetch(t) ==
  /\ tpc = "idle"
  /\ tasks' = tasks \ {t}
  /\ task' = [t EXCEPT !.attempts = @ + 1]
  /\ tpc' = "patch"
  /\ UNCHANGED <<queue, workVars, cancels, cleanVars, fluxionVars, reservations,
                 objectVars, faults>>

TaskRetry ==
  /\ tpc' = "idle" /\ task' = NoTask
  /\ tasks' = IF task.attempts < MaxTaskAttempts THEN tasks \cup {task} ELSE tasks

LabelPod ==
  /\ task.object \in exists
  /\ label' = [label EXCEPT ![task.object] = [id |-> task.id, nodes |-> task.nodes]]

(* Patch the labels onto the pod. *)
PatchPod ==
  /\ tpc = "patch"
  /\ \/ /\ LabelPod
        /\ tpc' = "ungate"
        /\ UNCHANGED <<tasks, task, faults>>
     \/ /\ task.object \notin exists
        /\ TaskRetry
        /\ UNCHANGED <<label, faults>>
     \/ /\ Fault
        /\ TaskRetry
        /\ LabelPod \/ UNCHANGED label
  /\ UNCHANGED <<queue, workVars, cancels, cleanVars, fluxionVars, reservations,
                 exists, gated, bound>>

(* removeGate: the patch that removes a gate which is not there is refused. *)
RemoveGate ==
  /\ tpc = "ungate"
  /\ \/ /\ task.object \in exists \cap gated
        /\ gated' = gated \ {task.object}
        /\ tpc' = "idle" /\ task' = NoTask
        /\ UNCHANGED <<tasks, faults>>
     \/ /\ task.object \notin exists \cap gated
        /\ TaskRetry
        /\ UNCHANGED <<gated, faults>>
     \/ /\ Fault
        /\ TaskRetry
        /\ gated' \in {gated, gated \ {task.object}}
  /\ UNCHANGED <<queue, workVars, cancels, cleanVars, fluxionVars, reservations,
                 exists, label, bound>>

-----------------------------------------------------------------------------
(* Kubernetes and the pod informer.                                         *)

(* The scheduler plugin lets the pods go to the nodes of their label only. *)
Bind(o) ==
  /\ o \in exists \ gated
  /\ bound[o] = {}
  /\ label[o].nodes # {}
  /\ bound' = [bound EXCEPT ![o] = label[o].nodes]
  /\ UNCHANGED <<queue, workVars, tasks, taskVars, cancels, cleanVars,
                 fluxionVars, reservations, exists, gated, label, faults>>

(* Variant: a pod without the label is not skipped. *)
CleanupUnlabelled(id) ==
  /\ cancels' = Append(cancels, [id |-> id, attempts |-> 0])
  /\ UNCHANGED faults

(* Variant: as above, and its id is what parsing an empty label returns. *)
CleanupZero(id) ==
  /\ cancels' = Append(cancels, [id |-> IF id = NoId THEN 0 ELSE id, attempts |-> 0])
  /\ UNCHANGED faults

(* DeleteFunc: a labelled pod's id goes to the cleanup queue; the error of   *)
(* the insert is dropped.                                                    *)
Cleanup(id) ==
  \/ /\ id = NoId
     /\ UNCHANGED <<cancels, faults>>
  \/ /\ id # NoId
     /\ cancels' = Append(cancels, [id |-> id, attempts |-> 0])
     /\ UNCHANGED faults
  \/ /\ id # NoId
     /\ Fault
     /\ UNCHANGED cancels

(* Variant: no cleanup for a pod that ran. *)
DeletePodSilently(o) ==
  /\ \E node \in bound[o] : bound' = [bound EXCEPT ![o] = @ \ {node}]
  /\ exists' = IF bound'[o] = {} THEN exists \ {o} ELSE exists
  /\ UNCHANGED <<queue, workVars, tasks, taskVars, cancels, cleanVars,
                 fluxionVars, reservations, gated, label, faults>>

(* Variant: the cleanup starts with the request to delete, while the pod runs. *)
DeletePodEarly(o) ==
  /\ bound[o] # {} /\ o \in exists
  /\ exists' = exists \ {o}
  /\ Cleanup(label[o].id)
  /\ UNCHANGED <<queue, workVars, tasks, taskVars, cleanVars, fluxionVars,
                 reservations, gated, label, bound>>

(* A running pod is deleted; with the last one the object is gone. *)
DeletePod(o) ==
  /\ \E node \in bound[o] : bound' = [bound EXCEPT ![o] = @ \ {node}]
  /\ exists' = IF bound'[o] = {} THEN exists \ {o} ELSE exists
  /\ Cleanup(label[o].id)
  /\ UNCHANGED <<queue, workVars, tasks, taskVars, cleanVars, fluxionVars,
                 reservations, gated, label>>

(* An object none of whose pods runs is deleted.  The pods of a Job need not *)
(* have been created yet: then no pod is deleted.                            *)
DeleteObject(o) ==
  /\ o \in exists
  /\ bound[o] = {}
  /\ exists' = exists \ {o}
  /\ \/ Cleanup(label[o].id)
     \/ o \in BatchJobs /\ UNCHANGED <<cancels, faults>>
  /\ UNCHANGED <<queue, workVars, tasks, taskVars, cleanVars, fluxionVars,
                 reservations, gated, label, bound>>

-----------------------------------------------------------------------------
(* CleanupWorker.Work.                                                      *)

(* A list without its i-th entry. *)
RemoveAt(s, i) == SubSeq(s, 1, i - 1) \o SubSeq(s, i + 1, Len(s))

CleanupFetch(i) ==
  /\ cpc = "idle"
  /\ cancel' = [cancels[i] EXCEPT !.attempts = @ + 1]
  /\ cancels' = RemoveAt(cancels, i)
  /\ cpc' = "cancel"
  /\ UNCHANGED <<queue, workVars, tasks, taskVars, fluxionVars, reservations,
                 objectVars, faults>>

(* Variant: a failed cancel is not tried again. *)
CleanupRetryNever == cancels' = cancels

CleanupRetry ==
  cancels' = IF cancel.attempts < MaxCancelAttempts THEN Append(cancels, cancel)
                                                    ELSE cancels

DeleteFluxion ==
  /\ cpc = "cancel"
  /\ \/ CancelId(cancel.id) /\ UNCHANGED <<cancels, faults>>
     \/ cancel.id \notin Ids /\ CleanupRetry /\ UNCHANGED <<fluxionVars, faults>>
     \/ /\ Fault
        /\ CleanupRetry
        /\ CancelId(cancel.id) \/ UNCHANGED fluxionVars
  /\ cpc' = "idle" /\ cancel' = NoCancel
  /\ UNCHANGED <<queue, workVars, tasks, taskVars, reservations, objectVars>>

-----------------------------------------------------------------------------
WorkStep ==
  \/ Match \/ ReserveJob \/ UnsuspendJob \/ UngatePod \/ MarkUnschedulable
  \/ GetReservations

TaskStep == (\E t \in tasks : TaskFetch(t)) \/ PatchPod \/ RemoveGate

CleanupStep == (\E i \in DOMAIN cancels : CleanupFetch(i)) \/ DeleteFluxion

Deletion == \E o \in Objects : DeletePod(o) \/ DeleteObject(o)

Next ==
  \/ \E batch \in SetOfBatches : InsertMany(batch)
  \/ \E i \in DOMAIN queue : Fetch(i)
  \/ WorkStep
  \/ TaskStep
  \/ CleanupStep
  \/ \E o \in Objects : Bind(o)
  \/ Deletion

Spec == Init /\ [][Next]_vars

(* Each worker runs while the manager does, and river comes back to a job    *)
(* that failed.  A user deletes every object in the end (the README: "any    *)
(* duration or deletion needs to come from Kubernetes").                     *)
FairSpec ==
  /\ Spec
  /\ WF_vars(WorkStep) /\ WF_vars(TaskStep) /\ WF_vars(CleanupStep)
  /\ \A i \in 1 .. 2 * MapThenSumSet(LAMBDA o : Copies[o], Objects) :
       SF_vars(i \in DOMAIN queue /\ Fetch(i))
  /\ \A o \in Objects : WF_vars(Bind(o)) /\ WF_vars(DeletePod(o))

-----------------------------------------------------------------------------
(* Properties.                                                              *)

Id == 0 .. MaxIds

Label == [id : Id \cup {NoId}, nodes : SUBSET Slots]

QueueJob ==
  [kind : {"job", "reservation"}, object : Objects \cup {NoId},
   state : {"available", "running", "completed", "cancelled"},
   attempted : BOOLEAN, after : Nat, batch : Nat]

Task == [object : Objects, id : Id, nodes : SUBSET Slots, attempts : Nat]

CancelJob == [id : Id, attempts : Nat]

Allocation == [id : Id, object : Objects, nodes : SUBSET Slots, reserved : BOOLEAN]

(* Every variable has its type, and a worker that runs has its job in hand. *)
TypeOK ==
  /\ queue \in Seq(QueueJob)
  /\ pc \in {"idle", "match", "reserve", "release", "reject", "clear"}
  /\ cur \in 0 .. Len(queue) /\ (pc # "idle" => cur # 0)
  /\ resp \in Label
  /\ tasks \subseteq Task
  /\ tpc \in {"idle", "patch", "ungate"}
  /\ IF tpc = "idle" THEN task = NoTask ELSE task \in Task
  /\ cancels \in Seq(CancelJob)
  /\ cpc \in {"idle", "cancel"}
  /\ IF cpc = "idle" THEN cancel = NoCancel ELSE cancel \in CancelJob
  /\ graph \subseteq Allocation
  /\ nextId \in Id /\ reservations \subseteq Id
  /\ exists \subseteq Objects /\ gated \subseteq Objects
  /\ label \in [Objects -> Label]
  /\ bound \in [Objects -> SUBSET Slots]
  /\ faults \in Nat

(* Pods run on nodes Fluxion holds for their object: no cleanup, retry or    *)
(* relabelling lets Fluxion give away a node under a running pod.  This is   *)
(* so until a pod of the object is deleted, which cancels the allocation of  *)
(* all of them.                                                              *)
BoundIsAllocated ==
  \A o \in Objects :
     Cardinality(bound[o]) = Size[o] =>
       \E a \in graph : a.object = o /\ bound[o] \subseteq a.nodes

(* An object none of whose pods was deleted yet. *)
Whole(o) ==
  \/ o \in exists /\ bound[o] = {}
  \/ Cardinality(bound[o]) = Size[o]

(* Fluxion holds, for object o, the nodes it gave out under id; nothing else *)
(* goes by that id.                                                          *)
Held(o, id, nodes) ==
  /\ id \in 0 .. nextId - 1
  /\ nodes \subseteq Slots /\ Cardinality(nodes) = Size[o]
  /\ \A a \in graph : a.id = id => a.object = o /\ ~ a.reserved
  /\ Whole(o) => \E a \in graph : a.id = id /\ a.object = o /\ a.nodes = nodes

(* Whoever names an allocation can rely on it: the reply in the job worker's *)
(* hands, an ungate job and the labels of a pod name an allocation of their  *)
(* object that Fluxion still holds, unless a pod of the object was deleted.  *)
NamedIsHeld ==
  /\ \A o \in Objects : label[o] # Unlabelled => Held(o, label[o].id, label[o].nodes)
  /\ \A t \in tasks : Held(t.object, t.id, t.nodes)
  /\ tpc # "idle" => Held(task.object, task.id, task.nodes)
  /\ pc = "release" => Held(queue[cur].object, resp.id, resp.nodes)

(* The README: "we need the 'clear reservation' job to run last".  When it   *)
(* runs, every job sent with it, and before it, has asked Fluxion at least   *)
(* once, although jobs that failed meanwhile run again and new batches come. *)
ClearRunsLast ==
  pc = "clear" =>
    \A k \in DOMAIN queue : queue[k].batch <= queue[cur].batch => queue[k].attempted

(* The reservations table and Fluxion agree: a row names a reservation that  *)
(* Fluxion holds, which no cleanup cancels, and apart from the one that is   *)
(* being recorded a reservation without a row costs a failed call.           *)
ReservationsTracked ==
  LET reserved == {a.id : a \in Reserved}
      inHand   == IF pc = "reserve" THEN {resp.id} ELSE {}
  IN /\ reservations \subseteq reserved
     /\ Cardinality(reserved \ (reservations \cup inHand)) <= faults

(* The README: "Reservations are cleared after the loop": "We retrieve       *)
(* reservation ids", "issue a cancel to fluxion", "On success, we delete the *)
(* reservation ID from the table".  When the clean up job ends an attempt in *)
(* which no call failed, what is still reserved or recorded is at most one   *)
(* entry for each call that ever failed.                                     *)
ClearLeavesNoReservation ==
  [][(pc = "clear" /\ pc' = "idle" /\ faults' = faults)
       => Cardinality({a.id : a \in Reserved'} \cup reservations') <= faults]_vars

(* Someone who will cancel allocation a: the worker or the ungate job that   *)
(* brings it to the pod, the pod that carries its id, or a cleanup job.      *)
Accounted(a) ==
  \/ pc = "release" /\ resp.id = a.id
  \/ \E t \in tasks \cup {task} : t.id = a.id
  \/ a.object \in exists /\ label[a.object].id = a.id
  \/ \E i \in DOMAIN cancels : cancels[i].id = a.id
  \/ cancel.id = a.id

(* Pods that were deleted before any label reached them. *)
Orphans == {o \in Objects \ exists : label[o].id = NoId}

(* River jobs for an object that has one already. *)
Repeats ==
  {i \in DOMAIN queue : \E k \in 1 .. i - 1 : queue[i].kind = "job"
                                              /\ queue[k].object = queue[i].object}

(* Allocations of single pods that nobody will cancel: at most one for each  *)
(* failed call, for each pod deleted before it was labelled, and for each    *)
(* object sent to river once more, whose labels the second allocation takes. *)
LeaksAreExplained ==
  Cardinality({a \in graph \ Reserved : ~ Accounted(a)})
    <= faults + Cardinality(Orphans) + Cardinality(Repeats)

(* Fewer than MaxCancelAttempts failed calls do not keep a cleanup job from  *)
(* giving the allocation back.                                               *)
CleanupSucceeds ==
  \A id \in 0 .. MaxIds - 1 :
     (\E i \in DOMAIN cancels : cancels[i].id = id) ~> (id \notin Ids)

(* The allocation of an object that was deleted before any pod carried its   *)
(* id is never given back.                                                   *)
Stranded ==
  {a \in graph : /\ a.object \notin exists
                 /\ a.object \in BatchJobs \/ label[a.object].id = NoId
                 /\ ~ Accounted(a)}

(* While no call fails, an object that fits the cluster is released or gone  *)
(* in the end: a job that Fluxion had no room for is asked again after       *)
(* others finished.  (It may wait for a stranded allocation for ever.)       *)
EveryObjectIsReleased ==
  \A o \in Objects :
     (Inserted(o) # {} /\ Size[o] <= Cardinality(Slots))
       ~> (o \notin exists \cap gated \/ Stranded # {} \/ faults > 0)

=============================================================================
