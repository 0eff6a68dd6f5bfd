# A TLA+ model of fluxqueue

fluxqueue puts Kubernetes work under the control of the Fluxion scheduler. This
directory holds TLA+ modules translated from its Go code, TLC configurations
that check them on small instances, and TLAPS proofs. Paths below are relative
to the repository.

## The system

| part | code | what it does | module |
|---|---|---|---|
| admission webhook | `api/v1alpha1/fluxjob_webhook.go`, `fluxjob_enqueue.go`, `submit.go` | suspends a Job or gates pods, and creates a `FluxJob` | `Webhook` |
| reconciler | `internal/controller/fluxjob_controller.go`, `submit.go`, `status.go` | enqueues a `FluxJob`, runs the scheduling loop, sets the status, deletes the `FluxJob` once it is `statusSubmit` | `FluxQueue` |
| pending queue | `pkg/fluxqueue/fluxqueue.go`, `events.go`, `queries/`, `build/postgres/create-tables.sql` | the table `pending_queue`; `Schedule` moves all of it into river | `FluxQueue` |
| easy strategy | `pkg/fluxqueue/strategy/easy.go` | builds the batch, inserts cleanup jobs | `FluxQueue`, `Workers` |
| job worker | `strategy/workers/job.go` | asks Fluxion (`Match`), reserves, rejects, or releases the object | `Workers` |
| reservation worker | `strategy/workers/reservation.go` | cancels the reservations of a loop | `Workers` |
| ungate worker | `strategy/workers/ungate.go` | labels pods with their nodes and removes their gates | `Workers` (one pod), `Ungate` (sets) |
| cleanup worker | `strategy/workers/cleanup.go` | cancels an allocation in Fluxion | `Workers` |
| pod informer | `internal/controller/events.go` | turns the deletion of a pod into a cleanup job | `Workers` |
| scheduler plugin | `build/scheduler/pkg/scheduler/scheduler.go` | lets a pod go only to the node of its label | `Workers` |
| manager | `cmd/manager/main.go` | starts the parts | `StartUp` |
| resource graph | `internal/controller/cluster.go`, `pkg/jgf/` | describes the cluster to Fluxion at start up | `ResourceGraph`, `StartUp` |
| pod requests, jobspec | `internal/controller/resources.go`, `pkg/jobspec/` | resource arithmetic | `PodResources` |
| external service, group and label helpers | `pkg/service/`, `pkg/fluxqueue/group/` | a stub, and code without callers | |

Fluxion, river, Postgres and the Kubernetes API server are external. They are
modelled only by what the code relies on.

The flow is: webhook -> `FluxJob` -> reconciler -> `pending_queue` -> river's
default queue -> Fluxion -> unsuspend or ungate -> scheduler plugin; and back:
pod deleted -> informer -> cleanup queue -> Fluxion. The modules split it where
something durable lies between two parts: `Webhook` ends with the stored object
and its FluxJob, `FluxQueue` starts from the FluxJob and ends in river's table,
`Workers` starts from there, and `Ungate` is one river job of a set of pods.

## Modules

### Webhook: admission

State: the objects of the API server (`stored`), an admission request for each
(`request`, with the manifest under way), the FluxJobs and the manager's cache
of them, and the rest of the pipeline as the set `queue` of names it will
release. A manifest is the seen label, `suspend`, and the part that concerns
pods: the template's seen label, gate, scheduler and selector.

| action | code |
|---|---|
| `UserRequest`, `ControllerRequest` | a create, dry run or update of a user; what a controller creates from a template |
| `Handle` | `Handle` with one `Enqueue...` per kind, up to the `Get` of `SubmitFluxJob` |
| `CreateFluxJob` | `SubmitFluxJob`'s `Create` |
| `Store` | the API server stores the object or refuses it |
| `Sync`, `TakeOver`, `Release` | the cache; the reconciler takes a FluxJob over; the workers release the object |
| `Delete`, `Collect` | a user deletes; the garbage collector |

The FluxJob is created while its object is not stored yet, and the object may be
refused after that. The queue works by name, so the model keeps apart (`reused`)
the names that were free again while something of an earlier use was under way.

### FluxQueue: the producer

State: the stored FluxJobs `obj`, the informer's `cache` and the watch `events`
between them; the controller's `workqueue`; the running `Reconcile` as a program
counter `pc` with its locals `cur`, `rd`, `batch`; the tables `pending` and
`river`. `created` and `inserted` number the FluxJobs and the rows (the latter is
`created_at`), and so tell apart two FluxJobs that had the same name.

| action | code |
|---|---|
| `SubmitFluxJob` | `SubmitFluxJob`, a Create that finds no FluxJob of the name |
| `WatchDeliver`, `Redeliver` | the informer and its resync |
| `ReconcileGet`, `ReconcileDelete`, `ReconcileSubmitted`, `ReconcileFailed` | the four calls of `Reconcile` to the API server (`updateStatus` is `UpdateStatus`) |
| `Enqueue` | `Queue.Enqueue` |
| `ScheduleSelect`, `ScheduleInsertMany`, `ScheduleDelete` | `Queue.Schedule` around its calls to Postgres and river |
| `Crash` | a restart of the manager |

Every call that leaves the process is a step, and each of them can fail, with or
without having taken effect (`Fault`). Points of the code that shape the model:

- `Enqueue` looks for a pending row with a `select` and compares the command tag
  with `INSERT 1`. A select never returns that tag, so the insert is always
  tried, and a duplicate is an error of the unique index on (name, namespace).
- The status given at creation is dropped by the API server (the CRD has a
  status subresource), so a new FluxJob has no status.
- `updateStatus` writes nothing when the copy already has the status.
- Errors of `Schedule` are logged and dropped; so are those of
  `deleteFromPending`.
- One reconciler worker runs, and nobody else calls `Schedule`, so
  `IsInScheduleLoop` never finds the lock held.

### Delivery: what the producer promises

`Delivery` is an abstract specification with three variables: how many FluxJobs
were submitted, which of them the queue accepted, and which it sent. It accepts
one at a time, sends everything accepted at once, and takes nothing back.
`ImplementsDelivery` in `FluxQueue` instantiates it: `submitted` is `created`,
`accepted` are the FluxJobs with a row in `pending` or `river`, `sent` those in
`river`. The table, the batch, the status, the cache and the restarts disappear.
At-least-once delivery is what remains: a row that is sent again is a stutter.

### Workers: the consumer

State: the default queue with its one worker (`queue`, `pc`, `cur`, `resp`),
the task queue and the cleanup queue with theirs, Fluxion (`graph`,
`nextId`), the table `reservations`, and the objects: which exist, which are
gated or suspended, their labels and the nodes their pods run on.

| action | code |
|---|---|
| `InsertMany` | the batch of a `Schedule` and its clean up job |
| `Fetch`, `TaskFetch`, `CleanupFetch` | river gives a worker its next job |
| `Match`, `ReserveJob`, `UnsuspendJob`, `UngatePod`, `MarkUnschedulable` | `JobWorker.Work` and what it calls |
| `GetReservations` | `ReservationWorker.Work` |
| `PatchPod`, `RemoveGate` | `UngateWorker.Work` for a single pod |
| `DeleteFluxion` | `CleanupWorker.Work` |
| `Bind` | the scheduler plugin and the kubelet |
| `DeletePod`, `DeleteObject` | a user deletes; `DeleteFunc` calls `Cleanup` |

Abstractions: an object is a single pod or a batch Job; a node is a slot for one
pod; the node list of an allocation is a set; a Job's pods start together. A job
that failed is scheduled after the jobs present at that time (`after`). Fluxion
may refuse what is free while something is reserved. Its reply to a cancel of an
unknown id is an error. A reply that is reserved is assumed to carry no
allocation: `Work` would record the reservation and then go on to release the
object (`job.go:106-127`, there is no return in between). An entry of the queue
keeps the number of the batch it was sent with (`batch`, a history field).
`GetReservationsQuery` selects one composite column, which the driver cannot put
into the two fields of the model. With a row in the table the worker fails, so
its loop over the rows has none or is not reached and has no action.

### Ungate: the pods of a set

One ungate job of a Deployment, ReplicaSet or StatefulSet. State: the pods with
their gates (a sequence) and node label, those being deleted, the worker's
program counter, the list of its attempt and its place in it, and the index of
the gate it is about to remove. The gates are any list of distinct names with the
queue's among them: the webhook appends it to those of the template, and others
may append theirs. `List`, `Skip`, `Patch`, `Get`, `RemoveGate` and
`Return` are the steps of `Work` and `removeGate`; `CreatePod`, `DeletePod`,
`Terminated` and `RemoveOther` are the cluster's. The name of a pod is its place
in the order of the list. A StatefulSet creates pods in that order, each after
those before it are ungated; a ReplicaSet draws names at random. Three history
variables name what the worker cannot see: `replaced`, pods younger than the list
under a name on it; `swapped`, those of them that came between the two patches of
the pod in hand; `shifted`, pods in which the queue's gate is no longer at the
index that was read, when the removal by that index is still to come.

### StartUp, ResourceGraph, PodResources: start up

`StartUp` is `main`, one step per call that can fail, with the loop of
`createInClusterJGF` one node at a time; errors either end the process or are
only logged, as in the code. `ResourceGraph` is the package `jgf` and the body
of that loop as operators on a graph value, `PodResources` the arithmetic of
`resources.go` and `jobspec.go`. The inner loops are functions of the number of
turns made (`Totals`, `InitLoop`, `ResourceLoop`), so that their invariants can be
stated and proved (`Cpus` for the jobspec). Quantities are natural numbers; the
jobspec's conversion to int32 and its int32 sum are modelled, with `Int32Limit`
for 2^31. Two nil pointers shape the model: after an
error of `NewQueue` or `NewClient` main goes on, and panics at the deferred
`Close` of the nil client or pool.

### Other modules

The modules whose names end in `Proofs` hold the theorems. The
`MC` modules instantiate the specifications. Definitions marked "Variant" are
defective forms of the definition that follows. No specification uses them; with
one in place of the original, the property it is meant for fails.

## What is checked

| run | configuration | properties |
|---|---|---|
| `producer_faults` | `FluxQueueFaults` | `TypeOK`, `NoLostRow`, `SubmittedIsQueued`, `ClearFollowsEveryJob`, `BatchCoversPending`, `InHandIsQueued`, `ImplementsDelivery` |
| `producer_nominal` | `FluxQueueNominal` | `ScheduledOnce`, `EverySubmissionReachesRiver`, `EveryFluxJobIsRetired` |
| `pods_with_faults` | `WorkersPods` | `TypeOK`, `BoundIsAllocated`, `NamedIsHeld`, `ClearRunsLast`, `ReservationsTracked`, `LeaksAreExplained` |
| `jobs_with_faults` | `WorkersJobs` | `BoundIsAllocated`, `NamedIsHeld`, `ReservationsTracked` |
| `released` | `WorkersReleased` | `EveryObjectIsReleased`, `CleanupSucceeds` |
| `admission` | `Webhook` | `TypeOK`, `HeldBack`, `HeldIsCovered`, `OwnedNotSubmitted`, `GatedIsFound` |
| `ungate_sets` | `Ungate` | `TypeOK`, `UngatedIsPlaced`, `NodesNotShared`, `DoneIsComplete`, `OwnGateOnly`, `Completes` |
| `start_up` | `StartUp` | `TypeOK`, `ServingHasQueue`, `ContainmentTree`, `OfferedFits`, `GraphIsComplete`, `RequestsWithinLimits`, `JobspecCoversPod` |

What they show:

- Producer. Whatever call fails and wherever the manager restarts, a row that was
  inserted is in `pending_queue` or in river (`NoLostRow`), and a FluxJob that is
  about to be deleted as submitted has been queued, itself and not a predecessor
  of its name (`SubmittedIsQueued`). Without faults every FluxJob reaches river
  exactly once and is deleted again, whatever the delays of the watch. Two
  FluxJobs of one row meet only after a failed call: as long as `Schedule`
  succeeds, the table is empty at every insert.
- Allocations. Fluxion holds the nodes of an object all of whose pods run
  (`BoundIsAllocated`), and whatever names an allocation, be it a reply in hand,
  an ungate job or a label, names one that Fluxion holds for that object
  (`NamedIsHeld`). The deletion of the first pod of a Job gives back the nodes of
  all of them. Both properties stop there, and the repository's TODO list asks
  what should happen.
- Clean up. The job that clears reservations runs when every job sent with it or
  before it has asked Fluxion, although failed jobs run again and new batches
  come (`ClearRunsLast`).
- Drift. A row of the reservations table is a reservation of Fluxion, and
  reservations without a row cost a failed call each (`ReservationsTracked`).
  Allocations that nobody will cancel are bounded by failed calls, early
  deletions and jobs sent again (`LeaksAreExplained`). `LeaksAreExplained` is about
  single pods: the template of a Job that runs already cannot be patched, so a
  retried release of it leaks an allocation on every attempt.
- Progress. An object that has to wait gets its turn, unless another one was
  deleted before any pod carried its id (`Stranded`); two failed calls do not use
  up the three attempts of a cleanup job.
- Admission. What is stored is held back until the queue releases it, and is not
  forgotten: it has a FluxJob or a place in the queue. What controllers create
  from a template is not submitted again, and its pods are found by the selector
  label of the object that was. `HeldIsCovered` leaves out names that were free
  again while something of the earlier use was under way: the FluxJob of the
  earlier object is then taken for that of the new one, which stays held back.
- Ungate. Labels come before the removal of the gate, and only the queue's gate
  comes off, wherever it is in the list. The exceptions are stated pod by pod: a
  StatefulSet's pod that took a name between the two patches may be ungated
  without a node (`swapped`), one younger than the list may stay gated
  (`replaced`), and where a gate in front of the queue's goes between the two
  calls of `removeGate`, another gate comes off in place of it (`shifted`). Nodes
  are given by the place in the list, so they are distinct only while places do
  not shift (`NodesNotShared`). The job and the StatefulSet controller, which
  wait for each other pod by pod, get to the end (`Completes`).
- Start up. The graph is a containment tree with unambiguous paths, offers what
  the pods leave on each node, and reaches Fluxion whole or not at all. The
  arithmetic of `podRequests` gives what a pod needs in the phases of its life,
  including sidecars. As long as they come to an int32, the cores in the jobspec
  cover what the containers request. `podRequests`, which the graph takes off,
  exceeds them by at most the overhead, the init containers and a resize under
  way (`Extras`), none of which `GeneratePodResources` is given.

Four runs end in a violation: the code does not do what a comment or the README
says.

| run | property | said in | done in |
|---|---|---|---|
| `order_of_batch` | `FirstComeFirstServe` | `easy.go:123` | `queries.go:19` sorts newest first |
| `requeue_on_error` | `UnsubmittedIsRequeued` | `fluxqueue.go:198` | `status.go:14` writes and requeues nothing the second time |
| `reservations_cleared` | `ClearLeavesNoReservation` | `README.md:206-210` | `queries.go:25`, the driver cannot map the column |
| `exact_nodes` | `ExactNodes` | `README.md:12` | `ungate.go:113`, the place in this attempt's list |

Other places where text and code differ, without a run of their own:

- The reservation depth (`easy.go:151`, `README.md:204`) is set on a copy of the
  arguments that is not inserted (`easy.go:163`), so no job reserves for that
  reason; `Reserving` is therefore a constant of `Workers`.
- `fluxqueue.go:165` excludes a second submission of a row; a restart between
  `InsertMany` and the deletion of the rows (`fluxqueue.go:237-248`) sends it
  again. `Delivery` promises at-least-once.
- `easy.go:51` and `fluxqueue.go:29` speak of one call to Fluxion at a time; the
  cleanup queue (`easy.go:90`) has a worker of its own. In `Workers` both workers
  call it in any order.
- `job.go:336` removes the gate "at the correct index". The index was read in an
  earlier call and the patch has no test of the name, so a gate removed in front
  of it in between has another one go. `OwnGateOnly` leaves out these pods.
- `config/webhook/manifests.yaml:33` declares no side effects; a dry run creates
  a FluxJob. `Webhook` has dry runs.

### Bounds

- Producer: three FluxJobs, two of which wrap objects of one name (a pod and a
  Job) and so share a row. Two creations (three without faults) let one name be
  used again. Three inserts (four without faults) let a row be sent twice. Two
  failed calls, one restart and one resync fall anywhere, and all four in one
  behaviour. The two FluxJobs of one name are symmetric.
- Workers: two pods, one of them sent to river twice (`Twice`, through `Copies`),
  with two slots; then a pod, a Job of two pods and a Job that never fits. In
  `released`, a pod and a Job compete for one node. `MaxIds` bounds what Fluxion
  hands out: the worker stops at its next `Match` when it is used up. That hides
  no safety violation before it. In `released` it takes a failed call to get
  there, and `EveryObjectIsReleased` speaks of the time before one.
  `jobs_with_faults` has one attempt for ungate
  and cleanup jobs, `pods_with_faults` two. Slots are symmetric in the two safety
  runs.
- Webhook: every kind, with the two levels below a Deployment and two pods there,
  four requests or deletions of users, one failure. Two objects of users share
  no state, nor do their pods, so the constraint `OneAtATime` follows one family
  at a time.
- Ungate: two replicas and three names, one deletion, two failures, both kinds of
  set, and the queue's gate alone or between two others. Fewer than eleven pods, so that the order
  of names is that of ordinals.
- StartUp: four nodes (one of the control plane, one cordoned, two workers whose
  pods vary), two starts, two failures or restarts of Fluxion. `Int32Limit` is 4,
  and the pods reach it.
- Deadlock is not checked: when every object is gone, the job done or a bound
  used up, the system may stop.

The unbounded counterpart of most of the safety properties is proved, see below.

### Fairness

`FluxQueue`: the watch delivers, the reconciler's worker runs, and the work queue
comes round to every request (strong fairness of `ReconcileGet`, because the one
worker is busy in between). Submissions, faults, resyncs and restarts are not
fair. `Workers`: each worker runs; river comes round to every job that is
available infinitely often (retries have a schedule, so none is passed over for
ever); a released object's pods are bound, and running pods are deleted in the
end, which the repository's README asks of the user ("Any duration or deletion
needs to come from Kubernetes first"). `Ungate`: river comes back to a job that
failed, the set's controller creates pods, nodes let deleted pods go, and the owner
of another gate takes it away; deletions and faults are not fair.

## What is proved

From the assumptions on the constants alone, for every instance of them:

| module | theorem | statement |
|---|---|---|
| `FluxQueueProofs` | `TypeCorrect` | `Spec => [](TypeOK /\ BatchCoversPending)` |
| | `RowsAreNeverLost` | `Spec => []NoLostRow` |
| | `SubmittedFluxJobsAreQueued` | `Spec => []SubmittedIsQueued` |
| | `EveryJobIsFollowedByAClear` | `Spec => []ClearFollowsEveryJob` |
| | `ProducerImplementsDelivery` | `Spec => ImplementsDelivery` |
| | `FluxJobInHandIsQueued` | `Spec => []InHandIsQueued` |
| | `BatchIsThePendingTable` | `Spec => []BatchCoversPending` |
| | `FluxJobsAreScheduledOnce` | `Spec => [](Undisturbed => ScheduledOnce)` |
| `WorkersProofs` | `WorkersTypeCorrect` | `Spec => []TypeOK` |
| | `ClearIsLast` | `Spec => []ClearRunsLast` |
| | `WhatIsNamedIsHeld` | `Spec => []NamedIsHeld` |
| | `PodsRunOnTheirAllocation` | `Spec => []BoundIsAllocated` |
| `ReservationProofs` | `TableFollowsFluxion` | `Spec => []ReservationsTracked` |
| `LeakProofs` | `EveryLeakHasACause` | `BatchJobs = {}` gives `Spec => []LeaksAreExplained` |
| `WebhookProofs` | `WebhookTypeCorrect` | `Spec => []TypeOK` |
| | `StoredIsHeldBack` | `Spec => []HeldBack` |
| | `StoredIsCovered` | `Spec => []HeldIsCovered` |
| | `OnlyUsersObjectsAreSubmitted` | `Spec => []OwnedNotSubmitted` |
| | `GatedPodsAreFound` | `Spec => []GatedIsFound` |
| `UngateProofs` | `UngateTypeCorrect` | `Spec => []TypeOK` |
| | `UngatedPodsArePlaced` | `Spec => []UngatedIsPlaced` |
| | `DoneJobsAreComplete` | `Spec => []DoneIsComplete` |
| | `OnlyOwnGateIsRemoved` | `Spec => OwnGateOnly` |
| | `NodesAreNotShared` | `Spec => []NodesNotShared` |
| `PodResourcesProofs` | `PodRequestsIsPeak` | `podRequests` is the peak of a pod's demand, for every pod |
| `StartUpProofs` | `StartUpTypeCorrect` | `Spec => []TypeOK` |
| | `ServingSafe` | `Spec => []ServingHasQueue` |
| | `GraphIsTree` | `Spec => []ContainmentTree` |
| | `FluxionHasAll` | `Spec => []GraphIsComplete` |
| | `OfferIsRight` | `Spec => []OfferedFits` |
| | `LimitsHold` | `Spec => []RequestsWithinLimits` |
| | `JobspecIsRight` | `Spec => []JobspecCoversPod` |

**Producer.** Types alone are not inductive: the deletion loop takes the head of
the batch, so the batch must not be empty there. `BatchCoversPending` says so,
and says more: before `InsertMany` every pending row is in the batch, and during
the deletion loop every row that is left is in river. So a deletion never removes
the only copy of a row (`StepKeepsRows`), and whatever is queued stays queued
(`QueuedStays`). It rests on the reconciler being the only writer of the table.
`SubmittedIsQueued` needs `InHandIsQueued` besides: from a successful insert to
the status update the copy in hand is queued. For the refinement each step maps
to a submission, an acceptance, a sending of everything accepted, or a stutter;
that `InsertMany` sends everything accepted is `BatchCoversPending` again.
`ScheduledOnce` holds as long as nothing has failed, restarted or been delivered
again (`Undisturbed`). `OnceInv` follows the life of each FluxJob: the stored
object, the copy in the cache, the events on the way and the reconciler's copy
agree on one of a few stages, and only the first of them, no status and no row,
leads to an insert.

**Workers.** `ClearRunsLast` needs two invariants. `QueueInv`: a job waits for all
before it, and a job never attempted is available. `BatchInv`: a clear
job comes after every job of its batch and of those before. So when it is the
first one available, all of these were attempted. The allocation proof has three parts. The
first is `GraphStep`, what any step does to Fluxion's graph: it adds entries
under new ids only, takes away only reservations and entries of objects that are
no longer whole, and no object becomes whole again. The second shows that being
held (`Held`) survives such a step. The third says where names come from: a label
from an ungate job or a reply, an ungate job from a reply, a reply from `Match`.
`GraphStep` itself needs `MarksInv`: ids in the reservations table are those of
reservations, and ids in cleanup jobs belong to objects with a deleted pod. This
is why a cleanup job never takes nodes from under a running pod, and it needs
that `DeleteFunc` runs after the pod is gone. `ReservationProofs` counts: every
step leaves the reservations without a row as they are, or is a failed call and
adds one id.

`LeaksAreExplained` is not inductive: a cause and its leak are many steps apart.
`LeakInv` keeps the account:

    Cardinality(Allocations) + Cardinality(Lost) <= faults + Cardinality(Used)

`Allocations` are those Fluxion holds, `Lost` the objects whose allocation is no
longer in anybody's hands (whether or not Fluxion still holds it), `Used` the jobs
of river that a match has used up. A step that adds to the left side is a failed
call, uses up a job, or loses an object while an allocation is given back
(`Balance`). The bound follows: whoever is accounted for is not lost, and jobs
used beyond the first for an object are repeats. The assumption `BatchJobs = {}`
is the restriction to single pods that the property states. `PodInv` adds what
the steps rely on: a pod with a node exists, the job in hand is running and of
the right kind, a gate comes off only after the label, ids are unique.

**Webhook.** The invariant says what a manifest looks like past the webhook
(`Handled`) and before it is stored for the first time (`Fresh`); a template that
is handled gives a fresh object one level down (`TemplateFresh`), which carries
the argument through Deployment, ReplicaSet and pod. `CoverInv` says that whoever
relies on a FluxJob (a stored object, the cache, a request about to be stored, an
update) is right. `OwnersAssumption` states which kinds controllers create.

**Ungate.** The invariant follows the list of an attempt. Of the listed pods
that are neither `replaced` nor `shifted`, those before the current place are
ungated, and the others have the queue's gate exactly if they had it when listed
(`ListInv`); this needs
that only the worker removes that gate and that no pod is listed twice. So the
pod in hand still has its gate when its index is read, and `HandInv` says that
this index stays that of the queue's gate unless the pod is in `shifted`.
A pod that takes a name on the list is in `replaced`.
For `NodesNotShared` the node of a pod is tied to its place among all pods there
are, counted as a cardinality (`PlaceInv`). Each attempt's list is that order
(an increasing list of a set has k elements up to its k-th), and while places do
not shift a pod that comes later leaves the earlier places as they are.

**Start up.** The loops are recursive functions of the number of turns. Each has
a lemma that it is defined by its recursion (`...Defined`) and lemmas on what it
holds after every turn, by induction in its set form (`SetInduction`: a set that
has 0 and with each number the next has all of `Nat`). In `PodResourcesProofs`
this gives what `podRequests`, `podLimits` and the sums of the jobspec compute
for every pod. The int32 loop of the jobspec follows the exact sums turn by turn
while they are below the limit (`CpusAreSums`). `PeakDemand` is defined from the phases of a pod's life, not from
the loops. In `StartUpProofs`, `WellFormed` is the invariant of the graph under
every `Make...` call (ids are places in the list of vertices, each vertex but
the cluster has one parent with an edge each way, and a path is the parent's
with the own name). `Placed`, `Listed` and `Filled` say which vertices the nodes
passed so far have put there, and `BuildInv` is all of it after each turn of
`createInClusterJGF`. `StartUpInv` adds `main`: the loop has come to its end
before the graph is written, a manager past `InitFluxion` has its client, and
one that serves has its queue.

The assumptions are those on the constants, which TLC evaluates on the
instances: finite sets of objects and nodes, natural bounds, and for `StartUp`
lists of nodes and pods with natural quantities. Two theorems have a
hypothesis of their own, in the table above: `BatchJobs = {}` and
`Undisturbed`. The runs that check these properties have the same restriction:
the constants of `pods_with_faults`, and no faults, restarts or resyncs in
`producer_nominal`.

Only model-checked are the liveness properties (`EverySubmissionReachesRiver`,
`EveryFluxJobIsRetired`, `EveryObjectIsReleased`, `CleanupSucceeds`,
`Completes`), because fairness is out of the prover's reach, and the four
refutations, which are counterexamples. Every invariant and every action
property that a passing run checks has a theorem.

## What is not modelled

- `pkg/service` is a stub with generated code; the group and label helpers and
  the conversions of resources to text have no callers.
- The loop of the reservation worker, which is not reached with a row in the table.
- The job worker's unknown type and the text of `parseNodes`; the pods of a
  non-indexed Job, which all carry the same list of nodes.
- The scheduler plugin's completion index, `Less`, and the events that wake pods.
- A tombstone in place of a pod, and a label that does not parse, in `DeleteFunc`.
- The limit of 25 attempts of an ungate job and the pods created after it has
  completed, which stay gated; eleven and more ordinals, whose names sort
  differently.
- A restart of Fluxion under running pods: ids start over, and a cleanup may then
  cancel another object's allocation. `StartUp` has the restart without
  allocations.
- River's workers starting before `InitFluxion` has finished, and `main` waiting
  after a stop.
- A manifest that a user exported with the seen label, which passes unhandled.
- GPUs, which the graph does not reduce by what pods use; units and ranks of the
  graph and the text of its JSON; flags and the metrics server.

`PROJECT.json` lists the hazards of the code with the properties that cover them,
and says why some have none.
