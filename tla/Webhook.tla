-------------------------------- MODULE Webhook --------------------------------
(***************************************************************************)
(* The admission webhook: what becomes of pods, Jobs, Deployments,         *)
(* ReplicaSets and StatefulSets that are created or updated.  The handler  *)
(* marks an object as seen, holds it back (a gate on the pods, a suspended *)
(* Job) and creates its FluxJob; the API server stores the object only     *)
(* after that, or refuses it.  Controllers create the objects below an     *)
(* owner from its template, and these pass through the webhook as well.    *)
(*                                                                         *)
(* The queue is abstract here: a FluxJob is taken over by the reconciler   *)
(* (and deleted), and its object released in the end, by name.  A release  *)
(* that finds no object is tried again.                                    *)
(***************************************************************************)
EXTENDS Naturals

CONSTANTS
  Objects,      \* names of objects
  Kind,         \* the kind of each
  Owner,        \* the object whose controller creates it, or None
  None,
  MaxRequests,  \* bound: requests and deletions of users
  MaxFaults     \* bound: failed calls and requests the API server refuses

Kinds == {"pod", "job", "deployment", "replicaset", "statefulset"}

ASSUME ObjectsAssumption ==
  /\ None \notin Objects
  /\ Kind \in [Objects -> Kinds]
  /\ Owner \in [Objects -> Objects \cup {None}]
  /\ MaxRequests \in Nat /\ MaxFaults \in Nat

(* What controllers create: a Job, a ReplicaSet or a StatefulSet pods, and a *)
(* Deployment ReplicaSets.                                                   *)
ASSUME OwnersAssumption ==
  \A o \in Objects : Owner[o] # None =>
    \/ Kind[o] = "pod" /\ Kind[Owner[o]] \in {"job", "replicaset", "statefulset"}
    \/ Kind[o] = "replicaset" /\ Kind[Owner[o]] = "deployment"

VARIABLES
  stored,     \* objects of the API server, None where there is none
  request,    \* the admission request under way, one per object
  fluxjobs,   \* FluxJobs of the API server, by the object they wrap
  cached,     \* FluxJobs the manager's client sees
  queue,      \* FluxJobs the queue has taken over and not released yet
  released,   \* history: objects the queue has released
  reused,     \* history: names that were free again while something of the
              \* earlier use was still under way
  requests, faults

vars == <<stored, request, fluxjobs, cached, queue, released, reused, requests,
          faults>>

-----------------------------------------------------------------------------
(* A manifest: the object's own seen label and, for a Job, suspend; pod is   *)
(* the part that concerns pods, the pod itself or the template: the seen     *)
(* label of the template, the gate, the scheduler and the selector label.    *)
PodPart == [seen : BOOLEAN, gated : BOOLEAN, fluxion : BOOLEAN,
            selector : Objects \cup {None}]

Manifest == [seen : BOOLEAN, suspend : BOOLEAN, pod : PodPart]

(* What a user writes. *)
Plain == [seen |-> FALSE, suspend |-> FALSE,
          pod |-> [seen |-> FALSE, gated |-> FALSE, fluxion |-> FALSE,
                   selector |-> None]]

Idle == [op |-> "none", pc |-> "idle", new |-> Plain, base |-> Plain]

Exists(o) == stored[o] # None

(* The object of a user that an object comes from. *)
Root == [o \in Objects |->
           IF Owner[o] = None THEN o
           ELSE IF Owner[Owner[o]] = None THEN Owner[o]
           ELSE Owner[Owner[o]]]

(* Pods of a Job or a ReplicaSet have no name yet when they are admitted. *)
Named(o) ==
  \/ Kind[o] # "pod"
  \/ Owner[o] = None
  \/ Kind[Owner[o]] = "statefulset"

(* What a controller makes of a template: the template's labels become the   *)
(* labels of the new object.                                                 *)
FromTemplate(m) == [seen |-> m.pod.seen, suspend |-> FALSE, pod |-> m.pod]

Init ==
  /\ stored = [o \in Objects |-> None]
  /\ request = [o \in Objects |-> Idle]
  /\ fluxjobs = {} /\ cached = {} /\ queue = {}
  /\ released = {} /\ reused = {}
  /\ requests = 0 /\ faults = 0

Fault ==
  /\ faults < MaxFaults
  /\ faults' = faults + 1

-----------------------------------------------------------------------------
(* Requests.  One for each object is under way at a time.                   *)

Send(o, op, new) ==
  /\ request[o] = Idle
  /\ request' = [request EXCEPT ![o] =
                   [op |-> op, pc |-> "handle", new |-> new, base |-> stored[o]]]
  /\ UNCHANGED <<stored, fluxjobs, cached, queue, released, reused, faults>>

(* A user creates an object (there may be one of its name: the webhook runs  *)
(* before the API server looks), asks for a dry run, edits the object that   *)
(* is stored, or replaces it by what they once wrote.                        *)
UserRequest(o) ==
  /\ Owner[o] = None
  /\ requests < MaxRequests
  /\ requests' = requests + 1
  /\ \/ Send(o, "create", Plain)
     \/ Send(o, "dryrun", Plain)
     \/ Exists(o) /\ Send(o, "update", stored[o])
     \/ Exists(o) /\ Send(o, "update", Plain)

(* A controller creates an object below its owner; that of a Job waits while *)
(* the Job is suspended.                                                     *)
ControllerRequest(o) ==
  /\ Owner[o] # None
  /\ Exists(Owner[o])
  /\ ~ stored[Owner[o]].suspend
  /\ ~ Exists(o)
  /\ Send(o, "create", FromTemplate(stored[Owner[o]]))
  /\ UNCHANGED requests

-----------------------------------------------------------------------------
(* Handle: decode by kind, then one Enqueue for each.                       *)

(* Nothing is done for an object with the seen label or a pod without name. *)
Ignored(o, m) == m.seen \/ ~ Named(o)

(* Variant: the pod itself is not marked. *)
EnqueuePodUnseen(o, m) ==
  [m EXCEPT !.pod.gated = TRUE, !.pod.fluxion = TRUE]

EnqueuePod(o, m) ==
  [m EXCEPT !.seen = TRUE, !.pod.gated = TRUE, !.pod.fluxion = TRUE]

(* Variant: the Job is not suspended. *)
EnqueueJobRunning(o, m) ==
  [m EXCEPT !.seen = TRUE, !.pod.seen = TRUE, !.pod.fluxion = TRUE]

EnqueueJob(o, m) ==
  [m EXCEPT !.seen = TRUE, !.suspend = TRUE,
            !.pod.seen = TRUE, !.pod.fluxion = TRUE]

(* Variant: the ReplicaSet of the Deployment does not count as seen. *)
EnqueueDeploymentUnseen(o, m) ==
  [m EXCEPT !.seen = TRUE,
            !.pod = [seen |-> FALSE, gated |-> TRUE, fluxion |-> TRUE,
                     selector |-> o]]

EnqueueDeployment(o, m) ==
  [m EXCEPT !.seen = TRUE,
            !.pod = [seen |-> TRUE, gated |-> TRUE, fluxion |-> TRUE,
                     selector |-> o]]

EnqueueReplicaSet(o, m) ==
  [m EXCEPT !.seen = TRUE,
            !.pod = [seen |-> TRUE, gated |-> TRUE, fluxion |-> TRUE,
                     selector |-> o]]

EnqueueStatefulSet(o, m) ==
  [m EXCEPT !.seen = TRUE,
            !.pod = [seen |-> TRUE, gated |-> TRUE, fluxion |-> TRUE,
                     selector |-> o]]

Enqueued(o, m) ==
  CASE Kind[o] = "pod" -> EnqueuePod(o, m)
    [] Kind[o] = "job" -> EnqueueJob(o, m)
    [] Kind[o] = "deployment" -> EnqueueDeployment(o, m)
    [] Kind[o] = "replicaset" -> EnqueueReplicaSet(o, m)
    [] Kind[o] = "statefulset" -> EnqueueStatefulSet(o, m)

Answer(o) == request' = [request EXCEPT ![o] = Idle]

(* The handler up to SubmitFluxJob's Get: a FluxJob of the name that the     *)
(* client sees is taken for this object's.                                   *)
Handle(o) ==
  /\ request[o].pc = "handle"
  /\ LET m == request[o].new IN
     \/ /\ Ignored(o, m)
        /\ request' = [request EXCEPT ![o].pc = "store"]
        /\ UNCHANGED faults
     \/ /\ ~ Ignored(o, m)
        /\ request' = [request EXCEPT ![o].new = Enqueued(o, m),
                         ![o].pc = IF o \in cached THEN "store" ELSE "create"]
        /\ UNCHANGED faults
     \/ /\ ~ Ignored(o, m)
        /\ Fault
        /\ Answer(o)
  /\ UNCHANGED <<stored, fluxjobs, cached, queue, released, reused, requests>>

(* Variant: an error of Create is only logged. *)
CreateFluxJobOrGoOn(o) ==
  /\ request[o].pc = "create"
  /\ request' = [request EXCEPT ![o].pc = "store"]
  /\ \/ fluxjobs' = fluxjobs \cup {o} /\ UNCHANGED faults
     \/ Fault /\ UNCHANGED fluxjobs
  /\ UNCHANGED <<stored, cached, queue, released, reused, requests>>

(* SubmitFluxJob's Create.  A FluxJob that is there, but not in the cache    *)
(* yet, is an error: the request is denied.                                  *)
CreateFluxJob(o) ==
  /\ request[o].pc = "create"
  /\ \/ /\ o \notin fluxjobs
        /\ fluxjobs' = fluxjobs \cup {o}
        /\ request' = [request EXCEPT ![o].pc = "store"]
        /\ UNCHANGED faults
     \/ /\ o \in fluxjobs
        /\ Answer(o)
        /\ UNCHANGED <<fluxjobs, faults>>
     \/ /\ Fault
        /\ Answer(o)
        /\ fluxjobs' \in {fluxjobs, fluxjobs \cup {o}}
  /\ UNCHANGED <<stored, cached, queue, released, reused, requests>>

(* The API server takes an update of an object that did not change, unless   *)
(* it would gate a pod again or change the template of a Job that runs.      *)
MayUpdate(o) ==
  /\ Exists(o)
  /\ stored[o] = request[o].base
  /\ Kind[o] = "pod" => (request[o].new.pod.gated => stored[o].pod.gated)
  /\ Kind[o] = "job" => (stored[o].suspend \/ request[o].new = stored[o])

(* The API server stores the object, refuses it, or was asked not to. *)
Store(o) ==
  /\ request[o].pc = "store"
  /\ \/ /\ \/ request[o].op = "create" /\ ~ Exists(o)
           \/ request[o].op = "update" /\ MayUpdate(o)
        /\ stored' = [stored EXCEPT ![o] = request[o].new]
        /\ UNCHANGED faults
     \/ /\ \/ request[o].op = "create" /\ Exists(o)
           \/ request[o].op = "update" /\ ~ MayUpdate(o)
           \/ request[o].op = "dryrun"
        /\ UNCHANGED <<stored, faults>>
     \/ Fault /\ UNCHANGED stored
  /\ Answer(o)
  /\ UNCHANGED <<fluxjobs, cached, queue, released, reused, requests>>

-----------------------------------------------------------------------------
(* The informer, the queue and the rest of the cluster.                     *)

Sync(o) ==
  /\ (o \in cached) # (o \in fluxjobs)
  /\ cached' = IF o \in fluxjobs THEN cached \cup {o} ELSE cached \ {o}
  /\ UNCHANGED <<stored, request, fluxjobs, queue, released, reused, requests,
                 faults>>

(* The reconciler sends the FluxJob on and deletes it. *)
TakeOver(o) ==
  /\ o \in fluxjobs
  /\ fluxjobs' = fluxjobs \ {o}
  /\ queue' = queue \cup {o}
  /\ UNCHANGED <<stored, request, cached, released, reused, requests, faults>>

(* The pods that a release of o ungates: itself, or those with its selector. *)
PodsOf(o) ==
  {p \in Objects : /\ Kind[p] = "pod" /\ Exists(p)
                   /\ p = o \/ stored[p].pod.selector = o}

(* The pods of a set that its controllers will create. *)
Replicas(o) ==
  {p \in Objects : /\ Kind[p] = "pod"
                   /\ Root[p] = o}

Ungated(m) == [m EXCEPT !.pod.gated = FALSE]

(* The queue releases an object by its name: a Job is unsuspended, pods are  *)
(* ungated.  The release of an object that is not there is tried again, and  *)
(* that of a set until it has met all its pods.                              *)
Release(o) ==
  /\ o \in queue
  /\ \/ /\ Kind[o] = "job" /\ Exists(o)
        /\ stored' = [stored EXCEPT ![o].suspend = FALSE]
        /\ released' = released \cup {o}
        /\ queue' = queue \ {o}
     \/ /\ Kind[o] # "job" /\ PodsOf(o) # {}
        /\ stored' = [p \in Objects |->
                        IF p \in PodsOf(o) THEN Ungated(stored[p]) ELSE stored[p]]
        /\ released' = released \cup PodsOf(o) \cup {o}
        /\ queue' = IF Replicas(o) \subseteq PodsOf(o) THEN queue \ {o} ELSE queue
  /\ UNCHANGED <<request, fluxjobs, cached, reused, requests, faults>>

Remove(o) ==
  /\ Exists(o)
  /\ stored' = [stored EXCEPT ![o] = None]
  /\ released' = released \ {o}
  /\ UNCHANGED <<request, fluxjobs, cached, queue, faults>>

(* A user deletes an object, whatever has become of its FluxJob. *)
Delete(o) ==
  /\ Remove(o)
  /\ requests < MaxRequests
  /\ requests' = requests + 1
  /\ reused' = IF o \in fluxjobs \cup cached \cup queue \/ request[o] # Idle
               THEN reused \cup {o} ELSE reused

(* Kubernetes deletes what belonged to an owner that is gone. *)
Collect(o) ==
  /\ Owner[o] # None
  /\ ~ Exists(Owner[o])
  /\ Remove(o)
  /\ UNCHANGED <<requests, reused>>

Next ==
  \E o \in Objects :
    \/ UserRequest(o) \/ ControllerRequest(o)
    \/ Handle(o) \/ CreateFluxJob(o) \/ Store(o)
    \/ Sync(o) \/ TakeOver(o) \/ Release(o)
    \/ Delete(o) \/ Collect(o)

Spec == Init /\ [][Next]_vars

-----------------------------------------------------------------------------
(* The manifests, the requests and the sets are of their types, and what is  *)
(* stored bears the seen label, except pods that had no name when admitted.  *)
TypeOK ==
  /\ stored \in [Objects -> Manifest \cup {None}]
  /\ request \in [Objects -> [op : {"none", "create", "dryrun", "update"},
                              pc : {"idle", "handle", "create", "store"},
                              new : Manifest, base : Manifest \cup {None}]]
  /\ fluxjobs \subseteq Objects /\ cached \subseteq Objects
  /\ queue \subseteq Objects
  /\ released \subseteq Objects /\ reused \subseteq Objects
  /\ requests \in 0 .. MaxRequests /\ faults \in 0 .. MaxFaults
  /\ \A o \in Objects : Exists(o) /\ Named(o) => stored[o].seen

(* Handle holds back what it lets through: a Job that is stored is suspended *)
(* and a pod is gated until the queue has released it, through updates,      *)
(* refused and repeated requests, and the pods controllers create meanwhile. *)
HeldBack ==
  \A o \in Objects : Exists(o) =>
    /\ Kind[o] = "job" => stored[o].suspend \/ o \in released
    /\ Kind[o] = "pod" =>
         /\ stored[o].pod.fluxion
         /\ stored[o].pod.gated \/ o \in released \/ Kind[Root[o]] = "job"

(* Nothing is held back and forgotten: an object that a user created has a   *)
(* FluxJob or a place in the queue, or was released, unless its name was     *)
(* free again while something of the earlier use was under way.              *)
HeldIsCovered ==
  \A o \in Objects :
    Exists(o) /\ Owner[o] = None /\ o \notin reused =>
      o \in fluxjobs \cup queue \cup released

(* The seen label of the template keeps what controllers create from being   *)
(* submitted once more, at every level (EnqueuePod: "should not schedule the *)
(* pods twice").                                                             *)
OwnedNotSubmitted ==
  \A o \in fluxjobs \cup queue : Owner[o] = None

(* The ungate job of the object a gated pod comes from finds the pod by its  *)
(* selector label, which passes unchanged through the levels between.        *)
GatedIsFound ==
  \A o \in Objects :
    Kind[o] = "pod" /\ Exists(o) /\ stored[o].pod.gated => o \in PodsOf(Root[o])
=============================================================================
