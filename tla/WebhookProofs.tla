---------------------------- MODULE WebhookProofs ----------------------------
(***************************************************************************)
(* Proofs about Webhook, for any number of objects of every kind, users'   *)
(* requests and refused or failed calls.                                   *)
(*                                                                         *)
(* They rest on what a manifest looks like once it has passed the webhook  *)
(* (Handled), and when it is about to be stored for the first time         *)
(* (Fresh), which a template hands on to what controllers make of it.      *)
(***************************************************************************)
EXTENDS Webhook, TLAPS

Sets == {"deployment", "replicaset", "statefulset"}

Handled(o, m) ==
  /\ Named(o) => m.seen
  /\ m.pod.fluxion
  /\ Kind[o] # "pod" => m.pod.seen
  /\ Kind[o] \in Sets => m.pod.gated
  /\ Kind[Root[o]] \in Sets => m.pod.selector = Root[o]
  /\ Kind[Root[o]] = "job" => ~ m.pod.gated

Fresh(o, m) ==
  /\ Handled(o, m)
  /\ Kind[o] = "job" => m.suspend
  /\ Kind[o] = "pod" => m.pod.gated \/ Kind[Root[o]] = "job"

(* The manifest of a request: before the handler and after it. *)
Incoming(o, q) ==
  \/ Owner[o] = None /\ q.new = Plain
  \/ Owner[o] # None /\ q.op = "create" /\ Fresh(o, q.new)
  \/ q.op = "update" /\ q.new = q.base /\ Handled(o, q.new)

Outgoing(o, q) ==
  \/ Fresh(o, q.new)
  \/ q.op = "update" /\ q.new = q.base /\ Handled(o, q.new)

ManifestInv ==
  \A o \in Objects :
    /\ Exists(o) => Handled(o, stored[o])
    /\ request[o].pc = "handle" => Incoming(o, request[o])
    /\ request[o].pc \in {"create", "store"} => Outgoing(o, request[o])
    /\ request[o].pc = "create" => Owner[o] = None

Request == [op : {"none", "create", "dryrun", "update"},
            pc : {"idle", "handle", "create", "store"},
            new : Manifest, base : Manifest \cup {None}]

Types ==
  /\ stored \in [Objects -> Manifest \cup {None}]
  /\ request \in [Objects -> Request]
  /\ fluxjobs \subseteq Objects /\ cached \subseteq Objects
  /\ queue \subseteq Objects
  /\ released \subseteq Objects /\ reused \subseteq Objects
  /\ requests \in 0 .. MaxRequests /\ faults \in 0 .. MaxFaults

-----------------------------------------------------------------------------
(* Objects and their owners. *)

LEMMA Roots ==
  ASSUME NEW o \in Objects
  PROVE  /\ Root[o] \in Objects
         /\ Owner[o] = None => Root[o] = o
         /\ Owner[o] # None => Owner[o] \in Objects /\ Root[o] = Root[Owner[o]]
         /\ Kind[o] \in Sets => Kind[Root[o]] \in Sets
         /\ Kind[o] = "job" => Root[o] = o
<1>1. Owner[o] = None => Root[o] = o
  BY DEF Root
<1>2. ASSUME Owner[o] # None
      PROVE  Owner[o] \in Objects /\ Root[o] = Root[Owner[o]] /\ Root[o] \in Objects
             /\ (Kind[o] \in Sets => Kind[Root[o]] \in Sets)
  <2>1. Owner[o] \in Objects
    BY <1>2, ObjectsAssumption
  <2>2. CASE Owner[Owner[o]] = None
    BY <1>2, <2>1, <2>2, OwnersAssumption DEF Root, Sets
  <2>3. CASE Owner[Owner[o]] # None
    <3>1. Owner[Owner[o]] \in Objects
      BY <2>1, <2>3, ObjectsAssumption
    <3>2. Kind[Owner[o]] = "replicaset" /\ Kind[Owner[Owner[o]]] = "deployment"
      BY <1>2, <2>1, <2>3, OwnersAssumption
    <3>3. Owner[Owner[Owner[o]]] = None
      BY <3>1, <3>2, OwnersAssumption
    <3> QED
      BY <1>2, <2>1, <2>3, <3>1, <3>2, <3>3 DEF Root, Sets
  <2> QED
    BY <2>2, <2>3
<1>3. Kind[o] = "job" => Owner[o] = None
  BY OwnersAssumption
<1> QED
  BY <1>1, <1>2, <1>3

LEMMA PlainType == Plain \in Manifest /\ Idle \in Request
BY DEF Plain, Manifest, PodPart, Idle, Request

(* The handler of each kind makes a plain manifest a fresh one. *)
LEMMA EnqueuedFresh ==
  ASSUME NEW o \in Objects, Owner[o] = None
  PROVE  Enqueued(o, Plain) \in Manifest /\ Fresh(o, Enqueued(o, Plain))
<1>1. Root[o] = o
  BY Roots
<1>2. CASE Kind[o] = "pod"
  BY <1>1, <1>2, Zenon DEF Enqueued, EnqueuePod, Plain, Manifest, PodPart, Fresh, Handled, Sets
<1>3. CASE Kind[o] = "job"
  BY <1>1, <1>3, Zenon DEF Enqueued, EnqueueJob, Plain, Manifest, PodPart, Fresh, Handled, Sets
<1>4. CASE Kind[o] = "deployment"
  BY <1>1, <1>4, Zenon DEF Enqueued, EnqueueDeployment, Plain, Manifest, PodPart, Fresh, Handled, Sets
<1>5. CASE Kind[o] = "replicaset"
  BY <1>1, <1>5, Zenon DEF Enqueued, EnqueueReplicaSet, Plain, Manifest, PodPart, Fresh, Handled, Sets
<1>6. CASE Kind[o] = "statefulset"
  BY <1>1, <1>6, Zenon DEF Enqueued, EnqueueStatefulSet, Plain, Manifest, PodPart, Fresh, Handled, Sets
<1> QED
  BY <1>2, <1>3, <1>4, <1>5, <1>6, ObjectsAssumption DEF Kinds

(* What a controller makes of the template of a handled owner is fresh. *)
LEMMA TemplateFresh ==
  ASSUME NEW o \in Objects, Owner[o] # None, NEW m \in Manifest, Handled(Owner[o], m)
  PROVE  FromTemplate(m) \in Manifest /\ Fresh(o, FromTemplate(m))
<1>1. /\ FromTemplate(m) \in Manifest
      /\ FromTemplate(m).seen = m.pod.seen /\ FromTemplate(m).pod = m.pod
  BY DEF FromTemplate, Manifest, PodPart
<1>2. Owner[o] \in Objects /\ Root[o] = Root[Owner[o]]
  BY Roots
<1>3. \/ Kind[o] = "pod" /\ Kind[Owner[o]] \in {"job", "replicaset", "statefulset"}
      \/ Kind[o] = "replicaset" /\ Kind[Owner[o]] = "deployment"
  BY OwnersAssumption
<1>4. Kind[Owner[o]] = "job" => Root[Owner[o]] = Owner[o]
  BY <1>2, Roots
<1>5. Kind[Owner[o]] # "pod" /\ Kind[o] # "job"
  BY <1>3
<1>6. Handled(o, FromTemplate(m))
  BY <1>1, <1>2, <1>3, <1>5 DEF Handled, Sets
<1> QED
  BY <1>1, <1>2, <1>3, <1>4, <1>5, <1>6 DEF Fresh, Handled, Sets

-----------------------------------------------------------------------------
(* The inductive invariant. *)

Taken(o) == o \in fluxjobs \cup queue \cup released

(* Besides what is stored, whoever relies on a FluxJob being there is right. *)
Relied(o) ==
  Exists(o) \/ o \in cached \/ request[o].pc = "store" \/ request[o].op = "update"

CoverInv ==
  \A o \in Objects : Owner[o] = None /\ o \notin reused /\ Relied(o) => Taken(o)

Inv == Types /\ ManifestInv /\ HeldBack /\ OwnedNotSubmitted /\ CoverInv

LEMMA InitHolds == Init => Inv
<1> SUFFICES ASSUME Init PROVE Inv
  OBVIOUS
<1>1. Types
  BY PlainType, ObjectsAssumption DEF Init, Types
<1>2. \A o \in Objects : ~ Exists(o) /\ request[o] = Idle /\ o \notin cached
  BY DEF Init, Exists
<1>3. Idle.pc = "idle" /\ Idle.op = "none"
  BY DEF Idle
<1> QED
  BY <1>1, <1>2, <1>3 DEF Init, Inv, ManifestInv, HeldBack, OwnedNotSubmitted, CoverInv, Relied

LEMMA FaultRange == Types /\ (Fault \/ UNCHANGED faults) => faults' \in 0 .. MaxFaults
BY ObjectsAssumption DEF Types, Fault

(* A step that changes one request and at most adds its FluxJob. *)
LEMMA RequestChange ==
  ASSUME Inv, NEW o \in Objects, NEW q \in Request,
         request' = [request EXCEPT ![o] = q],
         UNCHANGED <<stored, cached, queue, released, reused>>,
         fluxjobs' = fluxjobs \/ (Owner[o] = None /\ fluxjobs' = fluxjobs \cup {o}),
         q.pc = "handle" => Incoming(o, q),
         q.pc \in {"create", "store"} => Outgoing(o, q),
         q.pc = "create" => Owner[o] = None,
         Owner[o] = None /\ o \notin reused /\ (q.pc = "store" \/ q.op = "update")
           => o \in fluxjobs' \cup queue \cup released,
         requests' \in 0 .. MaxRequests, faults' \in 0 .. MaxFaults
  PROVE  Inv'
<1>1. request'[o] = q /\ \A p \in Objects \ {o} : request'[p] = request[p]
  BY DEF Inv, Types
<1>2. Types'
  BY DEF Inv, Types
<1>3. \A p \in Objects : Exists(p)' <=> Exists(p)
  BY DEF Exists
<1>4. ManifestInv'
  <2> SUFFICES ASSUME NEW p \in Objects
               PROVE  /\ Exists(p)' => Handled(p, stored'[p])
                      /\ request'[p].pc = "handle" => Incoming(p, request'[p])
                      /\ request'[p].pc \in {"create", "store"} => Outgoing(p, request'[p])
                      /\ request'[p].pc = "create" => Owner[p] = None
    BY Zenon DEF ManifestInv, Handled, Incoming, Outgoing, Fresh
  <2>1. Exists(p)' => Handled(p, stored'[p])
    BY <1>3 DEF Inv, ManifestInv
  <2>2. CASE p = o
    BY <1>1, <2>1, <2>2
  <2>3. CASE p # o
    BY <1>1, <2>1, <2>3 DEF Inv, ManifestInv
  <2> QED
    BY <2>2, <2>3
<1>5. HeldBack'
  BY <1>3 DEF Inv, HeldBack
<1>6. OwnedNotSubmitted'
  BY DEF Inv, OwnedNotSubmitted
<1>7. CoverInv'
  <2> SUFFICES ASSUME NEW p \in Objects, Owner[p] = None, p \notin reused, Relied(p)'
               PROVE  Taken(p)'
    BY DEF CoverInv
  <2>1. Taken(p) => Taken(p)'
    BY DEF Taken
  <2>2. CASE Relied(p)
    BY <2>1, <2>2 DEF Inv, CoverInv
  <2>3. CASE p = o
    BY <1>1, <1>3, <2>2, <2>3 DEF Relied, Taken
  <2>4. CASE p # o
    BY <1>1, <1>3, <2>2, <2>4 DEF Relied
  <2> QED
    BY <2>3, <2>4
<1> QED
  BY <1>2, <1>4, <1>5, <1>6, <1>7 DEF Inv

-----------------------------------------------------------------------------
(* Requests and the handler. *)

LEMMA IdleChange ==
  ASSUME Inv, NEW o \in Objects, Answer(o),
         UNCHANGED <<stored, cached, queue, released, reused>>,
         fluxjobs' = fluxjobs \/ (Owner[o] = None /\ fluxjobs' = fluxjobs \cup {o}),
         requests' \in 0 .. MaxRequests, faults' \in 0 .. MaxFaults
  PROVE  Inv'
<1>1. Idle \in Request /\ Idle.pc = "idle" /\ Idle.op = "none"
  BY PlainType DEF Idle
<1>2. request' = [request EXCEPT ![o] = Idle]
  BY DEF Answer
<1> HIDE DEF Idle
<1> QED
  BY <1>1, <1>2, RequestChange, Zenon

LEMMA UserKeeps ==
  ASSUME Inv, NEW o \in Objects, UserRequest(o)
  PROVE  Inv'
<1>1. requests' \in 0 .. MaxRequests /\ faults' \in 0 .. MaxFaults /\ fluxjobs' = fluxjobs
  BY ObjectsAssumption DEF UserRequest, Send, Inv, Types
<1>2. UNCHANGED <<stored, cached, queue, released, reused>> /\ Owner[o] = None
  BY DEF UserRequest, Send
<1>3. PICK op \in {"create", "dryrun", "update"}, new \in {Plain, stored[o]} :
        /\ request' = [request EXCEPT ![o] =
                         [op |-> op, pc |-> "handle", new |-> new, base |-> stored[o]]]
        /\ op = "update" => Exists(o)
        /\ op # "update" => new = Plain
  BY DEF UserRequest, Send
<1> DEFINE q == [op |-> op, pc |-> "handle", new |-> new, base |-> stored[o]]
<1>4. stored[o] \in Manifest \cup {None} /\ (Exists(o) => stored[o] \in Manifest)
  BY DEF Inv, Types, Exists
<1>5. new \in Manifest
  BY <1>3, <1>4, PlainType
<1>6. q \in Request /\ q.op = op /\ q.pc = "handle" /\ q.new = new /\ q.base = stored[o]
  BY <1>3, <1>4, <1>5 DEF Request
<1>7. request' = [request EXCEPT ![o] = q]
  BY <1>3
<1> HIDE DEF q
<1>8. Incoming(o, q)
  BY <1>2, <1>3, <1>6 DEF Incoming, Inv, ManifestInv
<1>9. op = "update" /\ o \notin reused => o \in fluxjobs \cup queue \cup released
  BY <1>2, <1>3 DEF Inv, CoverInv, Relied, Taken
<1> QED
  BY <1>1, <1>2, <1>6, <1>7, <1>8, <1>9, RequestChange, Zenon

LEMMA ControllerKeeps ==
  ASSUME Inv, NEW o \in Objects, ControllerRequest(o)
  PROVE  Inv'
<1>1. requests' \in 0 .. MaxRequests /\ faults' \in 0 .. MaxFaults /\ fluxjobs' = fluxjobs
  BY DEF ControllerRequest, Send, Inv, Types
<1>2. UNCHANGED <<stored, cached, queue, released, reused>> /\ Owner[o] # None
  BY DEF ControllerRequest, Send
<1> DEFINE new == FromTemplate(stored[Owner[o]])
           q == [op |-> "create", pc |-> "handle", new |-> new, base |-> stored[o]]
<1>3. Owner[o] \in Objects /\ Exists(Owner[o])
  BY <1>2, Roots DEF ControllerRequest
<1>4. stored[Owner[o]] \in Manifest /\ Handled(Owner[o], stored[Owner[o]])
  BY <1>3 DEF Inv, Types, Exists, ManifestInv
<1>5. new \in Manifest /\ Fresh(o, new)
  BY <1>2, <1>4, TemplateFresh
<1>6. request' = [request EXCEPT ![o] = q]
  BY DEF ControllerRequest, Send
<1> HIDE DEF new
<1>7. q \in Request /\ q.op = "create" /\ q.pc = "handle" /\ q.new = new
  BY <1>5 DEF Request, Inv, Types
<1> HIDE DEF q
<1>8. Incoming(o, q)
  BY <1>2, <1>5, <1>7 DEF Incoming
<1> QED
  BY <1>1, <1>2, <1>6, <1>7, <1>8, RequestChange, Zenon

LEMMA HandleKeeps ==
  ASSUME Inv, NEW o \in Objects, Handle(o)
  PROVE  Inv'
<1>1. requests' \in 0 .. MaxRequests /\ faults' \in 0 .. MaxFaults
  BY FaultRange DEF Handle, Inv, Types
<1>2. UNCHANGED <<stored, fluxjobs, cached, queue, released, reused>>
      /\ request[o].pc = "handle"
  BY DEF Handle
<1> DEFINE r == request[o]
           m == r.new
<1>3. r \in Request /\ Incoming(o, r)
  BY <1>2 DEF Inv, Types, ManifestInv
<1>4. CASE Answer(o)
  BY <1>1, <1>2, <1>4, IdleChange
<1>5. ASSUME Ignored(o, m), request' = [request EXCEPT ![o].pc = "store"]
      PROVE  Inv'
  <2> DEFINE q == [r EXCEPT !.pc = "store"]
  <2>1. /\ q \in Request /\ q.pc = "store" /\ q.op = r.op /\ q.new = r.new
        /\ q.base = r.base /\ request' = [request EXCEPT ![o] = q]
    BY <1>3, <1>5 DEF Request
  <2>2. ~ (Owner[o] = None /\ m = Plain)
    BY <1>5 DEF Ignored, Named, Plain
  <2> HIDE DEF q
  <2>3. Outgoing(o, q)
    BY <1>3, <2>1, <2>2 DEF Incoming, Outgoing
  <2>4. Owner[o] = None /\ o \notin reused => o \in fluxjobs' \cup queue \cup released
    <3>1. Owner[o] = None => r.op = "update"
      BY <1>3, <2>2 DEF Incoming
    <3> QED
      BY <1>2, <3>1 DEF Inv, CoverInv, Relied, Taken
  <2> QED
    BY <1>1, <1>2, <2>1, <2>3, <2>4, RequestChange, Zenon
<1>6. ASSUME ~ Ignored(o, m),
             request' = [request EXCEPT ![o].new = Enqueued(o, m),
                           ![o].pc = IF o \in cached THEN "store" ELSE "create"]
      PROVE  Inv'
  <2>1. Owner[o] = None /\ m = Plain
    BY <1>3, <1>6 DEF Ignored, Incoming, Fresh, Handled
  <2>2. Enqueued(o, m) \in Manifest /\ Fresh(o, Enqueued(o, m))
    BY <2>1, EnqueuedFresh
  <2> DEFINE e == Enqueued(o, m)
             q == [r EXCEPT !.new = e, !.pc = IF o \in cached THEN "store" ELSE "create"]
  <2> HIDE DEF e
  <2>3. /\ q \in Request /\ q.op = r.op /\ q.new = e
        /\ q.pc = IF o \in cached THEN "store" ELSE "create"
    BY <1>3, <2>2, Zenon DEF Request, e
  <2>4. request' = [request EXCEPT ![o] = q]
    BY <1>3, <1>6, Zenon DEF Request, Inv, Types, e
  <2> HIDE DEF q
  <2>5. Outgoing(o, q)
    BY <2>2, <2>3 DEF Outgoing, e
  <2>6. o \notin reused /\ (q.pc = "store" \/ q.op = "update")
          => o \in fluxjobs' \cup queue \cup released
    BY <1>2, <2>1, <2>3 DEF Inv, CoverInv, Relied, Taken
  <2> QED
    BY <1>1, <1>2, <2>1, <2>3, <2>4, <2>5, <2>6, RequestChange, Zenon
<1> QED
  BY <1>4, <1>5, <1>6 DEF Handle

LEMMA CreateKeeps ==
  ASSUME Inv, NEW o \in Objects, CreateFluxJob(o)
  PROVE  Inv'
<1>1. requests' \in 0 .. MaxRequests /\ faults' \in 0 .. MaxFaults
  BY FaultRange DEF CreateFluxJob, Inv, Types
<1>2. UNCHANGED <<stored, cached, queue, released, reused>>
      /\ request[o].pc = "create" /\ Owner[o] = None
  BY DEF CreateFluxJob, Inv, ManifestInv
<1>3. fluxjobs' = fluxjobs \/ fluxjobs' = fluxjobs \cup {o}
  BY DEF CreateFluxJob
<1>4. CASE Answer(o)
  BY <1>1, <1>2, <1>3, <1>4, IdleChange
<1>5. CASE fluxjobs' = fluxjobs \cup {o} /\ request' = [request EXCEPT ![o].pc = "store"]
  <2> DEFINE r == request[o]
             q == [r EXCEPT !.pc = "store"]
  <2>1. r \in Request /\ Outgoing(o, r)
    BY <1>2 DEF Inv, Types, ManifestInv
  <2>2. /\ q \in Request /\ q.pc = "store" /\ q.op = r.op /\ q.new = r.new
        /\ q.base = r.base /\ request' = [request EXCEPT ![o] = q]
    BY <1>5, <2>1 DEF Request
  <2> HIDE DEF q
  <2>3. Outgoing(o, q)
    BY <2>1, <2>2 DEF Outgoing
  <2> QED
    BY <1>1, <1>2, <1>5, <2>2, <2>3, RequestChange, Zenon
<1> QED
  BY <1>4, <1>5 DEF CreateFluxJob

-----------------------------------------------------------------------------
(* The API server, the queue and the cluster. *)

(* What is left to show when requests stay and stored objects change. *)
LEMMA StoredChange ==
  ASSUME Inv, Types',
         \A p \in Objects : request'[p] = request[p] \/ request'[p] = Idle,
         \A p \in Objects : Exists(p)' => Handled(p, stored'[p])
  PROVE  ManifestInv'
<1>1. Idle.pc = "idle"
  BY DEF Idle
<1> SUFFICES ASSUME NEW p \in Objects
             PROVE  /\ Exists(p)' => Handled(p, stored'[p])
                    /\ request'[p].pc = "handle" => Incoming(p, request'[p])
                    /\ request'[p].pc \in {"create", "store"} => Outgoing(p, request'[p])
                    /\ request'[p].pc = "create" => Owner[p] = None
  BY Zenon DEF ManifestInv, Handled, Incoming, Outgoing, Fresh
<1>2. Exists(p)' => Handled(p, stored'[p])
  OBVIOUS
<1>3. CASE request'[p] = request[p]
  BY <1>2, <1>3 DEF Inv, ManifestInv
<1>4. CASE request'[p] = Idle
  BY <1>1, <1>2, <1>4
<1> QED
  BY <1>3, <1>4

LEMMA StoreKeeps ==
  ASSUME Inv, NEW o \in Objects, Store(o)
  PROVE  Inv'
<1>1. requests' \in 0 .. MaxRequests /\ faults' \in 0 .. MaxFaults
  BY FaultRange DEF Store, Inv, Types
<1>2. /\ UNCHANGED <<fluxjobs, cached, queue, released, reused>>
      /\ request[o].pc = "store" /\ Answer(o)
  BY DEF Store
<1>3. CASE UNCHANGED stored
  BY <1>1, <1>2, <1>3, IdleChange
<1>4. ASSUME NEW new, new = request[o].new, stored' = [stored EXCEPT ![o] = new],
             request[o].op = "update" => stored[o] = request[o].base /\ Exists(o)
      PROVE  Inv'
  <2>1. new \in Manifest /\ Outgoing(o, request[o])
    BY <1>2, <1>4 DEF Inv, Types, Request, ManifestInv
  <2>2. CASE request[o].op = "update" /\ new = request[o].base
    <3>1. stored' = stored
      BY <1>4, <2>2 DEF Inv, Types
    <3> QED
      BY <1>3, <3>1
  <2>3. CASE Fresh(o, new)
    <3>1. stored'[o] = new /\ \A p \in Objects \ {o} : stored'[p] = stored[p]
      BY <1>4 DEF Inv, Types
    <3>2. request'[o] = Idle /\ \A p \in Objects \ {o} : request'[p] = request[p]
      BY <1>2 DEF Answer, Inv, Types
    <3>3. Types'
      BY <1>1, <1>2, <1>4, <2>1, PlainType DEF Answer, Inv, Types
    <3>4. \A p \in Objects \ {o} : Exists(p)' <=> Exists(p)
      BY <3>1 DEF Exists
    <3>5. \A p \in Objects : Exists(p)' => Handled(p, stored'[p])
      BY <2>3, <3>1, <3>4 DEF Fresh, Inv, ManifestInv
    <3>6. ManifestInv'
      BY <3>2, <3>3, <3>5, StoredChange
    <3>7. HeldBack'
      <4>1. /\ Kind[o] = "job" => new.suspend
            /\ Kind[o] = "pod" => new.pod.fluxion /\ (new.pod.gated \/ Kind[Root[o]] = "job")
        BY <2>3 DEF Fresh, Handled
      <4> QED
        BY <1>2, <3>1, <3>4, <4>1 DEF Inv, HeldBack
    <3>8. OwnedNotSubmitted'
      BY <1>2 DEF Inv, OwnedNotSubmitted
    <3>9. CoverInv'
      <4>1. Idle.pc = "idle" /\ Idle.op = "none"
        BY DEF Idle
      <4>2. \A p \in Objects : Relied(p)' => Relied(p)
        BY <1>2, <3>2, <3>4, <4>1 DEF Relied
      <4>3. \A p \in Objects : Taken(p) <=> Taken(p)'
        BY <1>2 DEF Taken
      <4> QED
        BY <1>2, <4>2, <4>3 DEF Inv, CoverInv
    <3> QED
      BY <3>3, <3>6, <3>7, <3>8, <3>9 DEF Inv
  <2> QED
    BY <1>4, <2>1, <2>2, <2>3 DEF Outgoing
<1> QED
  BY <1>3, <1>4 DEF Store, MayUpdate

(* The cache, and the reconciler. *)
LEMMA SyncKeeps ==
  ASSUME Inv, NEW o \in Objects, Sync(o) \/ TakeOver(o)
  PROVE  Inv'
<1>1. UNCHANGED <<stored, request, released, reused, requests, faults>>
  BY DEF Sync, TakeOver
<1>2. /\ fluxjobs' \subseteq fluxjobs /\ fluxjobs' \cup queue' = fluxjobs \cup queue
      /\ cached' \subseteq cached \cup fluxjobs
  BY DEF Sync, TakeOver
<1>3. Types'
  BY <1>1, <1>2 DEF Inv, Types
<1>4. \A p \in Objects : Exists(p)' <=> Exists(p)
  BY <1>1 DEF Exists
<1>5. ManifestInv'
  BY <1>1, <1>3, <1>4, StoredChange DEF Inv, ManifestInv
<1>6. HeldBack'
  BY <1>1, <1>4 DEF Inv, HeldBack
<1>7. OwnedNotSubmitted'
  BY <1>2 DEF Inv, OwnedNotSubmitted
<1>8. CoverInv'
  <2>1. \A p \in Objects : Taken(p) <=> Taken(p)'
    BY <1>1, <1>2 DEF Taken
  <2>2. \A p \in Objects : Relied(p)' => Relied(p) \/ Taken(p)
    BY <1>1, <1>2, <1>4 DEF Relied, Taken
  <2> QED
    BY <1>1, <2>1, <2>2 DEF Inv, CoverInv
<1> QED
  BY <1>3, <1>5, <1>6, <1>7, <1>8 DEF Inv

LEMMA ReleasedManifest ==
  ASSUME NEW m \in Manifest
  PROVE  /\ Ungated(m) \in Manifest
         /\ Ungated(m).seen = m.seen /\ Ungated(m).suspend = m.suspend
         /\ Ungated(m).pod.fluxion = m.pod.fluxion
         /\ Ungated(m).pod.selector = m.pod.selector
         /\ Ungated(m).pod.gated = FALSE
         /\ [m EXCEPT !.suspend = FALSE] \in Manifest
         /\ [m EXCEPT !.suspend = FALSE].seen = m.seen
         /\ [m EXCEPT !.suspend = FALSE].pod = m.pod
BY Zenon DEF Ungated, Manifest, PodPart

LEMMA ReleaseKeeps ==
  ASSUME Inv, NEW o \in Objects, Release(o)
  PROVE  Inv'
<1>1. UNCHANGED <<request, fluxjobs, cached, reused, requests, faults>>
  BY DEF Release
<1>2. /\ o \in released' /\ queue' \in {queue, queue \ {o}}
      /\ released \subseteq released' /\ released' \subseteq Objects
  BY DEF Release, Inv, Types, PodsOf
<1>3. \A p \in Objects : Exists(p) => stored[p] \in Manifest /\ Handled(p, stored[p])
  BY DEF Exists, Inv, Types, ManifestInv
<1>4. \A p \in Objects :
        \/ stored'[p] = stored[p]
        \/ /\ Exists(p) /\ Kind[p] = "job" /\ p \in released'
           /\ stored'[p] = [stored[p] EXCEPT !.suspend = FALSE]
        \/ /\ Exists(p) /\ Kind[p] = "pod" /\ p \in released'
           /\ stored'[p] = Ungated(stored[p])
  <2>1. CASE /\ Kind[o] = "job" /\ Exists(o)
             /\ stored' = [stored EXCEPT ![o].suspend = FALSE]
    BY <1>2, <2>1, Zenon DEF Inv, Types
  <2>2. CASE /\ stored' = [p \in Objects |->
                             IF p \in PodsOf(o) THEN Ungated(stored[p]) ELSE stored[p]]
             /\ released' = released \cup PodsOf(o) \cup {o}
    BY <2>2 DEF PodsOf
  <2> QED
    BY <2>1, <2>2 DEF Release
<1>5. \A p \in Objects : Exists(p)' => Exists(p)
  BY <1>4, Zenon DEF Exists
<1>6. \A p \in Objects : Exists(p)' =>
        /\ stored'[p] \in Manifest /\ stored'[p].seen = stored[p].seen
        /\ stored'[p].pod.fluxion = stored[p].pod.fluxion
        /\ stored'[p].pod.selector = stored[p].pod.selector
        /\ Kind[p] # "pod" => stored'[p].pod = stored[p].pod
        /\ stored'[p].pod.gated \in {stored[p].pod.gated, FALSE}
        /\ stored'[p] = stored[p] \/ p \in released'
  <2> TAKE p \in Objects
  <2> HAVE Exists(p)'
  <2>1. Exists(p) /\ stored[p] \in Manifest
    BY <1>3, <1>5
  <2>2. CASE stored'[p] = stored[p]
    BY <2>1, <2>2
  <2>3. CASE /\ Kind[p] = "job" /\ p \in released'
             /\ stored'[p] = [stored[p] EXCEPT !.suspend = FALSE]
    BY <2>1, <2>3, ReleasedManifest, Zenon
  <2>4. CASE /\ Kind[p] = "pod" /\ p \in released'
             /\ stored'[p] = Ungated(stored[p])
    BY <2>1, <2>4, ReleasedManifest, Zenon
  <2> QED
    BY <1>4, <2>2, <2>3, <2>4, Zenon
<1>7. \A p \in Objects : Exists(p)' => Handled(p, stored'[p])
  <2> TAKE p \in Objects
  <2> HAVE Exists(p)'
  <2>1. Handled(p, stored[p])
    BY <1>3, <1>5
  <2>2. Kind[p] \in Sets => Kind[p] # "pod"
    BY DEF Sets
  <2> QED
    BY <1>6, <2>1, <2>2, Zenon DEF Handled
<1>8. Types'
  <2>1. stored' \in [Objects -> Manifest \cup {None}]
    <3>1. stored' = [p \in Objects |-> stored'[p]]
      BY DEF Release, Inv, Types
    <3>2. \A p \in Objects : stored'[p] \in Manifest \cup {None}
      BY <1>6, Zenon DEF Exists
    <3> QED
      BY <3>1, <3>2
  <2> QED
    BY <1>1, <1>2, <2>1 DEF Inv, Types
<1>9. ManifestInv'
  BY <1>1, <1>7, <1>8, StoredChange
<1>10. HeldBack'
  BY <1>2, <1>5, <1>6, Zenon DEF Inv, HeldBack
<1>11. OwnedNotSubmitted'
  BY <1>1, <1>2 DEF Inv, OwnedNotSubmitted
<1>12. CoverInv'
  <2>1. \A p \in Objects : Taken(p) => Taken(p)'
    BY <1>1, <1>2 DEF Taken
  <2>2. \A p \in Objects : Relied(p)' => Relied(p)
    BY <1>1, <1>5 DEF Relied
  <2> QED
    BY <1>1, <2>1, <2>2 DEF Inv, CoverInv
<1> QED
  BY <1>8, <1>9, <1>10, <1>11, <1>12 DEF Inv

LEMMA RemoveKeeps ==
  ASSUME Inv, NEW o \in Objects, Delete(o) \/ Collect(o)
  PROVE  Inv'
<1>1. /\ UNCHANGED <<request, fluxjobs, cached, queue, faults>>
      /\ stored' = [stored EXCEPT ![o] = None] /\ released' = released \ {o}
  BY DEF Delete, Collect, Remove
<1>2. /\ requests' \in 0 .. MaxRequests
      /\ reused \subseteq reused' /\ reused' \subseteq Objects
  BY ObjectsAssumption DEF Delete, Collect, Inv, Types
<1>3. ~ Exists(o)' /\ \A p \in Objects \ {o} : stored'[p] = stored[p]
  BY <1>1 DEF Inv, Types, Exists
<1>4. Types'
  BY <1>1, <1>2 DEF Inv, Types
<1>5. \A p \in Objects : Exists(p)' => Exists(p) /\ p # o /\ stored'[p] = stored[p]
  BY <1>3 DEF Exists
<1>6. ManifestInv'
  BY <1>1, <1>4, <1>5, StoredChange, Zenon DEF Inv, ManifestInv
<1>7. HeldBack'
  BY <1>1, <1>5 DEF Inv, HeldBack
<1>8. OwnedNotSubmitted'
  BY <1>1 DEF Inv, OwnedNotSubmitted
<1>9. CoverInv'
  <2> SUFFICES ASSUME NEW p \in Objects, Owner[p] = None, p \notin reused', Relied(p)'
               PROVE  Taken(p)'
    BY DEF CoverInv
  <2>1. CASE p # o
    <3>1. Relied(p) /\ p \notin reused
      BY <1>1, <1>2, <1>5 DEF Relied
    <3> QED
      BY <1>1, <2>1, <3>1 DEF Inv, CoverInv, Taken
  <2>2. CASE p = o
    <3>1. Idle.pc = "idle" /\ Idle.op = "none"
      BY DEF Idle
    <3>2. o \notin cached /\ request[o] = Idle
      BY <2>2 DEF Delete, Collect
    <3> QED
      BY <1>1, <1>3, <2>2, <3>1, <3>2 DEF Relied
  <2> QED
    BY <2>1, <2>2
<1> QED
  BY <1>4, <1>6, <1>7, <1>8, <1>9 DEF Inv

LEMMA NextKeeps == Inv /\ [Next]_vars => Inv'
<1> SUFFICES ASSUME Inv, [Next]_vars PROVE Inv'
  OBVIOUS
<1>1. CASE UNCHANGED vars
  <2>1. Types' /\ \A p \in Objects : Exists(p)' <=> Exists(p)
    BY <1>1 DEF vars, Inv, Types, Exists
  <2>2. ManifestInv'
    BY <1>1, <2>1, StoredChange, Zenon DEF vars, Inv, ManifestInv
  <2>3. HeldBack' /\ OwnedNotSubmitted'
    BY <1>1, <2>1 DEF vars, Inv, HeldBack, OwnedNotSubmitted
  <2>4. CoverInv'
    BY <1>1, <2>1 DEF vars, Inv, CoverInv, Relied, Taken
  <2> QED
    BY <2>1, <2>2, <2>3, <2>4 DEF Inv
<1> QED
  BY <1>1, UserKeeps, ControllerKeeps, HandleKeeps, CreateKeeps, StoreKeeps,
     SyncKeeps, ReleaseKeeps, RemoveKeeps DEF Next

-----------------------------------------------------------------------------
LEMMA InvImplies ==
  Inv => TypeOK /\ HeldBack /\ HeldIsCovered /\ OwnedNotSubmitted /\ GatedIsFound
<1> SUFFICES ASSUME Inv PROVE TypeOK /\ HeldIsCovered /\ GatedIsFound
  BY DEF Inv
<1>1. TypeOK
  BY DEF Inv, Types, ManifestInv, Handled, TypeOK, Request
<1>2. HeldIsCovered
  BY DEF Inv, CoverInv, Relied, Taken, HeldIsCovered
<1>3. ASSUME NEW o \in Objects, Kind[o] = "pod", Exists(o), stored[o].pod.gated
      PROVE  o \in PodsOf(Root[o])
  <2>1. Handled(o, stored[o])
    BY <1>3 DEF Inv, ManifestInv
  <2>2. CASE Owner[o] = None
    BY <1>3, <2>2, Roots DEF PodsOf
  <2>3. CASE Owner[o] # None
    <3>1. Owner[o] \in Objects /\ Root[o] = Root[Owner[o]]
      BY <2>3, Roots
    <3>2. Kind[Owner[o]] = "job" \/ Kind[Owner[o]] \in Sets
      BY <1>3, <2>3, OwnersAssumption DEF Sets
    <3>3. Kind[Root[o]] = "job" \/ Kind[Root[o]] \in Sets
      BY <3>1, <3>2, Roots
    <3>4. stored[o].pod.selector = Root[o]
      BY <1>3, <2>1, <3>3 DEF Handled
    <3> QED
      BY <1>3, <3>4 DEF PodsOf
  <2> QED
    BY <2>2, <2>3
<1> QED
  BY <1>1, <1>2, <1>3 DEF GatedIsFound

(* What is stored is of its type and, named, bears the seen label. *)
THEOREM WebhookTypeCorrect == Spec => []TypeOK
<1>1. Init => Inv
  BY InitHolds
<1>2. Inv /\ [Next]_vars => Inv'
  BY NextKeeps
<1>3. Inv => TypeOK
  BY InvImplies
<1> QED
  BY <1>1, <1>2, <1>3, PTL DEF Spec

(* A stored Job is suspended and a stored pod gated until the queue releases *)
(* it, whatever the order of creates, updates, dry runs and refusals, and at *)
(* every level below a Deployment, ReplicaSet or StatefulSet.                *)
THEOREM StoredIsHeldBack == Spec => []HeldBack
<1>1. Init => Inv
  BY InitHolds
<1>2. Inv /\ [Next]_vars => Inv'
  BY NextKeeps
<1>3. Inv => HeldBack
  BY InvImplies
<1> QED
  BY <1>1, <1>2, <1>3, PTL DEF Spec

(* What a user created and the webhook holds back has a FluxJob or a place   *)
(* in the queue, unless its name was reused too early, although the webhook  *)
(* asks a cache for the FluxJob and the object is stored last.               *)
THEOREM StoredIsCovered == Spec => []HeldIsCovered
<1>1. Init => Inv
  BY InitHolds
<1>2. Inv /\ [Next]_vars => Inv'
  BY NextKeeps
<1>3. Inv => HeldIsCovered
  BY InvImplies
<1> QED
  BY <1>1, <1>2, <1>3, PTL DEF Spec

(* Only users' objects are submitted: what controllers create from them      *)
(* bears the seen label or has no name when it is admitted.                  *)
THEOREM OnlyUsersObjectsAreSubmitted == Spec => []OwnedNotSubmitted
<1>1. Init => Inv
  BY InitHolds
<1>2. Inv /\ [Next]_vars => Inv'
  BY NextKeeps
<1>3. Inv => OwnedNotSubmitted
  BY InvImplies
<1> QED
  BY <1>1, <1>2, <1>3, PTL DEF Spec

(* The ungate job of an object finds each gated pod below it by its selector *)
(* label, at one or two levels.                                              *)
THEOREM GatedPodsAreFound == Spec => []GatedIsFound
<1>1. Init => Inv
  BY InitHolds
<1>2. Inv /\ [Next]_vars => Inv'
  BY NextKeeps
<1>3. Inv => GatedIsFound
  BY InvImplies
<1> QED
  BY <1>1, <1>2, <1>3, PTL DEF Spec
=============================================================================
