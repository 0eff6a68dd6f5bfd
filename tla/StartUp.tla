-------------------------------- MODULE StartUp --------------------------------
(***************************************************************************)
(* The start of the manager (main.go): the queue and its river workers,    *)
(* the Fluxion client, the resource graph built from the cluster and given *)
(* to Fluxion (InitFluxion), the controller, the pod informer, and the     *)
(* manager itself.  The container is restarted when the process ends.      *)
(* Fluxion is a second container of the same pod: it keeps its graph when  *)
(* the manager restarts, and loses it when it restarts itself.             *)
(*                                                                         *)
(* Errors of the queue, the client, InitFluxion and the informer are only  *)
(* logged; the others end the process.                                     *)
(***************************************************************************)
EXTENDS ResourceGraph, FiniteSets

CONSTANTS
  ClusterNodes,  \* the nodes of the cluster, in the order they are listed
  PodLists,      \* what the list of a node's unfinished pods may return
  NoGraph,       \* Fluxion before Init
  MaxFaults,     \* bound: failed calls, Fluxion's restarts included
  MaxStarts      \* bound: starts of the manager

ASSUME StartUpAssumption ==
  /\ IsList(ClusterNodes) /\ ClusterNodes # << >>
  /\ \A i \in DOMAIN ClusterNodes :
       /\ IsClusterNode(ClusterNodes[i])
       /\ PodLists[ClusterNodes[i].name] # {}
       /\ \A pods \in PodLists[ClusterNodes[i].name] :
            IsList(pods) /\ \A k \in DOMAIN pods : IsPod(pods[k])
  /\ MaxFaults \in Nat /\ MaxStarts \in Nat \ {0}

VARIABLES
  phase,     \* the next call of main
  queue,     \* the Queue is there and its river workers run
  client,    \* the Fluxion client is there
  informer,  \* the pod informer runs
  build,     \* the graph under construction, and the pods it was made from
  fluxion,   \* the compute nodes of the graph Fluxion was initialised with
  faults, starts

vars == <<phase, queue, client, informer, build, fluxion, faults, starts>>

(* subnets is subnetCounter; pods is history: each node's list. *)
NewBuild == [graph |-> InitCluster, subnets |-> 0, pods |-> << >>]

Init ==
  /\ phase = "manager"
  /\ queue = FALSE /\ client = FALSE /\ informer = FALSE
  /\ build = NewBuild
  /\ fluxion = NoGraph
  /\ faults = 0 /\ starts = 1

Fault ==
  /\ faults < MaxFaults
  /\ faults' = faults + 1

(* os.Exit, log.Fatalf or a panic: the workers end with the process. *)
Exit ==
  /\ phase' = "exited"
  /\ queue' = FALSE /\ client' = FALSE /\ informer' = FALSE
  /\ build' = NewBuild

Goto(next) ==
  /\ phase' = next
  /\ UNCHANGED <<queue, client, informer, build>>

-----------------------------------------------------------------------------
NewManager ==
  /\ phase = "manager"
  /\ \/ Goto("queue") /\ UNCHANGED faults
     \/ Exit /\ Fault
  /\ UNCHANGED <<fluxion, starts>>

(* NewQueue starts the river workers, before Fluxion has its graph. *)
NewQueue ==
  /\ phase = "queue"
  /\ \/ queue' = TRUE /\ UNCHANGED faults
     \/ queue' = FALSE /\ Fault
  /\ phase' = "client"
  /\ UNCHANGED <<client, informer, build, fluxion, starts>>

NewClient ==
  /\ phase = "client"
  /\ \/ client' = TRUE /\ UNCHANGED faults
     \/ client' = FALSE /\ Fault
  /\ phase' = "nodes"
  /\ UNCHANGED <<queue, informer, build, fluxion, starts>>

(* InitFluxion returns to main, which defers the client's Close: on a client *)
(* that is nil this panics.                                                  *)
ReturnToMain == IF client THEN Goto("controller") ELSE Exit

(* The graph with one more node: the control plane and nodes that take no    *)
(* pods are skipped, the others added with what their pods leave.            *)
NodeAdded(index, node) ==
  IF Skipped(node)
  THEN {[build EXCEPT !.pods = Append(@, << >>)]}
  ELSE {[graph |-> AddComputeNode(build.graph, node, index, build.subnets, pods),
         subnets |-> build.subnets + 1,
         pods |-> Append(build.pods, pods)] : pods \in PodLists[node.name]}

LoopPhase == IF Len(build.pods) + 1 = Len(ClusterNodes) THEN "write" ELSE "nodes"

(* Variant: an error of a list skips the node instead of giving up. *)
AddNodeOrSkip ==
  /\ phase = "nodes"
  /\ LET index == Len(build.pods) IN
     \/ build' \in NodeAdded(index, ClusterNodes[index + 1]) /\ UNCHANGED faults
     \/ build' = [build EXCEPT !.pods = Append(@, << >>)] /\ Fault
  /\ phase' = LoopPhase
  /\ UNCHANGED <<queue, client, informer, fluxion, starts>>

(* createInClusterJGF, a turn of its loop.  Any error, that of the list of   *)
(* nodes included, has InitFluxion give up.                                  *)
AddNode ==
  /\ phase = "nodes"
  /\ LET index == Len(build.pods) IN
     \/ /\ build' \in NodeAdded(index, ClusterNodes[index + 1])
        /\ phase' = LoopPhase
        /\ UNCHANGED <<queue, client, informer, faults>>
     \/ ReturnToMain /\ Fault
  /\ UNCHANGED <<fluxion, starts>>

WriteJGF ==
  /\ phase = "write"
  /\ \/ Goto("init") /\ UNCHANGED faults
     \/ Exit /\ Fault
  /\ UNCHANGED <<fluxion, starts>>

NodesOf(g) == {v \in Range(g.nodes) : v.type = "node"}

(* The file is read back and sent; a failed Init may have taken effect. *)
InitFluxion ==
  /\ phase = "init"
  /\ ReturnToMain
  /\ LET sent == IF client THEN NodesOf(build.graph) ELSE fluxion IN
     \/ fluxion' = sent /\ UNCHANGED faults
     \/ fluxion' \in {fluxion, sent} /\ Fault
  /\ UNCHANGED starts

SetupWithManager ==
  /\ phase = "controller"
  /\ \/ Goto("events") /\ UNCHANGED faults
     \/ Exit /\ Fault
  /\ UNCHANGED <<fluxion, starts>>

SetupEvents ==
  /\ phase = "events"
  /\ \/ informer' = TRUE /\ UNCHANGED faults
     \/ informer' = FALSE /\ Fault
  /\ phase' = "checks"
  /\ UNCHANGED <<queue, client, build, fluxion, starts>>

(* Variant: the pool's Close is not deferred. *)
HealthChecksOnly ==
  /\ phase = "checks"
  /\ \/ Goto("serving") /\ UNCHANGED faults
     \/ Exit /\ Fault
  /\ UNCHANGED <<fluxion, starts>>

(* The health checks, and the deferred Close of the queue's pool: without a  *)
(* queue this panics.                                                        *)
HealthChecks ==
  /\ phase = "checks"
  /\ \/ (IF queue THEN Goto("serving") ELSE Exit) /\ UNCHANGED faults
     \/ Exit /\ Fault
  /\ UNCHANGED <<fluxion, starts>>

(* The manager stops on a signal and the queue is stopped (or not, which is  *)
(* logged).  main then waits for a background context, which never ends; a   *)
(* manager that cannot run ends the process.                                 *)
Stop ==
  /\ phase = "serving"
  /\ \/ /\ phase' = "stopped"
        /\ \/ queue' = FALSE /\ UNCHANGED faults
           \/ queue' = queue /\ Fault
        /\ UNCHANGED <<client, informer, build>>
     \/ Exit /\ Fault
  /\ UNCHANGED <<fluxion, starts>>

-----------------------------------------------------------------------------
(* The kubelet starts the container again, or kills it first. *)
Restart ==
  /\ starts < MaxStarts
  /\ starts' = starts + 1
  /\ phase' = "manager"
  /\ queue' = FALSE /\ client' = FALSE /\ informer' = FALSE
  /\ build' = NewBuild
  /\ UNCHANGED <<fluxion, faults>>

(* Fluxion's container restarts. *)
FluxionRestart ==
  /\ fluxion # NoGraph
  /\ Fault
  /\ fluxion' = NoGraph
  /\ UNCHANGED <<phase, queue, client, informer, build, starts>>

Next ==
  \/ NewManager \/ NewQueue \/ NewClient
  \/ AddNode \/ WriteJGF \/ InitFluxion
  \/ SetupWithManager \/ SetupEvents \/ HealthChecks \/ Stop
  \/ Restart \/ FluxionRestart

Spec == Init /\ [][Next]_vars

-----------------------------------------------------------------------------
(* Properties.                                                              *)

(* What the first part of a name is taken from. *)
BaseNames ==
  {"cluster", "gpu", "core", "memory"}
    \cup UNION {{ClusterNodes[i].name, ClusterNodes[i].zone} : i \in DOMAIN ClusterNodes}

Vertices ==
  [id : Nat, type : {"cluster", "subnet", "node", "gpu", "core", "memory"},
   name : BaseNames \X Nat, size : Nat, path : Seq(BaseNames \X Nat)]

Lists == {<< >>} \cup UNION {PodLists[ClusterNodes[i].name] : i \in DOMAIN ClusterNodes}

(* Every variable has its type, and the counter of ids is what it counts. *)
TypeOK ==
  /\ phase \in {"manager", "queue", "client", "nodes", "write", "init",
                "controller", "events", "checks", "serving", "stopped", "exited"}
  /\ {queue, client, informer} \subseteq BOOLEAN
  /\ build.graph.nodes \in Seq(Vertices) /\ build.graph.edges \in Seq(Nat \X Nat)
  /\ build.graph.elements = Len(build.graph.nodes)
  /\ build.pods \in Seq(Lists) /\ Len(build.pods) <= Len(ClusterNodes)
  /\ build.subnets \in 0 .. Len(build.pods)
  /\ fluxion = NoGraph \/ fluxion \subseteq Vertices
  /\ faults \in 0 .. MaxFaults /\ starts \in 1 .. MaxStarts

(* A manager that serves has its queue, with river workers that take what    *)
(* Reconcile schedules, and its Fluxion client: main goes on after an error  *)
(* of NewQueue or NewClient, but not as far as mgr.Start.                    *)
ServingHasQueue == phase = "serving" => queue /\ client

Parents(g, v) ==
  {p \in Range(g.nodes) : p.id < v.id /\ <<p.id, v.id>> \in Range(g.edges)}

IsContainmentTree(g) ==
  /\ \A i \in DOMAIN g.nodes : g.nodes[i].id = i - 1
  /\ Len(g.edges) = 2 * (Len(g.nodes) - 1)
  /\ \A v \in Range(g.nodes) \ {g.nodes[1]} :
       \E p \in Parents(g, v) :
          /\ Parents(g, v) = {p}
          /\ <<v.id, p.id>> \in Range(g.edges)
          /\ v.path = Append(p.path, v.name)

(* The graph is a containment tree: ids are unique, every vertex but the     *)
(* cluster has one parent, with an edge each way, and its path is its        *)
(* parent's path and its own name.                                           *)
ContainmentTree == IsContainmentTree(build.graph)

Offered(g, index, type) ==
  {v \in Range(g.nodes) :
     /\ v.type = type
     /\ v.path[3] = <<ClusterNodes[index].name, index - 1>>}

(* As many units as the total leaves beside what is used, and no more. *)
Fits(units, unit, used, total) ==
  IF used >= total THEN units = 0
  ELSE units * unit + used <= total /\ total < (units + 1) * unit + used

(* Fluxion is offered, of each node, the whole cores and gibibytes that the  *)
(* pods running there leave at the height of their demand: neither a core    *)
(* that a pod uses in some phase of its life, nor less than there is.        *)
OfferedFits ==
  \A i \in DOMAIN build.pods :
     LET used(name) == Sum([k \in DOMAIN build.pods[i] |->
                              PeakDemand(build.pods[i][k], name)])
     IN ~ Skipped(ClusterNodes[i]) =>
          /\ Fits(Cardinality(Offered(build.graph, i, "core")), 1000,
                  used("cpu"), ClusterNodes[i].cpu)
          /\ Fits(Cardinality(Offered(build.graph, i, "memory")), Gi,
                  used("memory"), ClusterNodes[i].memory)

(* Fluxion never has part of a cluster: whatever call fails and whenever the *)
(* manager or Fluxion restarts, a graph it was given has each node that      *)
(* takes pods once, and no other.                                            *)
GraphIsComplete ==
  fluxion # NoGraph =>
    /\ {v.name : v \in fluxion}
         = {<<ClusterNodes[i].name, i - 1>>
              : i \in {k \in DOMAIN ClusterNodes : ~ Skipped(ClusterNodes[k])}}
    /\ \A v, w \in fluxion : v.name = w.name => v = w

ListedPods == UNION {Range(build.pods[i]) : i \in DOMAIN build.pods}

(* A pod each of whose containers keeps its requests within its limits does  *)
(* so as a whole: podRequests and podLimits walk the init containers and add *)
(* the overhead alike.                                                       *)
RequestsWithinLimits ==
  \A pod \in ListedPods : \A name \in DOMAIN podLimits(pod) :
     /\ podLimits(pod)[name] > 0
     /\ \A c \in Range(pod.containers) \cup Range(pod.init) :
          /\ c.status = NoStatus
          /\ name \in DOMAIN c.limits
          /\ Quantity(c.requests, name) <= c.limits[name]
     => Quantity(podRequests(pod), name) <= podLimits(pod)[name]

(* The jobspec asks for the cores its containers request, each rounded up,   *)
(* as long as they come to an int32.  What the graph will take off for the   *)
(* pod (podRequests) is more than that by no more than the pod's overhead,   *)
(* its init containers and a resize under way, none of which                 *)
(* GeneratePodResources is given.                                            *)
JobspecCoversPod ==
  \A pod \in ListedPods :
     LET cores == GeneratePodResources(pod.containers)
         own == OwnDemand(pod, "cpu")
     IN RoundedDemand(pod, "cpu") < Int32Limit
        => /\ own <= 1000 * cores
           /\ cores = 1 \/ 1000 * cores < own + 1000 * Len(pod.containers)
           /\ Quantity(podRequests(pod), "cpu") <= 1000 * cores + Extras(pod, "cpu")
=============================================================================
