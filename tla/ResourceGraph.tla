----------------------------- MODULE ResourceGraph -----------------------------
(***************************************************************************)
(* The resource graph the manager gives Fluxion: the graph package (jgf)   *)
(* and the turn of createInClusterJGF's loop that adds a cluster node.     *)
(*                                                                         *)
(* A graph is a record [nodes, edges, elements]: the vertices in the order *)
(* they were made, the edges as (source, target) pairs of ids, and the     *)
(* counter the ids come from.  A name is a pair of a base name and an      *)
(* index, a path a sequence of names.  Memory is counted in units of which *)
(* Gi make a gibibyte.                                                     *)
(***************************************************************************)
EXTENDS PodResources

CONSTANT Gi

ASSUME GiAssumption == Gi \in Nat \ {0}

Root == <<"cluster", 0>>

NewFluxJGF == [nodes |-> << >>, edges |-> << >>, elements |-> 0]

getContainmentPath(subpath) == <<Root>> \o subpath

(* getCounter's element id, which makeNewNode advances.  Its index within a  *)
(* name is replaced by all callers but InitCluster.                          *)
NextIndex(g) == g.elements

(* Variant: the element counter is not advanced for a resource of a node. *)
makeNewNodeSameId(g, type, name, subpath, size) ==
  LET vertex == [id |-> NextIndex(g), type |-> type, name |-> name, size |-> size,
                 path |-> getContainmentPath(subpath)]
  IN [g EXCEPT !.nodes = Append(@, vertex),
               !.elements = IF type = "core" THEN @ ELSE @ + 1]

(* The vertex, with the next id and its containment path. *)
makeNewNode(g, type, name, subpath, size) ==
  LET vertex == [id |-> NextIndex(g), type |-> type, name |-> name, size |-> size,
                 path |-> getContainmentPath(subpath)]
  IN [g EXCEPT !.nodes = Append(@, vertex), !.elements = @ + 1]

(* What the Make... methods return: the vertex they made. *)
Newest(g) == g.nodes[Len(g.nodes)]

MakeBidirectionalEdge(g, parent, child) ==
  [g EXCEPT !.edges = @ \o << <<parent.id, child.id>>, <<child.id, parent.id>> >>]

(* The cluster is counted once when the graph is made, so that its own index *)
(* is 1, though the root of every path has index 0.                          *)
InitCluster == makeNewNode(NewFluxJGF, "cluster", <<"cluster", 1>>, << >>, 1)

MakeSubnet(g, zone, index) ==
  makeNewNode(g, "subnet", <<zone, index>>, << <<zone, index>> >>, 1)

(* Variant: the path leaves the subnet out. *)
MakeNodeFlat(g, name, subnet, index) ==
  makeNewNode(g, "node", <<name, index>>, << <<name, index>> >>, 1)

MakeNode(g, name, subnet, index) ==
  makeNewNode(g, "node", <<name, index>>, <<subnet.name, <<name, index>> >>, 1)

(* MakeGPU, MakeCore and MakeMemory: a resource below a compute node. *)
MakeResource(g, type, subnet, node, index, size) ==
  LET name == <<type, index>>
      new == makeNewNode(g, type, name, <<subnet.name, node.name, name>>, size)
  IN MakeBidirectionalEdge(new, node, Newest(new))

(* The loops that call them, which number the resources of a type from 0. *)
ResourceLoop(g, type, subnet, node, count, size) ==
  LET graph[i \in 0 .. count] ==
        IF i = 0 THEN g
        ELSE MakeResource(graph[i - 1], type, subnet, node, i - 1, size)
  IN graph

MakeResources(g, type, subnet, node, count, size) ==
  ResourceLoop(g, type, subnet, node, count, size)[count]

-----------------------------------------------------------------------------
(* createInClusterJGF.  A cluster node is a record                           *)
(*   [name, zone, controlPlane, unschedulable, cpu, memory, gpu]             *)
(* of its labels, its spec and what it can allocate.                         *)

IsClusterNode(node) ==
  /\ node.controlPlane \in BOOLEAN /\ node.unschedulable \in BOOLEAN
  /\ node.cpu \in Nat /\ node.memory \in Nat /\ node.gpu \in Nat

Skipped(node) == node.controlPlane \/ node.unschedulable

(* The lookup of subnets is read for every node and never written. *)
subnetLookup == Empty

(* Loops to a count run no turn for a negative one. *)
Count(n) == Larger(n, 0)

(* What the requests of running pods leave.  Go's division truncates and its *)
(* shift rounds down: both leave a negative or zero count where TLA+'s does. *)
Available(node, pods) ==
  LET reqs == computeTotalRequests(pods)
  IN [cpu |-> (node.cpu - Quantity(reqs, "cpu")) \div 1000,
      memory |-> (node.memory - Quantity(reqs, "memory")) \div Gi]

(* The subnet of a node, and the graph with it. *)
SubnetOf(g, zone, subnets) ==
  IF zone \in DOMAIN subnetLookup
  THEN [graph |-> g, subnet |-> subnetLookup[zone]]
  ELSE LET new == MakeSubnet(g, zone, subnets)
           subnet == Newest(new)
       IN [graph |-> MakeBidirectionalEdge(new, new.nodes[1], subnet),
           subnet |-> subnet]

(* A turn of the loop, once the node's pods are listed: its subnet, itself   *)
(* and its resources.  GPUs in use are not taken off.                        *)
AddComputeNode(g, node, index, subnets, pods) ==
  LET avail == Available(node, pods)
      s == SubnetOf(g, node.zone, subnets)
      made == MakeNode(s.graph, node.name, s.subnet, index)
      compute == Newest(made)
      linked == MakeBidirectionalEdge(made, s.subnet, compute)
      gpus == MakeResources(linked, "gpu", s.subnet, compute, node.gpu, 1)
      cores == MakeResources(gpus, "core", s.subnet, compute, Count(avail.cpu), 1)
  IN MakeResources(cores, "memory", s.subnet, compute, Count(avail.memory), 1024)
=============================================================================
