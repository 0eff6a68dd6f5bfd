----------------------------- MODULE PodResources -----------------------------
(***************************************************************************)
(* The arithmetic on resource lists: what a pod requests and may use       *)
(* (resources.go), what a node's pods request together (cluster.go) and    *)
(* what the jobspec of a FluxJob asks for (jobspec.go).                    *)
(*                                                                         *)
(* A resource list is a function on the resources it names; quantities are *)
(* natural numbers (millicores for "cpu").  A container is a record        *)
(*   [requests, limits, status, always]                                    *)
(* whose status is the list of status.resources, or NoStatus, and always   *)
(* says that an init container has restart policy Always (a sidecar).  A   *)
(* pod is a record [containers, init, overhead, infeasible].               *)
(* A loop is a function from its turns to what it has gathered after each. *)
(***************************************************************************)
EXTENDS Integers, Sequences, Functions

CONSTANTS
  NoStatus,    \* "no status.resources"
  Int32Limit   \* 2^31: the least number above those of an int32

ASSUME Int32Assumption == Int32Limit \in Nat \ {0}

Empty == << >>

IsList(s) == s \in Seq(Range(s))

IsResourceList(list) == \A name \in DOMAIN list : list[name] \in Nat

IsContainer(c) ==
  /\ IsResourceList(c.requests) /\ IsResourceList(c.limits)
  /\ c.status = NoStatus \/ IsResourceList(c.status)
  /\ c.always \in BOOLEAN

IsPod(pod) ==
  /\ IsList(pod.containers) /\ IsList(pod.init)
  /\ \A i \in DOMAIN pod.containers : IsContainer(pod.containers[i])
  /\ \A i \in DOMAIN pod.init : IsContainer(pod.init[i])
  /\ IsResourceList(pod.overhead)
  /\ pod.infeasible \in BOOLEAN

Quantity(list, name) == IF name \in DOMAIN list THEN list[name] ELSE 0

Larger(a, b) == IF a >= b THEN a ELSE b

addResourceList(list, new) ==
  [name \in DOMAIN list \cup DOMAIN new |->
     Quantity(list, name) + Quantity(new, name)]

maxResourceList(list, new) ==
  [name \in DOMAIN list \cup DOMAIN new |->
     Larger(Quantity(list, name), Quantity(new, name))]

(* max, for a container that is being resized. *)
maxOf(a, b) == maxResourceList(a, b)

(* The lists added one after the other. *)
Totals(lists) ==
  LET total[i \in 0 .. Len(lists)] ==
        IF i = 0 THEN Empty ELSE addResourceList(total[i - 1], lists[i])
  IN total

AddAll(lists) == Totals(lists)[Len(lists)]

(* A container that is being resized counts what it wants or what it has,   *)
(* whichever is more, and what it has when the resize is infeasible.         *)
ContainerRequests(pod, c) ==
  IF c.status = NoStatus THEN c.requests
  ELSE IF pod.infeasible THEN c.status
  ELSE maxOf(c.requests, c.status)

-----------------------------------------------------------------------------
(* The loop over the init containers.  total gathers what runs beside the    *)
(* containers, sidecars what runs beside later init containers, and peak the *)
(* most that any init container needs with the sidecars before it.           *)

(* Variant: the sidecars started before an init container are left out. *)
InitContainerAlone(acc, list, always) ==
  LET total == IF always THEN addResourceList(acc.total, list) ELSE acc.total
  IN [total |-> total, sidecars |-> acc.sidecars,
      peak |-> maxResourceList(acc.peak, list)]

InitContainer(acc, list, always) ==
  LET sidecars == addResourceList(acc.sidecars, list)
  IN IF always
     THEN [total |-> addResourceList(acc.total, list), sidecars |-> sidecars,
           peak |-> maxResourceList(acc.peak, sidecars)]
     ELSE [acc EXCEPT !.peak = maxResourceList(@, sidecars)]

(* field is "requests" or "limits". *)
InitLoop(containers, init, field) ==
  LET acc[i \in 0 .. Len(init)] ==
        IF i = 0 THEN [total |-> containers, sidecars |-> Empty, peak |-> Empty]
        ELSE InitContainer(acc[i - 1], init[i][field], init[i].always)
  IN acc

WithInit(containers, init, field) ==
  LET last == InitLoop(containers, init, field)[Len(init)]
  IN maxResourceList(last.total, last.peak)

podRequests(pod) ==
  LET containers == AddAll([i \in DOMAIN pod.containers |->
                              ContainerRequests(pod, pod.containers[i])])
  IN addResourceList(WithInit(containers, pod.init, "requests"), pod.overhead)

(* Variant: the overhead is not added to the limits. *)
podLimitsBare(pod) ==
  LET containers == AddAll([i \in DOMAIN pod.containers |->
                              pod.containers[i].limits])
  IN WithInit(containers, pod.init, "limits")

(* The overhead is added to the limits that are not zero. *)
podLimits(pod) ==
  LET containers == AddAll([i \in DOMAIN pod.containers |->
                              pod.containers[i].limits])
      limits == WithInit(containers, pod.init, "limits")
  IN [name \in DOMAIN limits |->
        IF limits[name] = 0 THEN 0
        ELSE limits[name] + Quantity(pod.overhead, name)]

computeTotalRequests(pods) ==
  AddAll([i \in DOMAIN pods |-> podRequests(pods[i])])

-----------------------------------------------------------------------------
(* Quantity.Value() rounds up. *)
Value(milli) == (milli + 999) \div 1000

(* Go's int32(x), and what an int32 sum x comes to. *)
int32(x) == ((x + Int32Limit) % (2 * Int32Limit)) - Int32Limit

Sums(numbers) ==
  LET sum[i \in 0 .. Len(numbers)] ==
        IF i = 0 THEN 0 ELSE sum[i - 1] + numbers[i]
  IN sum

Sum(numbers) == Sums(numbers)[Len(numbers)]

(* Variant: a fraction of a core is dropped. *)
CpuTruncated(c) == Quantity(c.requests, "cpu") \div 1000

(* The cores of a container's requests. *)
Cpu(c) == Value(Quantity(c.requests, "cpu"))

(* resources.Cpu after each turn of the loop. *)
Cpus(containers) ==
  LET cpu[i \in 0 .. Len(containers)] ==
        IF i = 0 THEN 0 ELSE int32(cpu[i - 1] + int32(Cpu(containers[i])))
  IN cpu

(* The cores of the jobspec: the one field of Resources that SubmitFluxJob   *)
(* uses.  It is given the pod's containers only.                             *)
GeneratePodResources(containers) ==
  LET cpu == Cpus(containers)[Len(containers)]
  IN IF cpu = 0 THEN 1 ELSE cpu

-----------------------------------------------------------------------------
(* What the lists should be, from the life of a pod: init containers run one *)
(* after the other, each beside the sidecars before it, and the containers   *)
(* run beside all sidecars.  The pod needs the most that any phase needs.    *)

InitDemand(pod, n, name) == Quantity(pod.init[n].requests, name)

SidecarDemand(pod, n, name) ==
  Sum([i \in 1 .. n |-> IF pod.init[i].always THEN InitDemand(pod, i, name) ELSE 0])

MainDemand(pod, name) ==
  Sum([i \in DOMAIN pod.containers |->
         Quantity(ContainerRequests(pod, pod.containers[i]), name)])

Phases(pod, name) ==
  {MainDemand(pod, name) + SidecarDemand(pod, Len(pod.init), name)}
    \cup {InitDemand(pod, n, name) + SidecarDemand(pod, n - 1, name)
             : n \in DOMAIN pod.init}

PeakDemand(pod, name) ==
  Quantity(pod.overhead, name)
    + CHOOSE most \in Phases(pod, name) : \A p \in Phases(pod, name) : p <= most

(* What the containers' own requests come to, as they are and rounded up. *)
OwnDemand(pod, name) ==
  Sum([i \in DOMAIN pod.containers |-> Quantity(pod.containers[i].requests, name)])

RoundedDemand(pod, name) ==
  Sum([i \in DOMAIN pod.containers |->
         Value(Quantity(pod.containers[i].requests, name))])

(* What a container that is being resized has beyond its requests. *)
Growth(pod, c, name) ==
  Larger(0, Quantity(ContainerRequests(pod, c), name) - Quantity(c.requests, name))

(* What a pod may need beyond its containers' own requests. *)
Extras(pod, name) ==
  Quantity(pod.overhead, name)
    + Sum([i \in DOMAIN pod.init |-> InitDemand(pod, i, name)])
    + Sum([i \in DOMAIN pod.containers |-> Growth(pod, pod.containers[i], name)])
=============================================================================
