-------------------------------- MODULE Ungate --------------------------------
(***************************************************************************)
(* UngateWorker.Work for a Deployment, a ReplicaSet or a StatefulSet.  The *)
(* ungate job lists the pods of the set, and one after the other labels a  *)
(* gated pod with a node and removes its gate, with calls that may fail,   *)
(* while controllers create, replace and delete pods and take other gates  *)
(* away.  A failed attempt starts again from the list.                     *)
(*                                                                         *)
(* A pod's name is its place in the order of names, which is the order of  *)
(* the list (ordinals below ten, for a StatefulSet).  A StatefulSet        *)
(* creates its pods in that order, each when those before it are ready; a  *)
(* ReplicaSet draws fresh names.                                           *)
(***************************************************************************)
EXTENDS Naturals, Sequences, FiniteSetsExt

CONSTANTS
  Names,       \* names of pods
  Replicas,    \* replicas of the set, and nodes of its allocation
  Others,      \* scheduling gates of others
  Templates,   \* lists of gates that the pods of a set may be created with
  MaxDeletes,  \* bound: pods deleted
  MaxFaults    \* bound: failed calls

Gates == Others \cup {"fluxqueue"}

(* The webhook appends its gate once, after those of the template; webhooks  *)
(* of others may append theirs after it.  A pod's gates have distinct names. *)
ASSUME UngateAssumption ==
  /\ Names \subseteq Nat \ {0} /\ 1 .. Replicas \subseteq Names
  /\ Replicas \in Nat \ {0}
  /\ "fluxqueue" \notin Others
  /\ Templates \subseteq Seq(Gates)
  /\ \A t \in Templates : IsInjective(t) /\ "fluxqueue" \in Range(t)
  /\ MaxDeletes \in Nat /\ MaxFaults \in Nat

VARIABLES
  ordered,      \* whether the set is a StatefulSet
  template,     \* the gates its pods are created with
  pods,         \* the pods there are: their gates and node label
  terminating,  \* pods that are being deleted and still listed
  wpc,          \* the worker's next call
  items, at,    \* the list of this attempt and the place in it
  index,        \* the index of the gate to remove
  used,         \* history: names used
  replaced,     \* history: names on the list that a new pod took since
  swapped,      \* history: pods that took the name of one in the worker's
                \* hands, after it was labelled
  shifted,      \* history: pods in which the gate is no longer where the
                \* worker has read it
  short,        \* history: a list did not have all pods
  deletes, faults

work == <<wpc, items, at, index, replaced, short>>
cluster == <<pods, terminating, used, swapped, shifted, deletes>>
vars == <<ordered, template, pods, terminating, wpc, items, at, index, used,
          replaced, swapped, shifted, short, deletes, faults>>

-----------------------------------------------------------------------------
Unplaced == 0

Gated(n) == "fluxqueue" \in Range(pods[n].gates)

(* A list without its i-th entry. *)
RemoveAt(s, i) == SubSeq(s, 1, i - 1) \o SubSeq(s, i + 1, Len(s))

Active == DOMAIN pods \ terminating

Without(n) == [m \in DOMAIN pods \ {n} |-> pods[m]]

Init ==
  /\ ordered \in BOOLEAN
  /\ template \in Templates
  /\ pods = << >> /\ terminating = {}
  /\ used = {} /\ replaced = {} /\ swapped = {} /\ shifted = {}
  /\ wpc = "list" /\ items = << >> /\ at = 0 /\ index = 0
  /\ short = FALSE
  /\ deletes = 0 /\ faults = 0

Fault ==
  /\ faults < MaxFaults
  /\ faults' = faults + 1

-----------------------------------------------------------------------------
(* Controllers and users.                                                   *)

MayCreate(n) ==
  /\ n \notin DOMAIN pods
  /\ IF ordered
     THEN /\ n <= Replicas
          /\ \A m \in 1 .. n - 1 : m \in Active /\ pods[m].gates = << >>
     ELSE /\ n \notin used
          /\ Cardinality(Active) < Replicas

Pod == items[at].name

(* The worker has labelled the pod and has still to remove its gate. *)
InHand(n) == wpc \in {"get", "remove"} /\ Pod = n

OnList(n) == \E k \in DOMAIN items : items[k].name = n

CreatePod(n) ==
  /\ MayCreate(n)
  /\ pods' = [m \in DOMAIN pods \cup {n} |->
                IF m = n THEN [gates |-> template, node |-> Unplaced] ELSE pods[m]]
  /\ used' = used \cup {n}
  /\ replaced' = IF OnList(n) THEN replaced \cup {n} ELSE replaced
  /\ swapped' = IF InHand(n) THEN swapped \cup {n} ELSE swapped \ {n}
  /\ shifted' = IF InHand(n) /\ wpc = "remove" THEN shifted \cup {n}
                                               ELSE shifted \ {n}
  /\ UNCHANGED <<ordered, template, terminating, wpc, items, at, index, short,
                 deletes, faults>>

(* A gated pod has no node and is gone at once; another is listed until its  *)
(* node has let it go.                                                       *)
DeletePod(n) ==
  /\ deletes < MaxDeletes
  /\ deletes' = deletes + 1
  /\ n \in Active
  /\ \/ /\ pods[n].gates # << >>
        /\ pods' = Without(n)
        /\ UNCHANGED terminating
     \/ /\ pods[n].gates = << >>
        /\ terminating' = terminating \cup {n}
        /\ UNCHANGED pods
  /\ UNCHANGED <<ordered, template, work, used, swapped, shifted, faults>>

Terminated(n) ==
  /\ n \in terminating
  /\ terminating' = terminating \ {n}
  /\ pods' = Without(n)
  /\ UNCHANGED <<ordered, template, work, used, swapped, shifted, deletes, faults>>

(* Others take their gates away; one in front of the queue's may do so after *)
(* removeGate has read the index and before it uses it.                      *)
RemoveOther(n) ==
  /\ n \in DOMAIN pods
  /\ \E k \in DOMAIN pods[n].gates :
       /\ pods[n].gates[k] # "fluxqueue"
       /\ pods' = [pods EXCEPT ![n].gates = RemoveAt(@, k)]
       /\ shifted' = IF InHand(n) /\ wpc = "remove" /\ k < index
                     THEN shifted \cup {n} ELSE shifted
  /\ UNCHANGED <<ordered, template, work, terminating, used, swapped, deletes,
                 faults>>

-----------------------------------------------------------------------------
(* UngateWorker.Work.                                                       *)

(* An error (or a panic, which river recovers) has the job run again. *)
RetryLater ==
  /\ wpc' = "list" /\ items' = << >> /\ at' = 0 /\ index' = 0
  /\ replaced' = {}
  /\ UNCHANGED short

(* The API server lists pods in the order of their names. *)
InOrder(names) ==
  {list \in [1 .. Cardinality(names) -> names] :
     \A i, j \in DOMAIN list : i < j => list[i] < list[j]}

Listed ==
  {[k \in DOMAIN list |-> [name |-> list[k], gated |-> Gated(list[k])]] :
     list \in InOrder(DOMAIN pods)}

List ==
  /\ wpc = "list"
  /\ \/ /\ items' \in Listed
        /\ wpc' = "loop" /\ at' = 1
        /\ short' = (short \/ Len(items') < Replicas)
        /\ UNCHANGED <<index, replaced, faults>>
     \/ Fault /\ RetryLater
  /\ UNCHANGED <<ordered, template, cluster>>

(* Variant: a pod that is left alone does not count. *)
SkipUncounted ==
  /\ wpc = "loop" /\ at <= Len(items) /\ ~ items[at].gated
  /\ items' = RemoveAt(items, at)
  /\ UNCHANGED <<ordered, template, cluster, wpc, at, index, replaced, short,
                 faults>>

(* A pod that was listed without the gate is left alone. *)
Skip ==
  /\ wpc = "loop" /\ at <= Len(items) /\ ~ items[at].gated
  /\ at' = at + 1
  /\ UNCHANGED <<ordered, template, cluster, wpc, items, index, replaced, short,
                 faults>>

Label(node) ==
  /\ Pod \in DOMAIN pods
  /\ pods' = [pods EXCEPT ![Pod].node = node]

(* Variant: nodes are counted from one. *)
PatchOffByOne ==
  /\ wpc = "loop" /\ at <= Len(items) /\ items[at].gated
  /\ at <= Replicas
  /\ Label(at + 1)
  /\ wpc' = "get"
  /\ UNCHANGED <<ordered, template, terminating, used, swapped, shifted, deletes,
                 items, at, index, replaced, short, faults>>

(* Variant: an error of the patch is only logged. *)
PatchOrGoOn ==
  /\ wpc = "loop" /\ at <= Len(items) /\ items[at].gated
  /\ at <= Replicas
  /\ \/ Label(at) /\ UNCHANGED faults
     \/ Fault /\ UNCHANGED pods
  /\ wpc' = "get"
  /\ UNCHANGED <<ordered, template, terminating, used, swapped, shifted, deletes,
                 items, at, index, replaced, short>>

(* Variant: nothing is done until the list has all pods. *)
PatchAll ==
  /\ wpc = "loop" /\ at <= Len(items) /\ items[at].gated
  /\ \/ /\ Len(items) < Replicas
        /\ RetryLater
        /\ UNCHANGED pods
     \/ /\ Len(items) >= Replicas /\ at <= Replicas
        /\ Label(at)
        /\ wpc' = "get"
        /\ UNCHANGED <<items, at, index, replaced, short>>
  /\ UNCHANGED <<ordered, template, terminating, used, swapped, shifted, deletes,
                 faults>>

(* The node of a gated pod is that of its place in the list.  Beyond the     *)
(* last node the slice of nodes is indexed out of range: the test before     *)
(* compares the place with the number of pods.                               *)
Patch ==
  /\ wpc = "loop" /\ at <= Len(items) /\ items[at].gated
  /\ \/ /\ at <= Replicas
        /\ Label(at)
        /\ wpc' = "get"
        /\ UNCHANGED <<items, at, index, replaced, short, faults>>
     \/ /\ at > Replicas \/ Pod \notin DOMAIN pods
        /\ RetryLater
        /\ UNCHANGED <<pods, faults>>
     \/ /\ at <= Replicas
        /\ Fault
        /\ RetryLater
        /\ Label(at) \/ UNCHANGED pods
  /\ UNCHANGED <<ordered, template, terminating, used, swapped, shifted, deletes>>

GateIndices(gates) == {k \in DOMAIN gates : gates[k] = "fluxqueue"}

(* Variant: the first gate is taken for the queue's. *)
gateIndexFirst(gates) == 1

(* The place of the gate in the pod as it is now, or the first one. *)
gateIndex(gates) ==
  IF GateIndices(gates) = {} THEN 1 ELSE Min(GateIndices(gates))

(* removeGate: read the pod again. *)
Get ==
  /\ wpc = "get"
  /\ \/ /\ Pod \in DOMAIN pods
        /\ index' = gateIndex(pods[Pod].gates)
        /\ wpc' = "remove"
        /\ shifted' = shifted \ {Pod}
        /\ UNCHANGED <<items, at, replaced, short, faults>>
     \/ Pod \notin DOMAIN pods /\ RetryLater /\ UNCHANGED <<shifted, faults>>
     \/ Fault /\ RetryLater /\ UNCHANGED shifted
  /\ UNCHANGED <<ordered, template, pods, terminating, used, swapped, deletes>>

HasIndex == Pod \in DOMAIN pods /\ index <= Len(pods[Pod].gates)

RemoveIndex ==
  /\ HasIndex
  /\ pods' = [pods EXCEPT ![Pod].gates = RemoveAt(@, index)]

(* The patch is by index, and an error where there is none. *)
RemoveGate ==
  /\ wpc = "remove"
  /\ \/ /\ RemoveIndex
        /\ wpc' = "loop" /\ at' = at + 1 /\ index' = 0
        /\ UNCHANGED <<items, replaced, short, faults>>
     \/ /\ ~ HasIndex
        /\ RetryLater
        /\ UNCHANGED <<pods, faults>>
     \/ /\ Fault
        /\ RetryLater
        /\ RemoveIndex \/ UNCHANGED pods
  /\ UNCHANGED <<ordered, template, terminating, used, swapped, shifted, deletes>>

(* Variant: missing pods are no error. *)
ReturnNil ==
  /\ wpc = "loop" /\ at > Len(items)
  /\ wpc' = "done"
  /\ UNCHANGED <<items, at, index, replaced, short, ordered, template, cluster,
                 faults>>

(* The end of the loop: "did not have all pods", or done. *)
Return ==
  /\ wpc = "loop" /\ at > Len(items)
  /\ \/ Len(items) < Replicas /\ RetryLater
     \/ /\ Len(items) >= Replicas
        /\ wpc' = "done"
        /\ UNCHANGED <<items, at, index, replaced, short>>
  /\ UNCHANGED <<ordered, template, cluster, faults>>

-----------------------------------------------------------------------------
Work == List \/ Skip \/ Patch \/ Get \/ RemoveGate \/ Return

Create == \E n \in Names : CreatePod(n)

Next ==
  \/ Work
  \/ Create
  \/ \E n \in Names : DeletePod(n) \/ Terminated(n) \/ RemoveOther(n)

Spec == Init /\ [][Next]_vars

(* River comes back to a job that failed; controllers do their work. *)
FairSpec ==
  /\ Spec
  /\ WF_vars(Work) /\ WF_vars(Create)
  /\ \A n \in Names : WF_vars(Terminated(n)) /\ WF_vars(RemoveOther(n))

-----------------------------------------------------------------------------
(* Properties.                                                              *)

(* Every variable has its type; a node label names one of the nodes of the   *)
(* allocation. *)
TypeOK ==
  /\ ordered \in BOOLEAN /\ template \in Templates
  /\ DOMAIN pods \subseteq Names
  /\ \A n \in DOMAIN pods : /\ Range(pods[n].gates) \subseteq Gates
                            /\ pods[n].node \in 0 .. Replicas
  /\ terminating \subseteq DOMAIN pods
  /\ wpc \in {"list", "loop", "get", "remove", "done"}
  /\ at \in 0 .. Len(items) + 1
  /\ wpc \in {"get", "remove"} => at \in 1 .. Replicas /\ items[at].gated
  /\ used \subseteq Names
  /\ replaced \subseteq used /\ swapped \subseteq used /\ shifted \subseteq used
  /\ deletes \in 0 .. MaxDeletes /\ faults \in 0 .. MaxFaults

(* A pod whose gate is gone has its node label, which the scheduler plugin   *)
(* asks for: the label is patched before removeGate, whatever fails between. *)
(* The one exception: a StatefulSet's pod that took the name of one deleted  *)
(* between the two patches.                                                  *)
UngatedIsPlaced ==
  \A n \in DOMAIN pods :
    ~ Gated(n) => pods[n].node # Unplaced \/ n \in swapped

(* removeGate takes the queue's gate off and no other, wherever the gate is  *)
(* in the list, and although others come off at any time.  The one exception *)
(* is a pod whose list changed between the two calls of removeGate, in front *)
(* of the index that the first one read and the second one removes.          *)
OwnGateOnly ==
  [][(wpc' # wpc) =>
       \A n \in (DOMAIN pods \cap DOMAIN pods') \ shifted :
         Range(pods'[n].gates) \ {"fluxqueue"} = Range(pods[n].gates) \ {"fluxqueue"}]_vars

(* Pods of a set get nodes of their own as long as places in the list do not *)
(* shift: when no pod is deleted, and the pods come in the order of their    *)
(* names or are all there at the first list.                                 *)
NodesNotShared ==
  deletes = 0 /\ (ordered \/ ~ short) =>
    \A m, n \in DOMAIN pods :
      m # n /\ pods[m].node # Unplaced => pods[m].node # pods[n].node

(* An ungate job that completes has met a pod for every node and has left    *)
(* none of those it met gated.  The exceptions: a pod that has the name of   *)
(* one on the list and is younger than the list, and one that lost another   *)
(* gate in place of the queue's.                                             *)
DoneIsComplete ==
  wpc = "done" =>
    /\ Len(items) >= Replicas
    /\ \A k \in DOMAIN items :
         LET n == items[k].name
         IN n \in DOMAIN pods /\ Gated(n) => n \in replaced \cup shifted

(* The worker waits for pods and a StatefulSet's controller for the worker,  *)
(* pod by pod: the ungate job completes in the end.                          *)
Completes == <>(wpc = "done")

-----------------------------------------------------------------------------
(* The README: the scheduler plugin "will assign exactly to the nodes it has *)
(* been intended for".  Without deletions no two pods of a set share a node. *)
ExactNodes ==
  deletes = 0 =>
    \A m, n \in DOMAIN pods :
      m # n /\ pods[m].node # Unplaced => pods[m].node # pods[n].node
=============================================================================
