----------------------------- MODULE UngateProofs -----------------------------
(***************************************************************************)
(* Proofs about Ungate.  The inductive invariant follows the list of an    *)
(* attempt: a pod that was listed with the gate has it until its turn, and *)
(* has lost it after, unless the removal met another gate at its index.    *)
(***************************************************************************)
EXTENDS Ungate, FiniteSetTheorems, TLAPS

(* The gates a pod may have: no two of one name. *)
GateLists == {g \in Seq(Gates) : IsInjective(g)}

PodRecord == [gates : GateLists, node : 0 .. Replicas]

Item == [name : Names, gated : BOOLEAN]

ClusterTypes ==
  /\ ordered \in BOOLEAN /\ template \in Templates
  /\ pods \in [DOMAIN pods -> PodRecord]
  /\ IsFiniteSet(DOMAIN pods)
  /\ DOMAIN pods \subseteq used /\ used \subseteq Names
  /\ replaced \subseteq used /\ swapped \subseteq used /\ shifted \subseteq used
  /\ terminating \subseteq DOMAIN pods
  /\ deletes \in 0 .. MaxDeletes /\ faults \in 0 .. MaxFaults

WorkTypes ==
  /\ wpc \in {"list", "loop", "get", "remove", "done"}
  /\ items \in Seq(Item)
  /\ at \in 0 .. Len(items) + 1 /\ index \in Nat
  /\ wpc \in {"loop", "get", "remove", "done"} => at > 0
  /\ wpc \in {"get", "remove"} => at \in 1 .. Replicas /\ at <= Len(items)
                                  /\ items[at].gated
  /\ wpc = "done" => at = Len(items) + 1 /\ Len(items) >= Replicas

(* What is known of the pod at a place of the list: its gate is off after    *)
(* its turn.  Before, one that was listed with the gate has it, even if it   *)
(* is another pod by now; one that was listed without has none.              *)
AtPlace(k, n) ==
  /\ k < at /\ n \notin replaced \cup shifted => ~ Gated(n)
  /\ k >= at /\ items[k].gated => Gated(n)
  /\ k >= at /\ n \notin replaced /\ ~ items[k].gated => ~ Gated(n)

(* The list names every pod once, and says what is left to do. *)
ListInv ==
  /\ \A k \in 1 .. Len(items) : items[k].name \in used
  /\ \A i, j \in 1 .. Len(items) : items[i].name = items[j].name => i = j
  /\ \A k \in 1 .. Len(items) :
       items[k].name \in DOMAIN pods => AtPlace(k, items[k].name)

(* The pod in hand is labelled, and the index is that of the queue's gate,   *)
(* with the exceptions that the history variables record.                    *)
HandInv ==
  /\ wpc \in {"get", "remove"} /\ Pod \in DOMAIN pods \ swapped
       => pods[Pod].node # Unplaced
  /\ wpc = "remove" =>
       /\ index > 0
       /\ Pod \in DOMAIN pods \ shifted =>
            index \in DOMAIN pods[Pod].gates /\ pods[Pod].gates[index] = "fluxqueue"

Inv == ClusterTypes /\ WorkTypes /\ ListInv /\ HandInv /\ UngatedIsPlaced

-----------------------------------------------------------------------------
(* Gates as sequences.                                                      *)

LEMMA GateListFacts ==
  ASSUME NEW g \in GateLists
  PROVE  /\ Len(g) \in Nat /\ DOMAIN g = 1 .. Len(g)
         /\ \A k \in 1 .. Len(g) : g[k] \in Gates
         /\ \A i, j \in 1 .. Len(g) : g[i] = g[j] => i = j
         /\ Range(g) = {g[k] : k \in 1 .. Len(g)}
<1>1. g \in Seq(Gates) /\ IsInjective(g)
  BY DEF GateLists
<1>2. Len(g) \in Nat /\ DOMAIN g = 1 .. Len(g) /\ \A k \in 1 .. Len(g) : g[k] \in Gates
  BY <1>1
<1> QED
  BY <1>1, <1>2, Zenon DEF IsInjective, Range

LEMMA Concatenation ==
  ASSUME NEW S, NEW a \in Seq(S), NEW b \in Seq(S)
  PROVE  /\ a \o b \in Seq(S) /\ Len(a \o b) = Len(a) + Len(b)
         /\ \A j \in 1 .. Len(a) + Len(b) :
              (a \o b)[j] = IF j <= Len(a) THEN a[j] ELSE b[j - Len(a)]
  OBVIOUS

(* The entries in front of the one that is removed stay, those behind it     *)
(* move up.                                                                  *)
LEMMA RemoveAtEntries ==
  ASSUME NEW g \in GateLists, NEW k \in DOMAIN g
  PROVE  /\ RemoveAt(g, k) \in Seq(Gates)
         /\ Len(RemoveAt(g, k)) = Len(g) - 1
         /\ \A j \in 1 .. Len(g) - 1 :
              RemoveAt(g, k)[j] = IF j < k THEN g[j] ELSE g[j + 1]
<1> DEFINE a == SubSeq(g, 1, k - 1)
           b == SubSeq(g, k + 1, Len(g))
<1>1. g \in Seq(Gates) /\ Len(g) \in Nat /\ k \in 1 .. Len(g)
  BY DEF GateLists
<1>2. a \in Seq(Gates) /\ Len(a) = k - 1 /\ \A j \in 1 .. k - 1 : a[j] = g[j]
  BY <1>1
<1>3. b \in Seq(Gates) /\ Len(b) = Len(g) - k /\ \A j \in 1 .. Len(g) - k : b[j] = g[j + k]
  BY <1>1
<1> HIDE DEF a, b
<1>4. a \o b \in Seq(Gates) /\ Len(a \o b) = Len(g) - 1
  <2>1. a \o b \in Seq(Gates) /\ Len(a \o b) = Len(a) + Len(b)
    BY <1>2, <1>3, Concatenation, Zenon
  <2> QED
    BY <1>1, <1>2, <1>3, <2>1
<1>5. ASSUME NEW j \in 1 .. Len(g) - 1
      PROVE  (a \o b)[j] = IF j < k THEN g[j] ELSE g[j + 1]
  <2>a. j \in 1 .. Len(a) + Len(b) /\ (j < k) = (j <= Len(a))
    BY <1>1, <1>2, <1>3
  <2>b. (a \o b)[j] = IF j <= Len(a) THEN a[j] ELSE b[j - Len(a)]
    BY <1>2, <1>3, <2>a, Concatenation, Zenon
  <2>1. CASE j < k
    <3>1. j \in 1 .. k - 1
      BY <1>1, <2>1
    <3> QED
      BY <1>2, <2>a, <2>b, <2>1, <3>1, Zenon
  <2>2. CASE ~ (j < k)
    <3>1. j - (k - 1) \in 1 .. Len(g) - k
      BY <1>1, <2>2
    <3>2. (a \o b)[j] = b[j - (k - 1)]
      BY <1>2, <2>a, <2>b, <2>2, Zenon
    <3>3. (j - (k - 1)) + k = j + 1
      BY <1>1
    <3> QED
      BY <1>3, <2>2, <3>1, <3>2, <3>3
  <2> QED
    BY <2>1, <2>2
<1> QED
  BY <1>4, <1>5 DEF RemoveAt, a, b

(* A gate that is removed is gone, the rest is as before. *)
LEMMA RemoveAtFacts ==
  ASSUME NEW g \in GateLists, NEW k \in DOMAIN g
  PROVE  /\ RemoveAt(g, k) \in GateLists
         /\ Range(RemoveAt(g, k)) = Range(g) \ {g[k]}
         /\ \A j \in DOMAIN g : j < k => j \in DOMAIN RemoveAt(g, k)
                                        /\ RemoveAt(g, k)[j] = g[j]
<1> DEFINE h == RemoveAt(g, k)
           old(j) == IF j < k THEN j ELSE j + 1
           new(j) == IF j < k THEN j ELSE j - 1
<1>1. /\ Len(g) \in Nat /\ k \in 1 .. Len(g) /\ DOMAIN g = 1 .. Len(g)
      /\ \A i, j \in 1 .. Len(g) : g[i] = g[j] => i = j
      /\ Range(g) = {g[j] : j \in 1 .. Len(g)}
  BY GateListFacts
<1>2. /\ h \in Seq(Gates) /\ DOMAIN h = 1 .. Len(g) - 1
      /\ \A j \in 1 .. Len(g) - 1 : h[j] = g[old(j)]
  BY <1>1, RemoveAtEntries
<1> HIDE DEF h
<1>3. \A j \in 1 .. Len(g) - 1 : old(j) \in 1 .. Len(g) /\ old(j) # k
  BY <1>1
<1>4. \A i, j \in 1 .. Len(g) - 1 : old(i) = old(j) => i = j
  BY <1>1
<1>5. \A j \in 1 .. Len(g) : j # k => new(j) \in 1 .. Len(g) - 1 /\ old(new(j)) = j
  BY <1>1
<1>6. \A j \in 1 .. Len(g) : j < k => j \in 1 .. Len(g) - 1 /\ old(j) = j
  BY <1>1
<1> HIDE DEF old, new
<1>7. h \in GateLists
  <2>1. ASSUME NEW i \in DOMAIN h, NEW j \in DOMAIN h, h[i] = h[j]
        PROVE  i = j
    <3>1. g[old(i)] = g[old(j)]
      BY <1>2, <2>1, Zenon
    <3>2. old(i) = old(j)
      BY <1>1, <1>2, <1>3, <3>1, Zenon
    <3> QED
      BY <1>2, <1>4, <3>2, Zenon
  <2>2. IsInjective(h)
    BY <2>1, Zenon DEF IsInjective
  <2> QED
    BY <1>2, <2>2 DEF GateLists
<1>8. Range(h) = {h[j] : j \in 1 .. Len(g) - 1}
  BY <1>2, Zenon DEF Range
<1>9. ASSUME NEW x \in Range(h)
      PROVE  x \in Range(g) \ {g[k]}
  <2>1. PICK j \in 1 .. Len(g) - 1 : x = h[j]
    BY <1>8, Zenon
  <2>2. x = g[old(j)] /\ old(j) \in 1 .. Len(g) /\ old(j) # k
    BY <1>2, <1>3, <2>1, Zenon
  <2>3. x \in Range(g)
    BY <1>1, <2>2, Zenon
  <2>4. x # g[k]
    BY <1>1, <2>2, Zenon
  <2> QED
    BY <2>3, <2>4, Zenon
<1>10. ASSUME NEW x \in Range(g), x # g[k]
       PROVE  x \in Range(h)
  <2>1. PICK j \in 1 .. Len(g) : x = g[j]
    BY <1>1, Zenon
  <2>2. j # k
    BY <1>10, <2>1, Zenon
  <2>3. new(j) \in 1 .. Len(g) - 1 /\ h[new(j)] = x
    BY <1>2, <1>5, <2>1, <2>2, Zenon
  <2> QED
    BY <1>8, <2>3, Zenon
<1>11. Range(h) = Range(g) \ {g[k]}
  BY <1>9, <1>10, Zenon
<1>12. \A j \in DOMAIN g : j < k => j \in DOMAIN h /\ h[j] = g[j]
  BY <1>1, <1>2, <1>6, Zenon
<1> QED
  BY <1>7, <1>11, <1>12 DEF h

(* gateIndex finds the queue's gate where there is one. *)
LEMMA gateIndexFound ==
  ASSUME NEW g \in GateLists
  PROVE  /\ gateIndex(g) \in Nat \ {0}
         /\ "fluxqueue" \in Range(g) =>
              gateIndex(g) \in DOMAIN g /\ g[gateIndex(g)] = "fluxqueue"
<1>1. /\ Len(g) \in Nat /\ DOMAIN g = 1 .. Len(g)
      /\ \A i, j \in 1 .. Len(g) : g[i] = g[j] => i = j
      /\ Range(g) = {g[j] : j \in 1 .. Len(g)}
  BY GateListFacts
<1>2. CASE GateIndices(g) = {}
  <2>1. gateIndex(g) = 1 /\ "fluxqueue" \notin Range(g)
    BY <1>1, <1>2, Zenon DEF gateIndex, GateIndices
  <2> QED
    BY <2>1
<1>3. CASE GateIndices(g) # {}
  <2>1. PICK i \in 1 .. Len(g) : g[i] = "fluxqueue"
    BY <1>1, <1>3, Zenon DEF GateIndices
  <2>2. GateIndices(g) = {i}
    BY <1>1, <2>1, Zenon DEF GateIndices
  <2>3. Min({i}) = i
    BY DEF Min
  <2>4. gateIndex(g) = i
    BY <1>3, <2>2, <2>3, Zenon DEF gateIndex
  <2> QED
    BY <1>1, <2>1, <2>4
<1> QED
  BY <1>2, <1>3

(* The gates of a new pod. *)
LEMMA TemplateFacts ==
  ASSUME Inv
  PROVE  template \in GateLists /\ "fluxqueue" \in Range(template)
  BY UngateAssumption, Zenon DEF Inv, ClusterTypes, GateLists

-----------------------------------------------------------------------------
(* What a step of the cluster, and the start of a new attempt, need.        *)

(* A pod that stays, and one that is created. *)
Stays(n) ==
  /\ n \in DOMAIN pods /\ Gated(n)' = Gated(n)
  /\ n \in replaced => n \in replaced'
  /\ n \in shifted => n \in shifted'

IsNew(n) == Gated(n)' /\ (OnList(n) => n \in replaced')

LEMMA ClusterStep ==
  ASSUME Inv, UNCHANGED <<wpc, items, at, index>>, ClusterTypes', used \subseteq used',
         \A n \in DOMAIN pods' : Stays(n) \/ IsNew(n),
         HandInv', UngatedIsPlaced'
  PROVE  Inv'
<1>1. WorkTypes'
  BY DEF Inv, WorkTypes
<1>2. ListInv'
  <2>1. items \in Seq(Item) /\ DOMAIN items = 1 .. Len(items)
    BY DEF Inv, WorkTypes
  <2>2. ASSUME NEW k \in 1 .. Len(items), items[k].name \in DOMAIN pods'
        PROVE  AtPlace(k, items[k].name)'
    <3>a. PICK n : n = items[k].name
      OBVIOUS
    <3>1. CASE Stays(n)
      <4>1. AtPlace(k, n)
        BY <3>a, <3>1 DEF Inv, ListInv, Stays
      <4>2. AtPlace(k, n)'
        BY <3>1, <4>1, Zenon DEF AtPlace, Stays
      <4> QED
        BY <3>a, <4>2
    <3>2. CASE IsNew(n)
      <4>1. OnList(n)
        BY <2>1, <3>a DEF OnList
      <4>2. AtPlace(k, n)'
        BY <3>2, <4>1, Zenon DEF AtPlace, IsNew
      <4> QED
        BY <3>a, <4>2
    <3> QED
      BY <2>2, <3>a, <3>1, <3>2
  <2>3. \A k \in 1 .. Len(items) : items[k].name \in used'
    BY DEF Inv, ListInv
  <2> QED
    BY <2>2, <2>3 DEF Inv, ListInv
<1> QED
  BY <1>1, <1>2 DEF Inv

LEMMA RetryStep ==
  ASSUME Inv, RetryLater, ClusterTypes', UngatedIsPlaced'
  PROVE  Inv'
<1>1. WorkTypes'
  BY DEF Inv, RetryLater, WorkTypes
<1>2. ListInv'
  BY DEF RetryLater, ListInv
<1>3. HandInv'
  BY DEF RetryLater, HandInv
<1> QED
  BY <1>1, <1>2, <1>3 DEF Inv

LEMMA FaultType ==
  ASSUME Inv, Fault
  PROVE  faults' \in 0 .. MaxFaults
  BY UngateAssumption DEF Inv, ClusterTypes, Fault

(* The pod in hand has been used. *)
LEMMA PodInHand ==
  ASSUME Inv, wpc \in {"get", "remove"}
  PROVE  Pod \in used /\ at \in 1 .. Len(items) /\ items[at].gated
  BY DEF Inv, WorkTypes, ListInv, Pod

-----------------------------------------------------------------------------
(* The cluster's steps.                                                     *)

LEMMA CreateInv ==
  ASSUME Inv, NEW n \in Names, CreatePod(n)
  PROVE  Inv'
<1> DEFINE pod == [gates |-> template, node |-> Unplaced]
<1>1. n \notin DOMAIN pods
  BY DEF CreatePod, MayCreate
<1>2. /\ DOMAIN pods' = DOMAIN pods \cup {n}
      /\ pods'[n] = pod
      /\ \A m \in DOMAIN pods : pods'[m] = pods[m]
  BY <1>1 DEF CreatePod
<1>3. pod \in PodRecord /\ "fluxqueue" \in Range(pod.gates)
  BY TemplateFacts, UngateAssumption DEF PodRecord, Unplaced
<1>4. /\ used' = used \cup {n}
      /\ UNCHANGED <<ordered, template, terminating, wpc, items, at, index, deletes, faults>>
      /\ replaced' \subseteq replaced \cup {n} /\ replaced \subseteq replaced'
      /\ swapped' \subseteq swapped \cup {n} /\ swapped \subseteq swapped' \cup {n}
      /\ shifted' \subseteq shifted \cup {n} /\ shifted \subseteq shifted' \cup {n}
  BY Zenon DEF CreatePod
<1>5. ClusterTypes'
  <2>1. IsFiniteSet(DOMAIN pods')
    BY <1>2, FS_AddElement DEF Inv, ClusterTypes
  <2>2. pods' \in [DOMAIN pods' -> PodRecord]
    BY <1>2, <1>3 DEF Inv, ClusterTypes, CreatePod
  <2> HIDE DEF pod
  <2> QED
    BY <1>2, <1>4, <2>1, <2>2, Zenon DEF Inv, ClusterTypes
<1>6. \A m \in DOMAIN pods : Stays(m)
  BY <1>1, <1>2, <1>4, Zenon DEF Stays, Gated
<1>7. IsNew(n)
  <2>1. Gated(n)'
    BY <1>2, <1>3 DEF Gated
  <2>2. OnList(n) => n \in replaced'
    BY DEF CreatePod
  <2> QED
    BY <2>1, <2>2, Zenon DEF IsNew
<1>8. UngatedIsPlaced'
  <2>1. ASSUME NEW m \in DOMAIN pods', ~ Gated(m)'
        PROVE  pods'[m].node # Unplaced \/ m \in swapped'
    <3>1. m \in DOMAIN pods /\ m # n
      BY <1>1, <1>2, <1>7, <2>1, Zenon DEF IsNew
    <3>2. pods'[m] = pods[m] /\ ~ Gated(m)
      BY <1>2, <2>1, <3>1, Zenon DEF Gated
    <3> QED
      BY <1>4, <3>1, <3>2, Zenon DEF Inv, UngatedIsPlaced
  <2> QED
    BY <2>1, Zenon DEF UngatedIsPlaced
<1>9. HandInv'
  <2>1. Pod' = Pod /\ wpc' = wpc /\ index' = index
    BY <1>4 DEF Pod
  <2>2. wpc \in {"get", "remove"} /\ Pod = n => n \in swapped'
    BY Zenon DEF CreatePod, InHand
  <2>3. wpc = "remove" /\ Pod = n => n \in shifted'
    BY Zenon DEF CreatePod, InHand
  <2>4. wpc \in {"get", "remove"} /\ Pod \in DOMAIN pods' \ swapped'
          => pods'[Pod].node # Unplaced
    BY <1>2, <1>4, <2>2, Zenon DEF Inv, HandInv
  <2>5. wpc = "remove" => index > 0
    BY DEF Inv, HandInv
  <2>6. wpc = "remove" /\ Pod \in DOMAIN pods' \ shifted'
          => index \in DOMAIN pods'[Pod].gates /\ pods'[Pod].gates[index] = "fluxqueue"
    BY <1>2, <1>4, <2>3, Zenon DEF Inv, HandInv
  <2> QED
    BY <2>1, <2>4, <2>5, <2>6, Zenon DEF HandInv
<1> QED
  BY <1>2, <1>4, <1>5, <1>6, <1>7, <1>8, <1>9, ClusterStep, Zenon

(* Pods go. *)
LEMMA WithoutInv ==
  ASSUME Inv, UNCHANGED <<ordered, template, work, used, swapped, shifted, faults>>,
         NEW n, pods' = Without(n) \/ pods' = pods,
         terminating' \subseteq DOMAIN pods',
         deletes' \in 0 .. MaxDeletes
  PROVE  Inv'
<1>1. /\ DOMAIN pods' \subseteq DOMAIN pods
      /\ \A m \in DOMAIN pods' : pods'[m] = pods[m]
      /\ pods' \in [DOMAIN pods' -> PodRecord]
  BY DEF Without, Inv, ClusterTypes
<1>2. UNCHANGED <<wpc, items, at, index, replaced>>
  BY DEF work
<1>3. ClusterTypes'
  BY <1>1, <1>2, FS_Subset DEF Inv, ClusterTypes
<1>4. \A m \in DOMAIN pods' : Stays(m)
  BY <1>1, <1>2, Zenon DEF Stays, Gated
<1>5. UngatedIsPlaced'
  BY <1>1 DEF Inv, UngatedIsPlaced, Gated
<1>6. HandInv'
  <2>1. Pod' = Pod
    BY <1>2 DEF Pod
  <2> QED
    BY <1>1, <1>2, <2>1, Zenon DEF Inv, HandInv
<1> QED
  BY <1>2, <1>3, <1>4, <1>5, <1>6, ClusterStep, Zenon

LEMMA DeleteInv ==
  ASSUME Inv, NEW n \in Names, DeletePod(n)
  PROVE  Inv'
<1>1. deletes' \in 0 .. MaxDeletes
  BY UngateAssumption DEF DeletePod, Inv, ClusterTypes
<1>2. CASE pods' = Without(n) /\ UNCHANGED terminating
  <2>1. n \notin terminating /\ DOMAIN pods' = DOMAIN pods \ {n}
    BY <1>2 DEF DeletePod, Active, Without
  <2> QED
    BY <1>1, <1>2, <2>1, WithoutInv, Zenon DEF DeletePod, Inv, ClusterTypes
<1>3. CASE terminating' = terminating \cup {n} /\ UNCHANGED pods
  BY <1>1, <1>3, WithoutInv DEF DeletePod, Active, Inv, ClusterTypes
<1> QED
  BY <1>2, <1>3 DEF DeletePod

LEMMA TerminatedInv ==
  ASSUME Inv, NEW n \in Names, Terminated(n)
  PROVE  Inv'
<1>1. DOMAIN pods' = DOMAIN pods \ {n}
  BY DEF Terminated, Without
<1> QED
  BY <1>1, WithoutInv DEF Terminated, Inv, ClusterTypes

(* A change of the gates of one pod. *)
LEMMA ChangeOfGates ==
  ASSUME Inv, NEW n \in DOMAIN pods, NEW g \in GateLists,
         pods' = [pods EXCEPT ![n].gates = g]
  PROVE  /\ DOMAIN pods' = DOMAIN pods
         /\ pods' \in [DOMAIN pods' -> PodRecord]
         /\ pods'[n].gates = g /\ pods'[n].node = pods[n].node
         /\ \A m \in DOMAIN pods \ {n} : pods'[m] = pods[m]
<1>1. pods \in [DOMAIN pods -> PodRecord]
  BY DEF Inv, ClusterTypes
<1>2. pods[n] \in PodRecord
  BY <1>1
<1>3. [pods[n] EXCEPT !.gates = g] \in PodRecord
  BY <1>2 DEF PodRecord
<1>4. pods' = [pods EXCEPT ![n] = [pods[n] EXCEPT !.gates = g]]
  OBVIOUS
<1>5. pods'[n] = [pods[n] EXCEPT !.gates = g]
  BY <1>1, <1>4
<1> QED
  BY <1>1, <1>2, <1>3, <1>4, <1>5 DEF PodRecord

LEMMA RemoveOtherInv ==
  ASSUME Inv, NEW n \in Names, RemoveOther(n)
  PROVE  Inv'
<1> DEFINE g == pods[n].gates
<1>1. n \in DOMAIN pods /\ g \in GateLists
  BY DEF RemoveOther, Inv, ClusterTypes, PodRecord
<1>2. PICK k \in DOMAIN g :
        /\ g[k] # "fluxqueue"
        /\ pods' = [pods EXCEPT ![n].gates = RemoveAt(g, k)]
        /\ shifted' = IF InHand(n) /\ wpc = "remove" /\ k < index
                      THEN shifted \cup {n} ELSE shifted
  BY Zenon DEF RemoveOther
<1> DEFINE h == RemoveAt(g, k)
<1>3. /\ h \in GateLists /\ Range(h) = Range(g) \ {g[k]}
      /\ \A j \in DOMAIN g : j < k => j \in DOMAIN h /\ h[j] = g[j]
  BY <1>1, <1>2, RemoveAtFacts
<1>4. k \in Nat /\ DOMAIN g \subseteq Nat
  BY <1>1, GateListFacts
<1>5. /\ DOMAIN pods' = DOMAIN pods
      /\ pods' \in [DOMAIN pods' -> PodRecord]
      /\ pods'[n].gates = h /\ pods'[n].node = pods[n].node
      /\ \A m \in DOMAIN pods \ {n} : pods'[m] = pods[m]
  BY <1>1, <1>2, <1>3, ChangeOfGates, Zenon
<1> HIDE DEF h
<1>6. \A m \in DOMAIN pods : Gated(m)' = Gated(m) /\ pods'[m].node = pods[m].node
  <2>1. ("fluxqueue" \in Range(h)) <=> ("fluxqueue" \in Range(g))
    BY <1>2, <1>3, Zenon
  <2>2. Gated(n)' = Gated(n)
    BY <1>5, <2>1 DEF Gated
  <2>3. \A m \in DOMAIN pods \ {n} : Gated(m)' = Gated(m)
    BY <1>5, Zenon DEF Gated
  <2> QED
    BY <1>5, <2>2, <2>3, Zenon
<1>7. /\ UNCHANGED <<ordered, template, terminating, wpc, items, at, index, replaced,
                     used, swapped, deletes, faults>>
      /\ shifted \subseteq shifted' /\ shifted' \subseteq shifted \cup {n}
  BY <1>2, Zenon DEF RemoveOther, work
<1>8. ClusterTypes'
  BY <1>1, <1>5, <1>7, Zenon DEF Inv, ClusterTypes
<1>9. \A m \in DOMAIN pods' : Stays(m)
  BY <1>5, <1>6, <1>7, Zenon DEF Stays
<1>10. UngatedIsPlaced'
  BY <1>5, <1>6, <1>7 DEF Inv, UngatedIsPlaced
<1>11. HandInv'
  <2>1. Pod' = Pod
    BY <1>7 DEF Pod
  <2>2. wpc \in {"get", "remove"} /\ Pod \in DOMAIN pods' \ swapped'
          => pods'[Pod].node # Unplaced
    BY <1>5, <1>6, <1>7, Zenon DEF Inv, HandInv
  <2>3. ASSUME wpc = "remove", Pod \in DOMAIN pods' \ shifted'
        PROVE  index \in DOMAIN pods'[Pod].gates /\ pods'[Pod].gates[index] = "fluxqueue"
    <3>1. index \in DOMAIN pods[Pod].gates /\ pods[Pod].gates[index] = "fluxqueue"
      BY <1>5, <1>7, <2>3, Zenon DEF Inv, HandInv
    <3>2. CASE Pod = n
      <4>1. index # k /\ ~ (k < index)
        BY <1>2, <2>3, <3>1, <3>2, Zenon DEF InHand
      <4>2. index < k
        BY <1>4, <3>1, <3>2, <4>1
      <4> QED
        BY <1>3, <1>5, <3>1, <3>2, <4>2, Zenon
    <3>3. CASE Pod # n
      BY <1>5, <2>3, <3>1, <3>3, Zenon
    <3> QED
      BY <3>2, <3>3
  <2>4. wpc = "remove" => index > 0
    BY DEF Inv, HandInv
  <2> QED
    BY <1>7, <2>1, <2>2, <2>3, <2>4, Zenon DEF HandInv
<1> QED
  BY <1>7, <1>8, <1>9, <1>10, <1>11, ClusterStep, Zenon

-----------------------------------------------------------------------------
(* The worker's steps.                                                      *)

LEMMA SamePods ==
  ASSUME Inv, UNCHANGED <<ordered, template, pods, terminating, used, swapped, deletes>>,
         shifted' \subseteq shifted, replaced' \subseteq replaced,
         faults' \in 0 .. MaxFaults
  PROVE  ClusterTypes' /\ UngatedIsPlaced'
<1>1. ClusterTypes'
  BY Zenon DEF Inv, ClusterTypes
<1>2. UngatedIsPlaced'
  BY Zenon DEF Inv, UngatedIsPlaced, Gated
<1> QED
  BY <1>1, <1>2

(* No history is lost when an attempt ends. *)
LEMMA RetryHistory ==
  ASSUME RetryLater
  PROVE  replaced' \subseteq replaced
  BY DEF RetryLater

(* The list has every pod once, with its gate as it is. *)
LEMMA ListedFacts ==
  ASSUME Inv, NEW list \in Listed
  PROVE  /\ list \in Seq(Item)
         /\ \A k \in 1 .. Len(list) : /\ list[k].name \in DOMAIN pods
                                       /\ list[k].gated = Gated(list[k].name)
         /\ \A i, j \in 1 .. Len(list) : list[i].name = list[j].name => i = j
<1>1. PICK names \in InOrder(DOMAIN pods) :
        list = [k \in DOMAIN names |->
                  [name |-> names[k], gated |-> Gated(names[k])]]
  BY DEF Listed
<1> DEFINE c == Cardinality(DOMAIN pods)
<1>2. c \in Nat
  BY FS_CardinalityType DEF Inv, ClusterTypes
<1>3. /\ names \in [1 .. c -> DOMAIN pods]
      /\ \A i, j \in 1 .. c : i < j => names[i] < names[j]
  BY <1>1 DEF InOrder
<1> HIDE DEF c
<1>4. DOMAIN pods \subseteq Nat /\ DOMAIN pods \subseteq Names
  BY UngateAssumption DEF Inv, ClusterTypes
<1>5. \A i, j \in 1 .. c : names[i] = names[j] => i = j
  <2>1. ASSUME NEW i \in 1 .. c, NEW j \in 1 .. c, names[i] = names[j]
        PROVE  ~ (i < j) /\ ~ (j < i)
    <3>1. names[i] \in Nat /\ names[j] \in Nat
      BY <1>3, <1>4
    <3> QED
      BY <3>1, <2>1, <1>3
  <2> QED
    BY <2>1, <1>2
<1>6. \A k \in 1 .. c : /\ list[k].name = names[k] /\ names[k] \in DOMAIN pods
                         /\ list[k].gated = Gated(names[k])
  BY <1>1, <1>3
<1>7. list \in Seq(Item) /\ Len(list) = c
  <2>1. \A k \in 1 .. c :
          [name |-> names[k], gated |-> Gated(names[k])] \in Item
    BY <1>3, <1>4 DEF Item, Gated
  <2>2. list \in [1 .. c -> Item]
    BY <1>1, <1>3, <2>1
  <2> QED
    BY <1>2, <2>2
<1> QED
  BY <1>5, <1>6, <1>7

LEMMA ListStepInv ==
  ASSUME Inv, List
  PROVE  Inv'
<1>1. CASE items' \in Listed /\ wpc' = "loop" /\ at' = 1
           /\ UNCHANGED <<index, replaced, faults>>
  <2>1. UNCHANGED <<ordered, template, pods, terminating, used, swapped, shifted, deletes>>
    BY DEF List, cluster
  <2>2. ClusterTypes' /\ UngatedIsPlaced'
    BY <1>1, <2>1, SamePods DEF Inv, ClusterTypes
  <2> DEFINE list == items'
  <2>3. list \in Seq(Item)
    BY <1>1, ListedFacts
  <2>4. \A k \in 1 .. Len(list) : list[k].name \in DOMAIN pods
    BY <1>1, ListedFacts
  <2>5. \A k \in 1 .. Len(list) : list[k].gated = Gated(list[k].name)
    BY <1>1, ListedFacts
  <2>6. \A i, j \in 1 .. Len(list) : list[i].name = list[j].name => i = j
    BY <1>1, ListedFacts
  <2>7. WorkTypes'
    BY <1>1, <2>3 DEF Inv, WorkTypes
  <2>8. ListInv'
    <3>1. \A k \in 1 .. Len(items') : items'[k].name \in used'
      BY <2>1, <2>4 DEF Inv, ClusterTypes
    <3>2. \A k \in 1 .. Len(items') : Gated(items[k].name)' = items'[k].gated
      BY <2>1, <2>5 DEF Gated
    <3>3. \A k \in 1 .. Len(list) : ~ (k < at')
      BY <1>1
    <3>4. \A k \in 1 .. Len(items') : AtPlace(k, items[k].name)'
      BY <3>2, <3>3, Zenon DEF AtPlace
    <3> QED
      BY <2>6, <3>1, <3>4, Zenon DEF ListInv
  <2>9. HandInv'
    BY <1>1 DEF HandInv
  <2> QED
    BY <2>2, <2>7, <2>8, <2>9 DEF Inv
<1>2. CASE Fault /\ RetryLater
  BY <1>2, FaultType, RetryHistory, SamePods, RetryStep, Zenon DEF List, cluster
<1> QED
  BY <1>1, <1>2 DEF List

LEMMA SkipInv ==
  ASSUME Inv, Skip
  PROVE  Inv'
<1>1. ClusterTypes' /\ UngatedIsPlaced'
  BY SamePods DEF Skip, Inv, ClusterTypes, cluster
<1>2. WorkTypes'
  BY DEF Inv, WorkTypes, Skip
<1>3. ListInv'
  <2>1. items' = items /\ at' = at + 1 /\ UNCHANGED cluster
    BY DEF Skip
  <2>2. ASSUME NEW k \in 1 .. Len(items), items[k].name \in DOMAIN pods
        PROVE  AtPlace(k, items[k].name)'
    <3>a. PICK n : n = items[k].name
      OBVIOUS
    <3>1. at \in Nat /\ ~ items[at].gated
      BY DEF Inv, WorkTypes, Skip
    <3>2. AtPlace(k, n)
      BY <2>2, <3>a DEF Inv, ListInv
    <3>3. Gated(n)' = Gated(n) /\ UNCHANGED <<replaced, shifted>>
      BY DEF Skip, Gated, cluster
    <3>4. k < at + 1 => k = at \/ k < at
      BY <3>1
    <3>5. k >= at + 1 => k >= at
      BY <3>1
    <3>6. k = at => k >= at
      BY <3>1
    <3>7. AtPlace(k, n)'
      BY <2>1, <3>1, <3>2, <3>3, <3>4, <3>5, <3>6, Zenon DEF AtPlace
    <3> QED
      BY <2>1, <3>a, <3>7
  <2>3. UNCHANGED <<pods, used>>
    BY <2>1 DEF cluster
  <2> QED
    BY <2>1, <2>2, <2>3 DEF Inv, ListInv
<1>4. HandInv'
  BY DEF Skip, HandInv
<1> QED
  BY <1>1, <1>2, <1>3, <1>4 DEF Inv

(* The label changes no gate and leaves no pod without a node. *)
LEMMA LabelFacts ==
  ASSUME Inv, at \in 1 .. Replicas, Label(at),
         UNCHANGED <<ordered, template, terminating, used, swapped, shifted, deletes>>,
         replaced' \subseteq replaced, faults' \in 0 .. MaxFaults
  PROVE  /\ ClusterTypes' /\ UngatedIsPlaced'
         /\ DOMAIN pods' = DOMAIN pods /\ pods'[Pod].node = at
         /\ \A m \in DOMAIN pods : pods'[m].gates = pods[m].gates
<1>1. Pod \in DOMAIN pods /\ pods \in [DOMAIN pods -> PodRecord]
  BY DEF Label, Inv, ClusterTypes
<1>2. pods[Pod] \in PodRecord /\ at \in 0 .. Replicas
  BY <1>1, UngateAssumption
<1>3. [pods[Pod] EXCEPT !.node = at] \in PodRecord
  BY <1>2 DEF PodRecord
<1>4. pods' = [pods EXCEPT ![Pod] = [pods[Pod] EXCEPT !.node = at]]
  BY DEF Label
<1>5. /\ DOMAIN pods' = DOMAIN pods /\ pods' \in [DOMAIN pods' -> PodRecord]
      /\ pods'[Pod] = [pods[Pod] EXCEPT !.node = at]
      /\ \A m \in DOMAIN pods \ {Pod} : pods'[m] = pods[m]
  BY <1>1, <1>3, <1>4
<1>6. pods'[Pod].node = at /\ pods'[Pod].gates = pods[Pod].gates
  BY <1>2, <1>5 DEF PodRecord
<1>7. \A m \in DOMAIN pods : pods'[m].gates = pods[m].gates
  BY <1>5, <1>6, Zenon
<1>8. ClusterTypes'
  BY <1>5 DEF Inv, ClusterTypes
<1>9. UngatedIsPlaced'
  <2>1. ASSUME NEW m \in DOMAIN pods', ~ Gated(m)'
        PROVE  pods'[m].node # Unplaced \/ m \in swapped'
    <3>1. CASE m = Pod
      BY <3>1, <1>6, UngateAssumption DEF Unplaced
    <3>2. CASE m # Pod
      BY <3>2, <2>1, <1>5 DEF Inv, UngatedIsPlaced, Gated
    <3> QED
      BY <3>1, <3>2
  <2> QED
    BY <2>1 DEF UngatedIsPlaced
<1> QED
  BY <1>5, <1>6, <1>7, <1>8, <1>9

LEMMA PatchInv ==
  ASSUME Inv, Patch
  PROVE  Inv'
<1>1. UNCHANGED <<ordered, template, terminating, used, swapped, shifted, deletes>>
  BY DEF Patch
<1>2. at \in Nat /\ at > 0 /\ at <= Len(items) /\ items[at].gated
  BY DEF Patch, Inv, WorkTypes
<1>3. CASE at <= Replicas /\ Label(at) /\ wpc' = "get"
           /\ UNCHANGED <<items, at, index, replaced, short, faults>>
  <2>1. at \in 1 .. Replicas /\ faults' \in 0 .. MaxFaults
    BY <1>2, <1>3, UngateAssumption DEF Inv, ClusterTypes
  <2>2. /\ ClusterTypes' /\ UngatedIsPlaced'
        /\ DOMAIN pods' = DOMAIN pods /\ pods'[Pod].node = at
        /\ \A m \in DOMAIN pods : pods'[m].gates = pods[m].gates
    BY <1>1, <1>3, <2>1, LabelFacts
  <2>3. WorkTypes'
    BY <1>2, <1>3, <2>1 DEF Inv, WorkTypes
  <2>4. \A n \in DOMAIN pods' : Gated(n)' = Gated(n)
    BY <2>2 DEF Gated
  <2>5. ListInv'
    <3>1. ASSUME NEW k \in 1 .. Len(items), items[k].name \in DOMAIN pods'
          PROVE  AtPlace(k, items[k].name)'
      <4>1. AtPlace(k, items[k].name)
        BY <2>2, <3>1 DEF Inv, ListInv
      <4> QED
        BY <1>1, <1>3, <2>4, <3>1, <4>1, Zenon DEF AtPlace
    <3> QED
      BY <1>1, <1>3, <3>1 DEF Inv, ListInv
  <2>6. HandInv'
    <3>1. Pod' = Pod
      BY <1>3 DEF Pod
    <3> QED
      BY <1>2, <1>3, <2>2, <3>1 DEF HandInv, Unplaced
  <2> QED
    BY <2>2, <2>3, <2>5, <2>6 DEF Inv
<1>4. CASE RetryLater /\ UNCHANGED <<pods, faults>>
  BY <1>1, <1>4, RetryHistory, SamePods, RetryStep, Zenon DEF Inv, ClusterTypes
<1>5. CASE at <= Replicas /\ Fault /\ RetryLater /\ (Label(at) \/ UNCHANGED pods)
  <2>1. at \in 1 .. Replicas /\ faults' \in 0 .. MaxFaults
    BY <1>2, <1>5, FaultType, UngateAssumption
  <2>2. CASE Label(at)
    BY <1>1, <1>5, <2>1, <2>2, RetryHistory, LabelFacts, RetryStep, Zenon
  <2>3. CASE UNCHANGED pods
    BY <1>1, <1>5, <2>1, <2>3, RetryHistory, SamePods, RetryStep, Zenon
  <2> QED
    BY <1>5, <2>2, <2>3
<1> QED
  BY <1>3, <1>4, <1>5 DEF Patch

LEMMA GetInv ==
  ASSUME Inv, Get
  PROVE  Inv'
<1>1. UNCHANGED <<ordered, template, pods, terminating, used, swapped, deletes>>
  BY DEF Get
<1>2. CASE /\ Pod \in DOMAIN pods /\ index' = gateIndex(pods[Pod].gates)
           /\ wpc' = "remove" /\ shifted' = shifted \ {Pod}
           /\ UNCHANGED <<items, at, replaced, short, faults>>
  <2>1. ClusterTypes' /\ UngatedIsPlaced'
    BY <1>1, <1>2, SamePods DEF Inv, ClusterTypes
  <2>2. pods[Pod].gates \in GateLists
    BY <1>2 DEF Inv, ClusterTypes, PodRecord
  <2>3. /\ index' \in Nat \ {0}
        /\ Gated(Pod) => /\ index' \in DOMAIN pods[Pod].gates
                         /\ pods[Pod].gates[index'] = "fluxqueue"
    BY <1>2, <2>2, gateIndexFound DEF Gated
  <2>4. at \in 1 .. Len(items) /\ items[at].gated /\ at \in 1 .. Replicas
    BY DEF Get, Inv, WorkTypes
  <2>5. WorkTypes'
    BY <1>2, <2>3, <2>4 DEF Inv, WorkTypes
  <2>6. at >= at
    BY <2>4
  <2>7. Gated(Pod)
    <3>1. AtPlace(at, Pod)
      BY <1>2, <2>4 DEF Inv, ListInv, Pod
    <3> QED
      BY <2>4, <2>6, <3>1, Zenon DEF AtPlace
  <2>8. ListInv'
    <3>1. ASSUME NEW k \in 1 .. Len(items), items[k].name \in DOMAIN pods
          PROVE  AtPlace(k, items[k].name)'
      <4>1. AtPlace(k, items[k].name)
        BY <3>1 DEF Inv, ListInv
      <4>2. items[k].name = Pod => ~ (k < at)
        BY <2>4 DEF Inv, ListInv, Pod
      <4> QED
        BY <1>1, <1>2, <4>1, <4>2, Zenon DEF AtPlace, Gated
    <3> QED
      BY <1>1, <1>2, <3>1 DEF Inv, ListInv
  <2>9. HandInv'
    <3>1. Pod' = Pod
      BY <1>2 DEF Pod
    <3>2. Pod \in DOMAIN pods \ swapped => pods[Pod].node # Unplaced
      BY DEF Get, Inv, HandInv
    <3>3. index' > 0
      BY <2>3
    <3> QED
      BY <1>1, <1>2, <2>3, <2>7, <3>1, <3>2, <3>3, Zenon DEF HandInv
  <2> QED
    BY <2>1, <2>5, <2>8, <2>9 DEF Inv
<1>3. CASE RetryLater /\ UNCHANGED <<shifted, faults>>
  BY <1>1, <1>3, RetryHistory, SamePods, RetryStep, Zenon DEF Inv, ClusterTypes
<1>4. CASE Fault /\ RetryLater /\ UNCHANGED shifted
  BY <1>1, <1>4, RetryHistory, FaultType, SamePods, RetryStep, Zenon
<1> QED
  BY <1>2, <1>3, <1>4 DEF Get

(* The removal by index takes the queue's gate from a pod that did not       *)
(* change in front of the index, and touches no other pod.                   *)
LEMMA RemoveIndexFacts ==
  ASSUME Inv, wpc = "remove", RemoveIndex,
         UNCHANGED <<ordered, template, terminating, used, swapped, shifted, deletes>>,
         replaced' \subseteq replaced, faults' \in 0 .. MaxFaults
  PROVE  /\ ClusterTypes' /\ UngatedIsPlaced'
         /\ Pod \in DOMAIN pods /\ DOMAIN pods' = DOMAIN pods
         /\ \A m \in DOMAIN pods \ {Pod} : pods'[m] = pods[m]
         /\ Pod \notin shifted =>
              Range(pods'[Pod].gates) = Range(pods[Pod].gates) \ {"fluxqueue"}
<1> DEFINE g == pods[Pod].gates
           h == RemoveAt(g, index)
<1>1. Pod \in DOMAIN pods /\ g \in GateLists
  BY DEF RemoveIndex, HasIndex, Inv, ClusterTypes, PodRecord
<1>2. index \in DOMAIN g
  BY <1>1, GateListFacts DEF RemoveIndex, HasIndex, Inv, WorkTypes, HandInv
<1>3. h \in GateLists /\ Range(h) = Range(g) \ {g[index]}
  BY <1>1, <1>2, RemoveAtFacts
<1>4. /\ Pod \notin shifted => g[index] = "fluxqueue"
      /\ Pod \notin swapped => pods[Pod].node # Unplaced
  BY <1>1 DEF Inv, HandInv
<1>5. pods' = [pods EXCEPT ![Pod].gates = h]
  BY DEF RemoveIndex
<1>6. /\ DOMAIN pods' = DOMAIN pods
      /\ pods' \in [DOMAIN pods' -> PodRecord]
      /\ pods'[Pod].gates = h /\ pods'[Pod].node = pods[Pod].node
      /\ \A m \in DOMAIN pods \ {Pod} : pods'[m] = pods[m]
  BY <1>1, <1>3, <1>5, ChangeOfGates, Zenon
<1>7. ClusterTypes'
  BY <1>6 DEF Inv, ClusterTypes
<1>8. UngatedIsPlaced'
  <2>1. ASSUME NEW m \in DOMAIN pods', ~ Gated(m)'
        PROVE  pods'[m].node # Unplaced \/ m \in swapped'
    <3>1. CASE m = Pod
      BY <3>1, <1>4, <1>6
    <3>2. CASE m # Pod
      BY <3>2, <2>1, <1>6 DEF Inv, UngatedIsPlaced, Gated
    <3> QED
      BY <3>1, <3>2
  <2> QED
    BY <2>1 DEF UngatedIsPlaced
<1> QED
  BY <1>1, <1>3, <1>4, <1>6, <1>7, <1>8

LEMMA RemoveGateInv ==
  ASSUME Inv, RemoveGate
  PROVE  Inv'
<1>1. UNCHANGED <<ordered, template, terminating, used, swapped, shifted, deletes>>
      /\ wpc = "remove"
  BY DEF RemoveGate
<1>2. at \in Nat /\ at \in 1 .. Len(items) /\ Len(items) \in Nat
  BY <1>1 DEF Inv, WorkTypes
<1>3. CASE RemoveIndex /\ wpc' = "loop" /\ at' = at + 1 /\ index' = 0
           /\ UNCHANGED <<items, replaced, short, faults>>
  <2>1. faults' \in 0 .. MaxFaults
    BY <1>3 DEF Inv, ClusterTypes
  <2>2. /\ ClusterTypes' /\ UngatedIsPlaced'
        /\ Pod \in DOMAIN pods /\ DOMAIN pods' = DOMAIN pods
        /\ \A m \in DOMAIN pods \ {Pod} : pods'[m] = pods[m]
        /\ Pod \notin shifted =>
             Range(pods'[Pod].gates) = Range(pods[Pod].gates) \ {"fluxqueue"}
    BY <1>1, <1>3, <2>1, RemoveIndexFacts
  <2>3. WorkTypes'
    BY <1>2, <1>3 DEF Inv, WorkTypes
  <2>4. ASSUME NEW k \in 1 .. Len(items), items[k].name \in DOMAIN pods'
        PROVE  AtPlace(k, items[k].name)'
    <3>a. PICK n : n = items[k].name
      OBVIOUS
    <3>1. AtPlace(k, n) /\ items'[k] = items[k]
      BY <1>3, <2>2, <2>4, <3>a DEF Inv, ListInv
    <3>2. CASE k = at
      <4>1. n \notin shifted => ~ Gated(n)'
        BY <2>2, <3>a, <3>2 DEF Gated, Pod
      <4>2. ~ (k >= at + 1)
        BY <1>2, <3>2
      <4>3. AtPlace(k, n)'
        BY <1>1, <1>3, <4>1, <4>2, Zenon DEF AtPlace
      <4> QED
        BY <1>3, <3>a, <4>3
    <3>3. CASE k # at
      <4>1. n # Pod
        BY <1>2, <3>a, <3>3 DEF Inv, ListInv, Pod
      <4>2. Gated(n)' = Gated(n)
        BY <2>2, <2>4, <3>a, <4>1 DEF Gated
      <4>3. (k < at + 1 => k < at) /\ (k >= at + 1 => k >= at)
        BY <1>2, <3>3
      <4>4. AtPlace(k, n)'
        BY <1>1, <1>3, <3>1, <4>2, <4>3, Zenon DEF AtPlace
      <4> QED
        BY <1>3, <3>a, <4>4
    <3> QED
      BY <3>2, <3>3
  <2>5. ListInv'
    BY <1>1, <1>3, <2>4 DEF Inv, ListInv
  <2>6. HandInv'
    BY <1>3 DEF HandInv
  <2> QED
    BY <2>2, <2>3, <2>5, <2>6 DEF Inv
<1>4. CASE RetryLater /\ UNCHANGED <<pods, faults>>
  BY <1>1, <1>4, RetryHistory, SamePods, RetryStep, Zenon DEF Inv, ClusterTypes
<1>5. CASE Fault /\ RetryLater /\ (RemoveIndex \/ UNCHANGED pods)
  <2>1. faults' \in 0 .. MaxFaults
    BY <1>5, FaultType
  <2>2. CASE RemoveIndex
    BY <1>1, <1>5, <2>1, <2>2, RetryHistory, RemoveIndexFacts, RetryStep, Zenon
  <2>3. CASE UNCHANGED pods
    BY <1>1, <1>5, <2>1, <2>3, RetryHistory, SamePods, RetryStep, Zenon
  <2> QED
    BY <1>5, <2>2, <2>3
<1> QED
  BY <1>3, <1>4, <1>5 DEF RemoveGate

LEMMA ReturnInv ==
  ASSUME Inv, Return
  PROVE  Inv'
<1>1. ClusterTypes' /\ UngatedIsPlaced'
  BY RetryHistory, SamePods DEF Return, Inv, ClusterTypes, cluster
<1>2. CASE RetryLater
  BY <1>1, <1>2, RetryStep
<1>3. CASE /\ Len(items) >= Replicas /\ wpc' = "done"
           /\ UNCHANGED <<items, at, index, replaced, short>>
  <2>1. WorkTypes'
    BY <1>3 DEF Return, Inv, WorkTypes
  <2>2. ListInv'
    <3>1. UNCHANGED <<pods, shifted, used>>
      BY DEF Return, cluster
    <3> QED
      BY <1>3, <3>1, Zenon DEF Inv, ListInv, AtPlace, Gated
  <2>3. HandInv'
    BY <1>3 DEF HandInv
  <2> QED
    BY <1>1, <2>1, <2>2, <2>3 DEF Inv
<1> QED
  BY <1>2, <1>3 DEF Return

-----------------------------------------------------------------------------
(* The theorems.                                                            *)

LEMMA InitHolds == Init => Inv
<1> SUFFICES ASSUME Init PROVE Inv
  OBVIOUS
<1>1. pods = << >> /\ DOMAIN pods = {}
  BY DEF Init
<1>2. ClusterTypes
  <2>1. pods \in [DOMAIN pods -> PodRecord]
    BY <1>1
  <2> QED
    BY <1>1, <2>1, FS_EmptySet, UngateAssumption DEF Init, ClusterTypes
<1>3. WorkTypes
  BY DEF Init, WorkTypes
<1> QED
  BY <1>1, <1>2, <1>3 DEF Init, Inv, ListInv, HandInv, UngatedIsPlaced

LEMMA StepHolds ==
  ASSUME Inv, [Next]_vars
  PROVE  Inv'
<1>1. CASE Work
  BY <1>1, ListStepInv, SkipInv, PatchInv, GetInv, RemoveGateInv, ReturnInv
     DEF Work
<1>2. CASE Create
  BY <1>2, CreateInv DEF Create
<1>3. CASE \E n \in Names : DeletePod(n) \/ Terminated(n) \/ RemoveOther(n)
  BY <1>3, DeleteInv, TerminatedInv, RemoveOtherInv
<1>4. CASE UNCHANGED vars
  BY <1>4, Zenon DEF vars, Inv, ClusterTypes, WorkTypes, ListInv, HandInv,
              UngatedIsPlaced, AtPlace, Gated, Pod
<1> QED
  BY <1>1, <1>2, <1>3, <1>4 DEF Next

(* The variables keep their types: in particular the worker never labels a   *)
(* pod with a node beyond the last one.                                      *)
THEOREM UngateTypeCorrect == Spec => []TypeOK
<1>1. Init => Inv
  BY InitHolds
<1>2. Inv /\ [Next]_vars => Inv'
  BY StepHolds
<1>3. Inv => TypeOK
  <2>1. ASSUME Inv, NEW n \in DOMAIN pods
        PROVE  /\ Range(pods[n].gates) \subseteq Gates
               /\ pods[n].node \in 0 .. Replicas
    <3>1. pods[n] \in PodRecord
      BY <2>1 DEF Inv, ClusterTypes
    <3> QED
      BY <3>1, GateListFacts DEF PodRecord
  <2> QED
    BY <2>1, Zenon DEF Inv, ClusterTypes, WorkTypes, TypeOK
<1> QED
  BY <1>1, <1>2, <1>3, PTL DEF Spec

(* removeGate comes after the label: a pod without the queue's gate has a    *)
(* node, whatever call of the worker fails and whatever happens to its pods. *)
THEOREM UngatedPodsArePlaced == Spec => []UngatedIsPlaced
<1>1. Init => Inv
  BY InitHolds
<1>2. Inv /\ [Next]_vars => Inv'
  BY StepHolds
<1>3. Inv => UngatedIsPlaced
  BY DEF Inv
<1> QED
  BY <1>1, <1>2, <1>3, PTL DEF Spec

(* An ungate job that returns without an error has met a pod for every node  *)
(* of the allocation and ungated all it met, whatever other gates they have: *)
(* all but those that were created anew after the list, and those whose      *)
(* gates changed between the two calls of removeGate.                        *)
THEOREM DoneJobsAreComplete == Spec => []DoneIsComplete
<1>1. Init => Inv
  BY InitHolds
<1>2. Inv /\ [Next]_vars => Inv'
  BY StepHolds
<1>3. Inv => DoneIsComplete
  <2> SUFFICES ASSUME Inv, wpc = "done"
               PROVE  /\ Len(items) >= Replicas
                      /\ \A k \in DOMAIN items :
                           items[k].name \in DOMAIN pods /\ Gated(items[k].name)
                             => items[k].name \in replaced \cup shifted
    BY DEF DoneIsComplete
  <2>1. /\ Len(items) >= Replicas /\ at = Len(items) + 1
        /\ DOMAIN items = 1 .. Len(items) /\ Len(items) \in Nat
    BY DEF Inv, WorkTypes
  <2>2. \A k \in 1 .. Len(items) : k < at
    BY <2>1
  <2> QED
    BY <2>1, <2>2, Zenon DEF Inv, ListInv, AtPlace
<1> QED
  BY <1>1, <1>2, <1>3, PTL DEF Spec

(* A step of the worker leaves a pod the gates of others. *)
LEMMA OwnGateStep ==
  ASSUME Inv, [Next]_vars, wpc' # wpc,
         NEW n \in (DOMAIN pods \cap DOMAIN pods') \ shifted
  PROVE  Range(pods'[n].gates) \ {"fluxqueue"} = Range(pods[n].gates) \ {"fluxqueue"}
<1>1. CASE UNCHANGED pods
  BY <1>1
<1>2. CASE Patch /\ Label(at)
  <2>1. pods'[n].gates = pods[n].gates
    BY <1>2 DEF Label, Inv, ClusterTypes, PodRecord
  <2> QED
    BY <2>1
<1>3. CASE RemoveGate /\ RemoveIndex
  <2>1. faults' \in 0 .. MaxFaults
    BY <1>3, FaultType DEF RemoveGate, Inv, ClusterTypes
  <2>2. /\ \A m \in DOMAIN pods \ {Pod} : pods'[m] = pods[m]
        /\ Pod \notin shifted =>
             Range(pods'[Pod].gates) = Range(pods[Pod].gates) \ {"fluxqueue"}
    <3>1. replaced' \subseteq replaced
      BY <1>3, RetryHistory DEF RemoveGate
    <3> QED
      BY <1>3, <2>1, <3>1, RemoveIndexFacts DEF RemoveGate
  <2>3. CASE n = Pod
    BY <2>2, <2>3
  <2>4. CASE n # Pod
    BY <2>2, <2>4
  <2> QED
    BY <2>3, <2>4
<1>4. Work
  BY Zenon DEF Next, vars, Create, CreatePod, DeletePod, Terminated, RemoveOther, work
<1>5. List \/ Skip \/ Get \/ Return => UNCHANGED pods
  BY DEF List, Skip, Get, Return, cluster
<1>6. Patch => Label(at) \/ UNCHANGED pods
  BY DEF Patch
<1>7. RemoveGate => RemoveIndex \/ UNCHANGED pods
  BY DEF RemoveGate
<1> QED
  BY <1>1, <1>2, <1>3, <1>4, <1>5, <1>6, <1>7 DEF Work

(* However many gates a pod has: the index that removeGate reads in one call *)
(* is that of the queue's gate in the next, unless a gate in front of it was *)
(* taken away, or the pod replaced, in between.                              *)
THEOREM OnlyOwnGateIsRemoved == Spec => OwnGateOnly
<1>1. Init => Inv
  BY InitHolds
<1>2. Inv /\ [Next]_vars => Inv'
  BY StepHolds
<1>3. Inv /\ [Next]_vars =>
        [(wpc' # wpc) =>
           \A n \in (DOMAIN pods \cap DOMAIN pods') \ shifted :
             Range(pods'[n].gates) \ {"fluxqueue"}
               = Range(pods[n].gates) \ {"fluxqueue"}]_vars
  BY OwnGateStep
<1> QED
  BY <1>1, <1>2, <1>3, PTL DEF Spec, OwnGateOnly

-----------------------------------------------------------------------------
(* Nodes of their own.  As long as places in the list do not shift, the node *)
(* of a pod is its place among all pods there are, at whatever time it got   *)
(* its label: later pods of a StatefulSet come after it, and a ReplicaSet    *)
(* that had all pods at the first list gets no more.                         *)

Quiet == deletes = 0 /\ (ordered \/ ~ short)

UpTo(n) == {m \in DOMAIN pods : m <= n}

Place(n) == Cardinality(UpTo(n))

Untouched == items = << >> /\ \A n \in DOMAIN pods : pods[n].node = Unplaced

PlaceInv ==
  /\ terminating = {}
  /\ \A n \in DOMAIN pods : pods[n].node \in {Unplaced, Place(n)}
  /\ \A k \in 1 .. Len(items) :
       items[k].name \in DOMAIN pods /\ k = Place(items[k].name)
  /\ ordered => \A n \in DOMAIN pods : 1 .. n \subseteq DOMAIN pods
  /\ ordered \/ Untouched \/ Cardinality(DOMAIN pods) >= Replicas

NodesInv == Quiet => PlaceInv

(* Of two pods the later one has the greater place. *)
LEMMA PlacesDiffer ==
  ASSUME Inv, NEW m \in DOMAIN pods, NEW n \in DOMAIN pods, m # n
  PROVE  Place(m) # Place(n)
<1>1. DOMAIN pods \subseteq Nat /\ IsFiniteSet(DOMAIN pods)
  BY UngateAssumption DEF Inv, ClusterTypes
<1>2. ASSUME NEW a \in DOMAIN pods, NEW b \in DOMAIN pods, a < b
      PROVE  Place(a) # Place(b)
  <2>1. a \in Nat /\ b \in Nat
    BY <1>1
  <2>2. UpTo(a) \in SUBSET UpTo(b) /\ b \in UpTo(b) /\ b \notin UpTo(a)
    BY <1>1, <1>2, <2>1 DEF UpTo
  <2>3. IsFiniteSet(UpTo(b))
    <3>1. UpTo(b) \in SUBSET DOMAIN pods
      BY DEF UpTo
    <3> QED
      BY <1>1, <3>1, FS_Subset
  <2>4. Cardinality(UpTo(b)) = Cardinality(UpTo(a)) => UpTo(b) = UpTo(a)
    BY <2>2, <2>3, FS_Subset
  <2> QED
    BY <2>2, <2>4 DEF Place
<1>3. m < n \/ n < m
  BY <1>1
<1> QED
  BY <1>2, <1>3

(* The order of a list is that of the places: an increasing list of all      *)
(* elements of a set has k of them up to its k-th.                           *)
LEMMA OrderIsPlace ==
  ASSUME NEW S, S \subseteq Nat, IsFiniteSet(S), NEW list \in InOrder(S),
         NEW k \in DOMAIN list
  PROVE  Cardinality({m \in S : m <= list[k]}) = k
<1> DEFINE c == Cardinality(S)
           head == {m \in S : m <= list[k]}
           f == [j \in 1 .. k |-> list[j]]
<1>1. c \in Nat
  BY FS_CardinalityType
<1>2. /\ list \in [1 .. c -> S]
      /\ \A i, j \in 1 .. c : i < j => list[i] < list[j]
  BY DEF InOrder
<1> HIDE DEF c
<1>3. \A j \in 1 .. c : list[j] \in Nat
  BY <1>2, Zenon
<1>4. \A i, j \in 1 .. c : list[i] = list[j] => i = j
  <2>1. ASSUME NEW i \in 1 .. c, NEW j \in 1 .. c, list[i] = list[j]
        PROVE  ~ (i < j) /\ ~ (j < i)
    BY <1>2, <1>3, <2>1
  <2> QED
    BY <2>1, <1>1
<1>5. list \in Injection(1 .. c, S)
  BY <1>2, <1>4 DEF Injection, IsInjective
<1>6. Cardinality(1 .. c) = c
  BY <1>1, FS_Interval
<1>7. list \in Surjection(1 .. c, S)
  BY <1>5, <1>6, FS_Injection DEF c
<1>8. \A m \in S : \E j \in 1 .. c : list[j] = m
  BY <1>7 DEF Surjection
<1>9. k \in 1 .. c
  BY <1>2
<1>10. \A j \in 1 .. c : list[j] <= list[k] => j <= k
  BY <1>1, <1>2, <1>3, <1>9
<1>11. \A j \in 1 .. k : j \in 1 .. c /\ list[j] <= list[k]
  <2>1. ASSUME NEW j \in 1 .. k
        PROVE  j \in 1 .. c /\ list[j] <= list[k]
    <3>1. j \in 1 .. c
      BY <1>1, <1>9
    <3>2. CASE j = k
      BY <1>3, <3>1, <3>2
    <3>3. CASE j < k
      BY <1>2, <1>3, <1>9, <3>1, <3>3
    <3> QED
      BY <3>1, <3>2, <3>3, <1>9
  <2> QED
    BY <2>1
<1>12. f \in [1 .. k -> head]
  BY <1>2, <1>11
<1>13. f \in Bijection(1 .. k, head)
  <2>1. f \in Injection(1 .. k, head)
    BY <1>4, <1>11, <1>12 DEF Injection, IsInjective
  <2>2. \A m \in head : \E j \in 1 .. k : f[j] = m
    <3>1. ASSUME NEW m \in head
          PROVE  \E j \in 1 .. k : f[j] = m
      <4>1. PICK j \in 1 .. c : list[j] = m
        BY <1>8
      <4>2. j \in 1 .. k
        BY <1>9, <1>10, <4>1
      <4> QED
        BY <4>1, <4>2
    <3> QED
      BY <3>1
  <2>3. f \in Surjection(1 .. k, head)
    BY <1>12, <2>2 DEF Surjection
  <2> QED
    BY <2>1, <2>3 DEF Bijection
<1>14. IsFiniteSet(1 .. k) /\ Cardinality(1 .. k) = k
  BY <1>9, FS_Interval
<1>15. ExistsBijection(1 .. k, head)
  BY <1>13, Zenon DEF ExistsBijection
<1> HIDE DEF head
<1> QED
  BY <1>14, <1>15, FS_Bijection DEF head

(* What leaves the pods and their places alone, a label apart that says the  *)
(* place.                                                                    *)
LEMMA PlacesKept ==
  ASSUME Inv, NodesInv, Quiet' => Quiet,
         DOMAIN pods' = DOMAIN pods,
         UNCHANGED <<terminating, ordered>>,
         \A n \in DOMAIN pods :
           \/ pods'[n].node = pods[n].node
           \/ items # << >> /\ (Quiet => pods'[n].node = Place(n)),
         items' = items \/ items' = << >>
  PROVE  NodesInv'
<1> SUFFICES ASSUME Quiet' PROVE PlaceInv'
  BY DEF NodesInv
<1>1. PlaceInv /\ Quiet
  BY DEF NodesInv
<1>2. \A n : Place(n)' = Place(n)
  BY DEF Place, UpTo
<1>3. \A n \in DOMAIN pods' : pods'[n].node \in {Unplaced, Place(n)'}
  BY <1>1, <1>2 DEF PlaceInv
<1>4. \A k \in 1 .. Len(items') :
        items'[k].name \in DOMAIN pods' /\ k = Place(items[k].name)'
  <2>1. CASE items' = items
    BY <1>1, <1>2, <2>1 DEF PlaceInv
  <2>2. CASE items' = << >>
    BY <2>2
  <2> QED
    BY <2>1, <2>2
<1>5. ordered' => \A n \in DOMAIN pods' : 1 .. n \subseteq DOMAIN pods'
  BY <1>1 DEF PlaceInv
<1>6. ordered' \/ Untouched' \/ Cardinality(DOMAIN pods') >= Replicas
  BY <1>1 DEF PlaceInv, Untouched
<1>7. terminating' = {}
  BY <1>1 DEF PlaceInv
<1> QED
  BY <1>3, <1>4, <1>5, <1>6, <1>7 DEF PlaceInv

(* A pod that is created comes after those that are there, if the set is a   *)
(* StatefulSet, and else before anything was done.                           *)
LEMMA CreateKeepsPlaces ==
  ASSUME Inv, NodesInv, NEW n \in Names, CreatePod(n)
  PROVE  NodesInv'
<1> SUFFICES ASSUME Quiet' PROVE PlaceInv'
  BY DEF NodesInv
<1>1. UNCHANGED <<ordered, items, short, terminating, deletes>>
  BY DEF CreatePod, work
<1>2. Quiet /\ PlaceInv
  BY <1>1 DEF Quiet, NodesInv
<1>3. /\ n \notin DOMAIN pods
      /\ DOMAIN pods' = DOMAIN pods \cup {n}
      /\ pods'[n].node = Unplaced
      /\ \A m \in DOMAIN pods : pods'[m] = pods[m]
  BY DEF CreatePod, MayCreate
<1>4. /\ DOMAIN pods \subseteq Nat \ {0} /\ n \in Nat \ {0}
      /\ IsFiniteSet(DOMAIN pods)
  BY UngateAssumption DEF Inv, ClusterTypes
<1>5. terminating' = {}
  BY <1>1, <1>2 DEF PlaceInv
<1>6. CASE ordered
  <2>1. 1 .. n - 1 \subseteq DOMAIN pods
    BY <1>6 DEF CreatePod, MayCreate, Active
  <2>2. \A m \in DOMAIN pods : m < n
    <3>1. ASSUME NEW m \in DOMAIN pods PROVE m < n
      <4>1. 1 .. m \subseteq DOMAIN pods
        BY <1>2, <1>6 DEF PlaceInv
      <4>2. n \notin 1 .. m
        BY <1>3, <4>1
      <4> QED
        BY <1>4, <4>2
    <3> QED
      BY <3>1
  <2>3. \A m \in DOMAIN pods : Place(m)' = Place(m)
    <3>1. ASSUME NEW m \in DOMAIN pods PROVE UpTo(m)' = UpTo(m)
      <4>1. ~ (n <= m)
        BY <1>4, <2>2
      <4> QED
        BY <1>3, <4>1 DEF UpTo
    <3> QED
      BY <3>1 DEF Place
  <2>4. \A m \in DOMAIN pods' : pods'[m].node \in {Unplaced, Place(m)'}
    BY <1>2, <1>3, <2>3 DEF PlaceInv
  <2>5. \A k \in 1 .. Len(items') :
          items'[k].name \in DOMAIN pods' /\ k = Place(items[k].name)'
    BY <1>1, <1>2, <1>3, <2>3 DEF PlaceInv
  <2>6. \A m \in DOMAIN pods' : 1 .. m \subseteq DOMAIN pods'
    <3>1. ASSUME NEW m \in DOMAIN pods' PROVE 1 .. m \subseteq DOMAIN pods'
      <4>1. CASE m = n
        BY <1>3, <1>4, <2>1, <4>1
      <4>2. CASE m \in DOMAIN pods
        BY <1>2, <1>3, <1>6, <4>2 DEF PlaceInv
      <4> QED
        BY <1>3, <4>1, <4>2
    <3> QED
      BY <3>1
  <2> QED
    BY <1>1, <1>5, <1>6, <2>4, <2>5, <2>6 DEF PlaceInv
<1>7. CASE ~ ordered
  <2>1. Cardinality(DOMAIN pods) < Replicas
    <3>1. Active = DOMAIN pods
      BY <1>2 DEF PlaceInv, Active
    <3> QED
      BY <1>7, <3>1 DEF CreatePod, MayCreate
  <2>2. Cardinality(DOMAIN pods) \in Nat
    BY <1>4, FS_CardinalityType
  <2>3. Untouched
    BY <1>2, <1>7, <2>1, <2>2, UngateAssumption DEF PlaceInv
  <2>4. Untouched'
    BY <1>1, <1>3, <2>3 DEF Untouched
  <2> QED
    BY <1>1, <1>5, <1>7, <2>4 DEF PlaceInv, Untouched
<1> QED
  BY <1>6, <1>7

(* A list has every pod at its place. *)
LEMMA ListedPlaces ==
  ASSUME Inv, NEW list \in Listed
  PROVE  /\ Len(list) = Cardinality(DOMAIN pods)
         /\ \A k \in 1 .. Len(list) :
              list[k].name \in DOMAIN pods /\ k = Place(list[k].name)
<1>1. PICK names \in InOrder(DOMAIN pods) :
        list = [k \in DOMAIN names |->
                  [name |-> names[k], gated |-> Gated(names[k])]]
  BY DEF Listed
<1>2. DOMAIN pods \subseteq Nat /\ IsFiniteSet(DOMAIN pods)
  BY UngateAssumption DEF Inv, ClusterTypes
<1> DEFINE c == Cardinality(DOMAIN pods)
<1>3. c \in Nat
  BY <1>2, FS_CardinalityType
<1>4. names \in [1 .. c -> DOMAIN pods]
  BY DEF InOrder
<1> HIDE DEF c
<1>5. \A k \in 1 .. c : k = Place(names[k])
  <2>1. ASSUME NEW k \in 1 .. c PROVE k = Place(names[k])
    <3>1. k \in DOMAIN names
      BY <1>4
    <3>2. Cardinality({m \in DOMAIN pods : m <= names[k]}) = k
      BY <1>2, <3>1, OrderIsPlace
    <3> QED
      BY <3>2, Zenon DEF Place, UpTo
  <2> QED
    BY <2>1
<1>6. list \in Seq(Item)
  BY ListedFacts
<1>7. DOMAIN list = 1 .. c
  BY <1>1, <1>4
<1>8. Len(list) = c
  BY <1>3, <1>6, <1>7
<1>9. \A k \in 1 .. c : list[k].name = names[k]
  BY <1>1, <1>4
<1> QED
  BY <1>4, <1>5, <1>8, <1>9 DEF c

LEMMA ListKeepsPlaces ==
  ASSUME Inv, NodesInv, List
  PROVE  NodesInv'
<1>1. UNCHANGED <<ordered, pods, terminating, deletes>>
  BY DEF List, cluster
<1>2. CASE items' \in Listed /\ short' = (short \/ Len(items') < Replicas)
  <2> SUFFICES ASSUME Quiet' PROVE PlaceInv'
    BY DEF NodesInv
  <2>1. Quiet
    BY <1>1, <1>2, Zenon DEF Quiet
  <2>2. PlaceInv
    BY <2>1 DEF NodesInv
  <2> DEFINE list == items'
  <2>3. /\ Len(list) = Cardinality(DOMAIN pods)
        /\ \A k \in 1 .. Len(list) :
             list[k].name \in DOMAIN pods /\ k = Place(list[k].name)
    BY <1>2, ListedPlaces
  <2>4. \A n : Place(n)' = Place(n)
    BY <1>1 DEF Place, UpTo
  <2>5. \A k \in 1 .. Len(items') :
          items'[k].name \in DOMAIN pods' /\ k = Place(items[k].name)'
    BY <1>1, <2>3, <2>4
  <2>6. ordered' \/ Cardinality(DOMAIN pods') >= Replicas
    <3>1. CASE ordered
      BY <1>1, <3>1
    <3>2. CASE ~ ordered
      <4>1. ~ (Len(items') < Replicas)
        BY <1>1, <1>2, <3>2, Zenon DEF Quiet
      <4>2. Cardinality(DOMAIN pods) \in Nat
        BY FS_CardinalityType DEF Inv, ClusterTypes
      <4> QED
        BY <1>1, <2>3, <4>1, <4>2, UngateAssumption
    <3> QED
      BY <3>1, <3>2
  <2>7. \A n \in DOMAIN pods' : pods'[n].node \in {Unplaced, Place(n)'}
    BY <1>1, <2>2, <2>4 DEF PlaceInv
  <2> QED
    BY <1>1, <2>2, <2>5, <2>6, <2>7 DEF PlaceInv
<1>3. CASE RetryLater
  BY <1>1, <1>3, PlacesKept DEF RetryLater, Quiet
<1> QED
  BY <1>2, <1>3 DEF List

(* The label is the place in the list. *)
LEMMA LabelKeepsPlaces ==
  ASSUME Inv, NodesInv, at \in 1 .. Replicas, at <= Len(items), Label(at),
         UNCHANGED <<ordered, short, terminating, deletes>>,
         items' = items \/ items' = << >>
  PROVE  NodesInv'
<1>1. Quiet' => Quiet
  BY DEF Quiet
<1>2. items # << >>
  BY DEF Inv, WorkTypes
<1>3. Pod \in DOMAIN pods /\ pods \in [DOMAIN pods -> PodRecord]
  BY DEF Label, Inv, ClusterTypes
<1>4. /\ DOMAIN pods' = DOMAIN pods /\ pods'[Pod].node = at
      /\ \A n \in DOMAIN pods \ {Pod} : pods'[n] = pods[n]
  BY <1>3 DEF Label, PodRecord
<1>5. Quiet => at = Place(Pod)
  BY DEF NodesInv, PlaceInv, Pod
<1>6. \A n \in DOMAIN pods :
        \/ pods'[n].node = pods[n].node
        \/ items # << >> /\ (Quiet => pods'[n].node = Place(n))
  BY <1>2, <1>4, <1>5
<1> QED
  BY <1>1, <1>4, <1>6, PlacesKept

LEMMA PatchKeepsPlaces ==
  ASSUME Inv, NodesInv, Patch
  PROVE  NodesInv'
<1>1. UNCHANGED <<ordered, terminating, deletes>>
  BY DEF Patch
<1>2. at \in Nat /\ at > 0 /\ at <= Len(items) /\ Replicas \in Nat
  BY UngateAssumption DEF Patch, Inv, WorkTypes
<1>3. short' = short /\ (items' = items \/ items' = << >>)
  BY DEF Patch, RetryLater
<1>4. CASE at <= Replicas /\ Label(at)
  BY <1>1, <1>2, <1>3, <1>4, LabelKeepsPlaces
<1>5. CASE UNCHANGED pods
  BY <1>1, <1>3, <1>5, PlacesKept DEF Quiet
<1> QED
  BY <1>4, <1>5 DEF Patch

(* A change of gates is no change of nodes. *)
LEMMA GatesKeepPlaces ==
  ASSUME Inv, NodesInv, NEW n \in DOMAIN pods, NEW g,
         pods' = [pods EXCEPT ![n].gates = g],
         UNCHANGED <<ordered, short, terminating, deletes>>,
         items' = items \/ items' = << >>
  PROVE  NodesInv'
<1>1. pods \in [DOMAIN pods -> PodRecord]
  BY DEF Inv, ClusterTypes
<1>2. DOMAIN pods' = DOMAIN pods /\ \A m \in DOMAIN pods : pods'[m].node = pods[m].node
  BY <1>1 DEF PodRecord
<1>3. Quiet' => Quiet
  BY DEF Quiet
<1> QED
  BY <1>2, <1>3, PlacesKept

LEMMA WorkKeepsPlaces ==
  ASSUME Inv, NodesInv, Skip \/ Get \/ RemoveGate \/ Return
  PROVE  NodesInv'
<1>1. /\ UNCHANGED <<ordered, short, terminating, deletes>>
      /\ items' = items \/ items' = << >>
  BY DEF Skip, Get, RemoveGate, Return, RetryLater, cluster
<1>2. CASE UNCHANGED pods
  BY <1>1, <1>2, PlacesKept DEF Quiet
<1>3. CASE RemoveIndex
  BY <1>1, <1>3, GatesKeepPlaces, Zenon DEF RemoveIndex, HasIndex
<1>4. UNCHANGED pods \/ RemoveIndex
  BY DEF Skip, Get, RemoveGate, Return, cluster
<1> QED
  BY <1>2, <1>3, <1>4

LEMMA StepKeepsPlaces ==
  ASSUME Inv, NodesInv, [Next]_vars
  PROVE  NodesInv'
<1>1. CASE Work
  BY <1>1, ListKeepsPlaces, PatchKeepsPlaces, WorkKeepsPlaces DEF Work
<1>2. CASE Create
  BY <1>2, CreateKeepsPlaces DEF Create
<1>3. ASSUME NEW n \in Names, DeletePod(n) PROVE NodesInv'
  <2>1. deletes' # 0
    BY <1>3 DEF DeletePod, Inv, ClusterTypes
  <2> QED
    BY <2>1 DEF NodesInv, Quiet
<1>4. ASSUME NEW n \in Names, Terminated(n) PROVE NodesInv'
  <2>1. Quiet' => Quiet
    BY <1>4 DEF Terminated, Quiet, work
  <2>2. ~ Quiet
    BY <1>4, Zenon DEF Terminated, NodesInv, PlaceInv
  <2> QED
    BY <2>1, <2>2 DEF NodesInv
<1>5. ASSUME NEW n \in Names, RemoveOther(n) PROVE NodesInv'
  BY <1>5, GatesKeepPlaces, Zenon DEF RemoveOther, work
<1>6. CASE UNCHANGED vars
  BY <1>6, PlacesKept DEF vars, Quiet
<1> QED
  BY <1>1, <1>2, <1>3, <1>4, <1>5, <1>6 DEF Next

(* Two pods of a set are never labelled with the same node, unless a pod was *)
(* deleted or a ReplicaSet's pods came after the first list: with the place  *)
(* in the list as the index of the node, that is all that can shift places.  *)
THEOREM NodesAreNotShared == Spec => []NodesNotShared
<1>1. Init => Inv /\ NodesInv
  <2>1. Init => Inv
    BY InitHolds
  <2>2. Init => NodesInv
    BY DEF Init, NodesInv, PlaceInv, Untouched
  <2> QED
    BY <2>1, <2>2
<1>2. Inv /\ NodesInv /\ [Next]_vars => (Inv /\ NodesInv)'
  BY StepHolds, StepKeepsPlaces
<1>3. Inv /\ NodesInv => NodesNotShared
  <2> SUFFICES ASSUME Inv, NodesInv, Quiet,
                      NEW m \in DOMAIN pods, NEW n \in DOMAIN pods,
                      m # n, pods[m].node # Unplaced
               PROVE  pods[m].node # pods[n].node
    BY DEF NodesNotShared, Quiet
  <2>1. /\ pods[m].node = Place(m)
        /\ pods[n].node \in {Unplaced, Place(n)}
    BY DEF NodesInv, PlaceInv
  <2>2. Place(m) # Place(n)
    BY PlacesDiffer
  <2> QED
    BY <2>1, <2>2
<1> QED
  BY <1>1, <1>2, <1>3, PTL DEF Spec
=============================================================================
