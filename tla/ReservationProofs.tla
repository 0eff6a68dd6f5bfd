-------------------------- MODULE ReservationProofs --------------------------
(***************************************************************************)
(* The proof that every row of the reservations table is a reservation of  *)
(* Fluxion, and that the table misses at most one for each failed call.    *)
(*                                                                         *)
(* Every step adds no id to what the table misses, or it is a failed call  *)
(* and adds one.  This needs that the reservation about to be recorded is  *)
(* in the graph, and that cleanup jobs never carry the id of a             *)
(* reservation.                                                            *)
(***************************************************************************)
EXTENDS WorkersProofs

ReservedIds == {a.id : a \in Reserved}

InHand == IF pc = "reserve" THEN {resp.id} ELSE {}

Untracked == ReservedIds \ (reservations \cup InHand)

HandInv ==
  /\ pc = "reserve" => resp.id \in ReservedIds
  /\ reservations \subseteq ReservedIds
  /\ \A a \in graph : a.id \in Doomed => ~ a.reserved

(* No id comes to what the table misses but one for a failed call. *)
Grows ==
  \/ Untracked' \subseteq Untracked /\ faults' \in {faults, faults + 1}
  \/ faults' = faults + 1 /\ \E x \in Id : Untracked' \subseteq Untracked \cup {x}

-----------------------------------------------------------------------------
LEMMA CountGrows ==
  ASSUME TypeOK, TypeOK', Grows, Cardinality(Untracked) <= faults
  PROVE  Cardinality(Untracked') <= faults'
<1>1. IsFiniteSet(Id)
  BY ConstantsAssumption, FS_Interval DEF Id
<1>2. Untracked \subseteq Id
  BY DEF Untracked, ReservedIds, Reserved, TypeOK, Allocation
<1>3. IsFiniteSet(Untracked) /\ Cardinality(Untracked) \in Nat /\ faults \in Nat
  BY <1>1, <1>2, FS_Subset, FS_CardinalityType DEF TypeOK
<1>4. CASE Untracked' \subseteq Untracked /\ faults' \in {faults, faults + 1}
  <2>1. Cardinality(Untracked') <= Cardinality(Untracked) /\ IsFiniteSet(Untracked')
    BY <1>3, <1>4, FS_Subset
  <2>2. Cardinality(Untracked') \in Nat
    BY <2>1, FS_CardinalityType
  <2> QED
    BY <1>3, <1>4, <2>1, <2>2
<1>5. ASSUME NEW x \in Id, faults' = faults + 1, Untracked' \subseteq Untracked \cup {x}
      PROVE  Cardinality(Untracked') <= faults'
  <2>1. /\ IsFiniteSet(Untracked \cup {x})
        /\ Cardinality(Untracked \cup {x})
             = IF x \in Untracked THEN Cardinality(Untracked) ELSE Cardinality(Untracked) + 1
    BY <1>3, FS_AddElement
  <2>2. Cardinality(Untracked') <= Cardinality(Untracked \cup {x}) /\ IsFiniteSet(Untracked')
    BY <1>5, <2>1, FS_Subset
  <2>3. Cardinality(Untracked') \in Nat
    BY <2>2, FS_CardinalityType
  <2> QED
    BY <1>3, <1>5, <2>1, <2>2, <2>3
<1> QED
  BY <1>4, <1>5 DEF Grows

(* What the graph's changes do to its ids. *)
LEMMA SameIds ==
  UNCHANGED graph => Ids' = Ids /\ ReservedIds' = ReservedIds
BY DEF Ids, ReservedIds, Reserved

LEMMA AdmitIds ==
  ASSUME NEW o, NEW nodes, NEW reserved \in BOOLEAN, Admit(o, nodes, reserved)
  PROVE  /\ Ids' = Ids \cup {nextId}
         /\ ReservedIds' = IF reserved THEN ReservedIds \cup {nextId} ELSE ReservedIds
<1> DEFINE new == [id |-> nextId, object |-> o, nodes |-> nodes, reserved |-> reserved]
<1>1. graph' = graph \cup {new} /\ new.id = nextId /\ new.reserved = reserved
  BY DEF Admit
<1> HIDE DEF new
<1> QED
  BY <1>1 DEF Ids, ReservedIds, Reserved

LEMMA CancelIds ==
  ASSUME NEW id, CancelId(id)
  PROVE  Ids' = Ids \ {id} /\ ReservedIds' = ReservedIds \ {id}
BY DEF CancelId, Ids, ReservedIds, Reserved

-----------------------------------------------------------------------------
(* Each step and what the table misses. *)

LEMMA StillGrows ==
  ASSUME UNCHANGED <<graph, reservations>>, InHand' = InHand,
         faults' \in {faults, faults + 1}
  PROVE  Grows
BY SameIds DEF Grows, Untracked

LEMMA MatchGrows ==
  ASSUME TypeOK, Match
  PROVE  Grows
<1>1. InHand = {} /\ reservations' = reservations
  BY DEF Match, InHand
<1>2. Continue("release") => pc' = "release"
  BY DEF Continue
<1>3. Continue("reject") => pc' = "reject"
  BY DEF Continue
<1>4. Continue("reserve") => pc' = "reserve"
  BY DEF Continue
<1>5. Retry => pc' = "idle"
  BY DEF Retry
<1>6. Fault => faults' = faults + 1
  BY DEF Fault
<1>7. nextId \in Id
  BY DEF TypeOK
<1>8. CASE /\ UNCHANGED fluxionVars /\ faults' \in {faults, faults + 1}
           /\ pc' \in {"reject", "idle"}
  BY <1>1, <1>8, StillGrows DEF InHand, fluxionVars
<1>9. ASSUME NEW nodes, Admit(queue[cur].object, nodes, FALSE),
             faults' \in {faults, faults + 1}, pc' \in {"release", "idle"}
      PROVE  Grows
  <2>1. Ids' = Ids \cup {nextId} /\ ReservedIds' = ReservedIds
    BY <1>9, AdmitIds, Zenon
  <2>2. InHand' = {}
    BY <1>9 DEF InHand
  <2> QED
    BY <1>1, <1>9, <2>1, <2>2 DEF Grows, Untracked
<1>10. ASSUME Admit(queue[cur].object, {}, TRUE)
       PROVE  /\ Ids' = Ids \cup {nextId} /\ ReservedIds' = ReservedIds \cup {nextId}
              /\ ReservedIds' \ reservations' \subseteq Untracked \cup {nextId}
  <2>1. Ids' = Ids \cup {nextId} /\ ReservedIds' = ReservedIds \cup {nextId}
    BY <1>10, AdmitIds, Zenon
  <2> QED
    BY <1>1, <2>1 DEF Untracked
<1>11. ASSUME Reserve(queue[cur].object), resp' = [id |-> nextId, nodes |-> {}],
              pc' = "reserve", faults' = faults
       PROVE  Grows
  <2>1. InHand' = {nextId}
    BY <1>11 DEF InHand
  <2>2. Untracked' \subseteq Untracked
    BY <1>10, <1>11, <2>1 DEF Untracked, Reserve
  <2> QED
    BY <1>11, <2>2 DEF Grows
<1>12. ASSUME Reserve(queue[cur].object), pc' = "idle", faults' = faults + 1
       PROVE  Grows
  <2>1. Untracked' \subseteq Untracked \cup {nextId}
    BY <1>10, <1>12 DEF Untracked, Reserve
  <2> QED
    BY <1>7, <1>12, <2>1 DEF Grows
<1>13. \/ UNCHANGED fluxionVars /\ faults' \in {faults, faults + 1}
          /\ pc' \in {"reject", "idle"}
       \/ \E nodes : /\ Admit(queue[cur].object, nodes, FALSE)
                     /\ faults' \in {faults, faults + 1}
                     /\ pc' \in {"release", "idle"}
       \/ /\ Reserve(queue[cur].object) /\ resp' = [id |-> nextId, nodes |-> {}]
          /\ pc' = "reserve" /\ faults' = faults
       \/ Reserve(queue[cur].object) /\ pc' = "idle" /\ faults' = faults + 1
  BY <1>2, <1>3, <1>4, <1>5, <1>6, Zenon DEF Match, Allocate
<1> QED
  BY <1>8, <1>9, <1>11, <1>12, <1>13, Zenon

LEMMA ReserveJobGrows ==
  ASSUME TypeOK, QueueInv, HandInv, ReserveJob
  PROVE  Grows
<1>1. pc = "reserve" /\ InHand = {resp.id} /\ resp.id \in Id
  BY DEF ReserveJob, InHand, QueueInv
<1>2. pc' = "idle" /\ InHand' = {}
  BY DEF ReserveJob, Retry, InHand
<1>3. Ids' = Ids /\ ReservedIds' = ReservedIds
  BY SameIds DEF ReserveJob, fluxionVars
<1>5. CASE reservations' = reservations \cup {resp.id} /\ faults' = faults
  BY <1>1, <1>2, <1>3, <1>5 DEF Grows, Untracked
<1>6. CASE faults' = faults + 1 /\ reservations' = reservations
  <2>1. Untracked' \subseteq Untracked \cup {resp.id}
    BY <1>1, <1>2, <1>3, <1>6 DEF Untracked
  <2> QED
    BY <1>1, <1>6, <2>1 DEF Grows
<1> QED
  BY <1>5, <1>6 DEF ReserveJob, Fault

LEMMA DeleteFluxionGrows ==
  ASSUME DeleteFluxion
  PROVE  Grows
<1>1. InHand' = InHand /\ reservations' = reservations
  BY DEF DeleteFluxion, InHand, workVars
<1>2. faults' \in {faults, faults + 1} /\ (CancelId(cancel.id) \/ UNCHANGED graph)
  BY DEF DeleteFluxion, Fault, fluxionVars
<1>3. CASE CancelId(cancel.id)
  <2>1. Untracked' \subseteq Untracked
    BY <1>1, <1>3, CancelIds DEF Untracked
  <2> QED
    BY <1>2, <2>1 DEF Grows
<1>4. CASE UNCHANGED graph
  BY <1>1, <1>2, <1>4, StillGrows
<1> QED
  BY <1>2, <1>3, <1>4

LEMMA OtherGrows ==
  ASSUME [Next]_vars, ~ Match, ~ ReserveJob, ~ DeleteFluxion
  PROVE  Grows
<1>1. CASE \/ \E batch \in SetOfBatches : InsertMany(batch)
           \/ TaskStep
           \/ \E i \in DOMAIN cancels : CleanupFetch(i)
           \/ \E o \in Objects : Bind(o)
           \/ Deletion
           \/ UNCHANGED vars
  <2>1. UNCHANGED <<graph, reservations, pc, resp>> /\ faults' \in {faults, faults + 1}
    BY <1>1, Zenon DEF InsertMany, TaskStep, TaskFetch, PatchPod, RemoveGate, CleanupFetch,
                Bind, Deletion, DeletePod, DeleteObject, Cleanup, Fault, vars,
                workVars, fluxionVars
  <2> QED
    BY <2>1, StillGrows DEF InHand
<1>2. CASE \/ \E i \in DOMAIN queue : Fetch(i)
           \/ UnsuspendJob \/ UngatePod \/ MarkUnschedulable
           \/ GetReservations
  <2>1. UNCHANGED <<graph, reservations>> /\ faults' \in {faults, faults + 1}
    BY <1>2, Zenon DEF Fetch, UnsuspendJob, UngatePod, MarkUnschedulable, GetReservations, Fault, fluxionVars
  <2>2. InHand = {} /\ InHand' = {}
    BY <1>2, Zenon DEF Fetch, UnsuspendJob, UngatePod, MarkUnschedulable, GetReservations, Retry, Finish, InHand
  <2> QED
    BY <2>1, <2>2, StillGrows
<1> QED
  BY <1>1, <1>2 DEF Next, WorkStep, CleanupStep

LEMMA StepGrows ==
  ASSUME TypeOK, QueueInv, MarksInv, HandInv, [Next]_vars
  PROVE  Grows
BY MatchGrows, ReserveJobGrows, DeleteFluxionGrows, OtherGrows

-----------------------------------------------------------------------------
(* The reservation in hand, and the ids of cleanup jobs. *)

LEMMA CleanupSparesReservations ==
  ASSUME TypeOK, TypeOK', AllocInv, HandInv, GraphStep, DoomedFrom
  PROVE  \A a \in graph' : a.id \in Doomed' => ~ a.reserved
<1> SUFFICES ASSUME NEW a, a \in graph', a.id \in Doomed' PROVE ~ a.reserved
  OBVIOUS
<1>1. CASE a.id \in Doomed
  <2>1. a.id < nextId /\ a.id \in Nat /\ nextId \in Nat
    BY <1>1, IdsAreNat, DoomedType DEF AllocInv, MarksInv, IsDoomed
  <2>2. a \in graph
    BY <2>1 DEF GraphStep
  <2> QED
    BY <1>1, <2>2 DEF HandInv
<1>2. ASSUME NEW o \in Objects, a.id = label[o].id, a.id \in Id,
             DeletePod(o) \/ DeleteObject(o)
      PROVE  ~ a.reserved
  <2>1. a \in graph
    BY <1>2 DEF DeletePod, DeleteObject, fluxionVars
  <2>2. label[o] # Unlabelled
    <3>1. a.id # NoId
      BY <1>2, ConstantsAssumption DEF Id, NoId
    <3> QED
      BY <1>2, <3>1 DEF Unlabelled
  <2>3. Held(o, label[o].id, label[o].nodes)
    BY <2>2 DEF AllocInv, NamedIsHeld
  <2> QED
    BY <1>2, <2>1, <2>3 DEF Held
<1> QED
  BY <1>1, <1>2 DEF DoomedFrom

LEMMA HandKept ==
  ASSUME TypeOK, TypeOK', AllocInv, HandInv, GraphStep, DoomedFrom, [Next]_vars
  PROVE  HandInv'
<1>1. ASSUME pc' = "reserve" PROVE resp'.id \in ReservedIds'
  <2>1. CASE Match
    <3>1. \/ Continue("release") \/ Continue("reject") \/ Retry
          \/ Reserve(queue[cur].object) /\ resp' = [id |-> nextId, nodes |-> {}]
      BY <2>1 DEF Match
    <3>2. Continue("release") => pc' = "release"
      BY DEF Continue
    <3>3. Continue("reject") => pc' = "reject"
      BY DEF Continue
    <3>4. Retry => pc' = "idle"
      BY DEF Retry
    <3>5. Reserve(queue[cur].object) /\ resp' = [id |-> nextId, nodes |-> {}]
      BY <1>1, <3>1, <3>2, <3>3, <3>4
    <3>6. Admit(queue[cur].object, {}, TRUE)
      BY <3>5, Zenon DEF Reserve
    <3> QED
      BY <3>5, <3>6, AdmitIds, Zenon
  <2>2. CASE DeleteFluxion
    <3>1. pc = "reserve" /\ resp' = resp /\ cancel.id \in Doomed
      BY <1>1, <2>2 DEF DeleteFluxion, workVars, Doomed
    <3>2. resp.id \in ReservedIds /\ resp.id # cancel.id
      BY <3>1 DEF HandInv, ReservedIds, Reserved
    <3> QED
      BY <2>2, <3>1, <3>2, CancelIds, SameIds DEF DeleteFluxion, fluxionVars
  <2>3. CASE pc = "reserve" /\ resp' = resp /\ UNCHANGED graph
    BY <2>3, SameIds DEF HandInv
  <2>4. CASE WorkStep /\ ~ Match
    BY <1>1, <2>4, Zenon DEF WorkStep, ReserveJob, UnsuspendJob, UngatePod,
         MarkUnschedulable, GetReservations, Retry, Finish
  <2>5. CASE \E i \in DOMAIN queue : Fetch(i)
    BY <1>1, <2>5 DEF Fetch
  <2>6. \/ WorkStep \/ DeleteFluxion \/ \E i \in DOMAIN queue : Fetch(i)
        \/ UNCHANGED <<pc, resp, graph>>
    BY Zenon DEF Next, InsertMany, TaskStep, TaskFetch, PatchPod, RemoveGate, CleanupStep,
           CleanupFetch, Bind, Deletion, DeletePod, DeleteObject, vars, workVars,
           fluxionVars
  <2> QED
    BY <1>1, <2>1, <2>2, <2>3, <2>4, <2>5, <2>6
<1>2. reservations' \subseteq ReservedIds'
  <2>1. CASE Match
    <3>1. reservations' = reservations /\ (UNCHANGED graph \/ ReservedIds \subseteq ReservedIds')
      <4>1. \/ UNCHANGED fluxionVars
            \/ \E nodes \in SUBSET Slots : Admit(queue[cur].object, nodes, FALSE)
            \/ Admit(queue[cur].object, {}, TRUE)
        BY <2>1, Zenon DEF Match, Allocate, Reserve
      <4>2. ASSUME NEW nodes \in SUBSET Slots, Admit(queue[cur].object, nodes, FALSE)
            PROVE  ReservedIds \subseteq ReservedIds'
        BY <4>2, AdmitIds
      <4>3. ASSUME Admit(queue[cur].object, {}, TRUE)
            PROVE  ReservedIds \subseteq ReservedIds'
        BY <4>3, AdmitIds
      <4>4. reservations' = reservations
        BY <2>1 DEF Match
      <4> QED
        BY <4>1, <4>2, <4>3, <4>4 DEF fluxionVars
    <3> QED
      BY <3>1, SameIds DEF HandInv
  <2>2. CASE DeleteFluxion
    <3>1. reservations' = reservations /\ cancel.id \in Doomed
      BY <2>2 DEF DeleteFluxion, Doomed
    <3>2. cancel.id \notin ReservedIds
      BY <3>1 DEF HandInv, ReservedIds, Reserved
    <3> QED
      BY <2>2, <3>1, <3>2, CancelIds, SameIds DEF DeleteFluxion, fluxionVars, HandInv
  <2>3. CASE ReserveJob
    <3>1. resp.id \in ReservedIds /\ reservations \subseteq ReservedIds
      BY <2>3 DEF ReserveJob, HandInv
    <3>2. reservations' \in {reservations, reservations \cup {resp.id}}
          /\ ReservedIds' = ReservedIds
      BY <2>3, SameIds DEF ReserveJob, fluxionVars
    <3> QED
      BY <3>1, <3>2
  <2>4. CASE UNCHANGED <<reservations, graph>>
    BY <2>4, SameIds DEF HandInv
  <2>5. \/ Match \/ DeleteFluxion \/ ReserveJob \/ UNCHANGED <<reservations, graph>>
    BY Zenon DEF Next, WorkStep, InsertMany, Fetch, UnsuspendJob, UngatePod,
           MarkUnschedulable, GetReservations, TaskStep, TaskFetch, PatchPod, RemoveGate,
           CleanupStep, CleanupFetch, Bind, Deletion, DeletePod, DeleteObject, vars,
           fluxionVars
  <2> QED
    BY <2>1, <2>2, <2>3, <2>4, <2>5
<1> QED
  BY <1>1, <1>2, CleanupSparesReservations DEF HandInv

-----------------------------------------------------------------------------
ReservationInv == HandInv /\ Cardinality(Untracked) <= faults

LEMMA InitReservations == Init => ReservationInv
<1> SUFFICES ASSUME Init PROVE ReservationInv
  OBVIOUS
<1>1. Untracked = {}
  BY DEF Init, Untracked, ReservedIds, Reserved, InHand
<1>2. HandInv
  BY DEF Init, HandInv, ReservedIds, Reserved
<1> QED
  BY <1>1, <1>2, FS_EmptySet DEF Init, ReservationInv

LEMMA NextReservations ==
  TypeOK /\ QueueInv /\ OrderInv /\ AllocInv /\ ReservationInv /\ [Next]_vars
    => ReservationInv'
<1> SUFFICES ASSUME TypeOK, QueueInv, OrderInv, AllocInv, ReservationInv, [Next]_vars
             PROVE  ReservationInv'
  OBVIOUS
<1>1. TypeOK' /\ GraphStep /\ DoomedFrom
  BY NextTypes, StepGraph, StepDoomed DEF AllocInv
<1>2. HandInv'
  BY <1>1, HandKept DEF ReservationInv
<1>3. Grows
  BY StepGrows DEF ReservationInv, AllocInv
<1>4. Cardinality(Untracked') <= faults'
  BY <1>1, <1>3, CountGrows DEF ReservationInv
<1> QED
  BY <1>2, <1>4 DEF ReservationInv

(* Every row of the reservations table is a reservation Fluxion holds, and   *)
(* but for the one the worker has in hand, Fluxion holds at most one that    *)
(* the table misses for each failed call, over any number of batches: a      *)
(* failed call is never multiplied by a retry.                               *)
THEOREM TableFollowsFluxion == Spec => []ReservationsTracked
<1>1. Init => TypeOK /\ QueueInv /\ OrderInv /\ AllocInv /\ ReservationInv
  BY InitInv, InitAlloc, InitReservations
<1>2. TypeOK /\ QueueInv /\ OrderInv /\ AllocInv /\ ReservationInv /\ [Next]_vars
        => (TypeOK /\ QueueInv /\ OrderInv /\ AllocInv /\ ReservationInv)'
  BY NextTypes, NextAlloc, NextReservations
<1>3. ReservationInv => ReservationsTracked
  BY DEF ReservationInv, HandInv, Untracked, ReservedIds, InHand, ReservationsTracked
<1> QED
  BY <1>1, <1>2, <1>3, PTL DEF Spec
-----------------------------------------------------------------------------
(* Pods and jobs in hand.  LeakProofs, which counts allocations, rests on    *)
(* these facts.                                                              *)

PodInv ==
  /\ \A o \in Objects : bound[o] # {} => o \in exists
  /\ pc # "idle" => queue[cur].state = "running"
  /\ pc = "clear" => queue[cur].kind = "reservation"
  /\ tpc = "ungate" => label[task.object].id # NoId
  /\ IsFiniteSet(graph) /\ \A a, b \in graph : a.id = b.id => a = b

LEMMA PodIsWhole ==
  ASSUME TypeOK, BoundInv, BatchJobs = {}, NEW o \in Objects
  PROVE  /\ o \in exists => Whole(o)
         /\ \A node \in bound[o] : bound[o] \ {node} = {}
<1>1. Size[o] = 1
  BY ConstantsAssumption
<1>2. IsFiniteSet(bound[o]) /\ Cardinality(bound[o]) \in Nat /\ Cardinality(bound[o]) <= 1
  BY <1>1, ConstantsAssumption, FS_Subset, FS_CardinalityType DEF TypeOK, BoundInv
<1>3. bound[o] # {} => Cardinality(bound[o]) = 1
  BY <1>2, FS_EmptySet
<1>4. \A node \in bound[o] : bound[o] \ {node} = {}
  <2> TAKE node \in bound[o]
  <2>1. IsFiniteSet(bound[o] \ {node}) /\ Cardinality(bound[o] \ {node}) = 0
    <3>1. IsFiniteSet(bound[o]) /\ Cardinality(bound[o]) = 1
      BY <1>2, <1>3
    <3>2. Cardinality(bound[o] \ {node}) = Cardinality(bound[o]) - 1
      BY <3>1, FS_RemoveElement, Zenon
    <3>3. IsFiniteSet(bound[o] \ {node})
      BY <3>1, FS_RemoveElement, Zenon
    <3> QED
      BY <3>1, <3>2, <3>3
  <2> QED
    BY <2>1, FS_EmptySet
<1> QED
  BY <1>1, <1>3, <1>4 DEF Whole

LEMMA DeletedPod ==
  ASSUME TypeOK, BoundInv, PodInv, BatchJobs = {}, NEW o \in Objects,
         DeletePod(o) \/ DeleteObject(o)
  PROVE  o \in exists /\ exists' = exists \ {o} /\ Cleanup(label[o].id)
         /\ \A p \in Objects : bound'[p] # {} => p # o /\ bound[p] # {}
<1>1. CASE DeleteObject(o)
  BY <1>1 DEF DeleteObject
<1>2. CASE DeletePod(o)
  <2>1. PICK node \in bound[o] : bound' = [bound EXCEPT ![o] = @ \ {node}]
    BY <1>2, Zenon DEF DeletePod
  <2>2. bound'[o] = {} /\ \A p \in Objects \ {o} : bound'[p] = bound[p]
    BY <2>1, PodIsWhole DEF TypeOK
  <2>3. o \in exists
    BY <2>1 DEF PodInv
  <2>4. exists' = exists \ {o} /\ Cleanup(label[o].id)
    BY <1>2, <2>2, Zenon DEF DeletePod
  <2> QED
    BY <2>2, <2>3, <2>4
<1> QED
  BY <1>1, <1>2

LEMMA GraphFacts ==
  ASSUME TypeOK, MarksInv, PodInv, [Next]_vars
  PROVE  IsFiniteSet(graph') /\ \A a, b \in graph' : a.id = b.id => a = b
<1>1. CASE \E o, nodes, reserved : Admit(o, nodes, reserved)
  <2>1. PICK new : graph' = graph \cup {new} /\ new.id = nextId
    <3>1. PICK o, nodes, reserved : Admit(o, nodes, reserved)
      BY <1>1
    <3>2. [id |-> nextId, object |-> o, nodes |-> nodes, reserved |-> reserved].id = nextId
      OBVIOUS
    <3> QED
      BY <3>1, <3>2, Zenon DEF Admit
  <2>2. \A a \in graph : a.id # nextId
    BY IdsAreNat DEF MarksInv
  <2> QED
    BY <2>1, <2>2, FS_AddElement DEF PodInv
<1>2. CASE graph' \subseteq graph
  BY <1>2, FS_Subset DEF PodInv
<1>3. \/ graph' \subseteq graph
      \/ \E o, nodes, reserved : Admit(o, nodes, reserved)
  <2>1. Match => graph' \subseteq graph \/ \E o, nodes, reserved : Admit(o, nodes, reserved)
    <3>1. Match => \/ UNCHANGED fluxionVars
                   \/ \E nodes \in SUBSET Slots : Admit(queue[cur].object, nodes, FALSE)
                   \/ Admit(queue[cur].object, {}, TRUE)
      BY Zenon DEF Match, Allocate, Reserve
    <3> QED
      BY <3>1, Zenon DEF fluxionVars
  <2>2. DeleteFluxion => graph' \subseteq graph
    BY Zenon DEF DeleteFluxion, CancelId, fluxionVars
  <2>3. ASSUME NEW o \in Objects, Bind(o) \/ DeletePod(o) \/ DeleteObject(o)
        PROVE  graph' \subseteq graph
    BY <2>3, Zenon DEF Bind, DeletePod, DeleteObject, fluxionVars
  <2> QED
    BY <2>1, <2>2, <2>3, Steps, QuietSteps
<1> QED
  BY <1>1, <1>2, <1>3

LEMMA BoundFacts ==
  ASSUME TypeOK, BoundInv, PodInv, BatchJobs = {}, [Next]_vars
  PROVE  \A o \in Objects : bound'[o] # {} => o \in exists'
<1>1. CASE UNCHANGED <<exists, bound>>
  BY <1>1 DEF PodInv
<1>2. ASSUME NEW o \in Objects, Bind(o)
      PROVE  \A p \in Objects : bound'[p] # {} => p \in exists'
  BY <1>2, Zenon DEF Bind, PodInv, TypeOK
<1>3. ASSUME NEW o \in Objects, DeletePod(o) \/ DeleteObject(o)
      PROVE  \A p \in Objects : bound'[p] # {} => p \in exists'
  BY <1>3, DeletedPod, Zenon DEF PodInv
<1>4. Match \/ DeleteFluxion => UNCHANGED <<exists, bound>>
  BY Zenon DEF Match, DeleteFluxion, objectVars
<1> QED
  BY <1>1, <1>2, <1>3, <1>4, Steps, QuietSteps, Zenon

LEMMA TaskFacts ==
  ASSUME TypeOK, PodInv, BatchJobs = {}, [Next]_vars, tpc' = "ungate"
  PROVE  label'[task'.object].id # NoId
<1>1. CASE PatchPod
  <2>1. tpc = "patch" /\ task \in Task /\ task' = task /\ LabelPod
    BY <1>1 DEF PatchPod, TaskRetry, TypeOK
  <2>2. task.object \in Objects /\ task.id \in Id
    BY <2>1 DEF Task
  <2>3. label'[task.object].id = task.id
    BY <2>1, <2>2 DEF LabelPod, TypeOK
  <2>4. task.id # NoId
    BY <2>2, ConstantsAssumption DEF Id, NoId
  <2> QED
    BY <2>1, <2>3, <2>4
<1>2. CASE ~ PatchPod
  <2>1. ~ UnsuspendJob
    BY DEF UnsuspendJob
  <2>2. tpc = "ungate" /\ UNCHANGED <<task, label>>
    BY <1>2, <2>1, Zenon DEF Next, InsertMany, Fetch, WorkStep, Match, ReserveJob, UngatePod,
       MarkUnschedulable, GetReservations, TaskStep, TaskFetch, RemoveGate, TaskRetry, CleanupStep,
       CleanupFetch, DeleteFluxion, Bind, Deletion, DeletePod, DeleteObject, vars,
       taskVars, objectVars
  <2> QED
    BY <2>2 DEF PodInv
<1> QED
  BY <1>1, <1>2

LEMMA JobFacts ==
  ASSUME TypeOK, QueueInv, PodInv, [Next]_vars, pc' # "idle"
  PROVE  /\ queue'[cur'].state = "running"
         /\ pc' = "clear" => queue'[cur'].kind = "reservation"
<1>1. CASE \E i \in DOMAIN queue : Fetch(i)
  <2>1. PICK i \in DOMAIN queue : Fetch(i)
    BY <1>1
  <2>2. queue[i] \in QueueJob /\ cur' = i
    BY <2>1 DEF TypeOK, Fetch
  <2>3. queue'[i].state = "running" /\ queue'[i].kind = queue[i].kind
    <3>1. queue'[i] = [queue[i] EXCEPT !.state = "running", !.attempted = TRUE]
      BY <2>1 DEF Fetch, TypeOK
    <3> QED
      BY <2>2, <3>1 DEF QueueJob
  <2>4. pc' = IF queue[i].kind = "job" THEN "match" ELSE "clear"
    BY <2>1 DEF Fetch
  <2> QED
    BY <2>2, <2>3, <2>4 DEF QueueJob
<1>2. CASE \E batch \in SetOfBatches : InsertMany(batch)
  <2>1. \A k \in DOMAIN queue : queue'[k] = queue[k]
    BY <1>2, TypeParts, InsertManyKeeps
  <2>2. pc' = pc /\ cur' = cur
    BY <1>2 DEF InsertMany, workVars
  <2>3. cur \in DOMAIN queue
    BY <2>2 DEF TypeOK
  <2> QED
    BY <2>1, <2>2, <2>3 DEF PodInv
<1>3. CASE WorkStep
  <2>1. ASSUME queue' = queue, cur' = cur, pc # "idle", pc' = "clear" => pc = "clear"
        PROVE  /\ queue'[cur'].state = "running"
               /\ pc' = "clear" => queue'[cur'].kind = "reservation"
    BY <2>1 DEF PodInv
  <2>2. Match => /\ queue' = queue /\ cur' = cur
                 /\ pc = "match" /\ pc' \in {"release", "reserve", "reject"}
    <3>1. ~ Retry
      BY DEF Retry
    <3> QED
      BY <3>1, Zenon DEF Match, Continue
  <2>3. Match
    BY <1>3, Zenon DEF WorkStep, ReserveJob, UnsuspendJob, UngatePod, MarkUnschedulable,
       GetReservations, Retry, Finish
  <2> QED
    BY <2>1, <2>2, <2>3
<1>4. CASE UNCHANGED <<queue, cur, pc>>
  BY <1>4, Zenon DEF PodInv
<1>5. \/ \E i \in DOMAIN queue : Fetch(i)
      \/ \E batch \in SetOfBatches : InsertMany(batch)
      \/ WorkStep
      \/ UNCHANGED <<queue, cur, pc>>
  BY Zenon DEF Next, TaskStep, TaskFetch, PatchPod, RemoveGate, CleanupStep, CleanupFetch,
     DeleteFluxion, Bind, Deletion, DeletePod, DeleteObject, vars, workVars
<1> QED
  BY <1>1, <1>2, <1>3, <1>4, <1>5, Zenon

LEMMA NextPods ==
  ASSUME TypeOK, QueueInv, AllocInv, PodInv, BatchJobs = {}, [Next]_vars
  PROVE  PodInv'
<1>1. MarksInv /\ BoundInv
  BY DEF AllocInv
<1>2. IsFiniteSet(graph') /\ \A a, b \in graph' : a.id = b.id => a = b
  BY <1>1, GraphFacts
<1>3. \A o \in Objects : bound'[o] # {} => o \in exists'
  BY <1>1, BoundFacts, Zenon
<1>4. pc' # "idle" => queue'[cur'].state = "running"
  BY JobFacts
<1>5. pc' = "clear" => queue'[cur'].kind = "reservation"
  BY JobFacts
<1>6. tpc' = "ungate" => label'[task'.object].id # NoId
  BY TaskFacts
<1> QED
  BY <1>2, <1>3, <1>4, <1>5, <1>6, Zenon DEF PodInv

-----------------------------------------------------------------------------
(* Sizes of finite sets. *)

LEMMA SubsetSizes ==
  ASSUME NEW S, NEW T, IsFiniteSet(S), IsFiniteSet(T)
  PROVE  /\ Cardinality(S) \in Nat /\ Cardinality(T) \in Nat
         /\ T \subseteq S => Cardinality(T) <= Cardinality(S)
         /\ (\E x : T \subseteq S \cup {x}) => Cardinality(T) <= Cardinality(S) + 1
         /\ (\E x \in S : T \subseteq S \ {x}) => Cardinality(T) + 1 <= Cardinality(S)
         /\ (\E x : x \notin S /\ S \cup {x} \subseteq T)
              => Cardinality(S) + 1 <= Cardinality(T)
<1>1. Cardinality(S) \in Nat /\ Cardinality(T) \in Nat
  BY FS_CardinalityType
<1>2. T \subseteq S => Cardinality(T) <= Cardinality(S)
  BY FS_Subset
<1>3. ASSUME NEW x, T \subseteq S \cup {x} PROVE Cardinality(T) <= Cardinality(S) + 1
  <2>1. IsFiniteSet(S \cup {x}) /\ Cardinality(S \cup {x}) <= Cardinality(S) + 1
    BY <1>1, FS_AddElement
  <2>2. Cardinality(T) <= Cardinality(S \cup {x}) /\ Cardinality(S \cup {x}) \in Nat
    BY <1>3, <2>1, FS_Subset, FS_CardinalityType
  <2> QED
    BY <1>1, <2>1, <2>2
<1>4. ASSUME NEW x \in S, T \subseteq S \ {x} PROVE Cardinality(T) + 1 <= Cardinality(S)
  <2>1. IsFiniteSet(S \ {x}) /\ Cardinality(S \ {x}) = Cardinality(S) - 1
    BY FS_RemoveElement
  <2>2. Cardinality(T) <= Cardinality(S \ {x})
    BY <1>4, <2>1, FS_Subset
  <2> QED
    BY <1>1, <2>1, <2>2
<1>5. ASSUME NEW x, x \notin S, S \cup {x} \subseteq T
      PROVE  Cardinality(S) + 1 <= Cardinality(T)
  <2>1. Cardinality(S \cup {x}) = Cardinality(S) + 1
    BY <1>5, FS_AddElement
  <2>2. Cardinality(S \cup {x}) <= Cardinality(T)
    BY <1>5, FS_Subset
  <2> QED
    BY <2>1, <2>2
<1> QED
  BY <1>1, <1>2, <1>3, <1>4, <1>5

LEMMA UnionSize ==
  ASSUME NEW S, NEW T, NEW V, IsFiniteSet(S), IsFiniteSet(T), V \subseteq S \cup T
  PROVE  /\ IsFiniteSet(S \cup T)
         /\ Cardinality(S \cup T) <= Cardinality(S) + Cardinality(T)
         /\ Cardinality(V) <= Cardinality(S) + Cardinality(T)
<1>1. /\ IsFiniteSet(S \cup T)
      /\ Cardinality(S \cup T) = Cardinality(S) + Cardinality(T) - Cardinality(S \cap T)
  BY FS_Union
<1>2. IsFiniteSet(S \cap T) /\ Cardinality(V) <= Cardinality(S \cup T) /\ IsFiniteSet(V)
  BY <1>1, FS_Subset
<1>3. /\ Cardinality(S) \in Nat /\ Cardinality(T) \in Nat /\ Cardinality(V) \in Nat
      /\ Cardinality(S \cap T) \in Nat
  BY <1>2, FS_CardinalityType
<1> QED
  BY <1>1, <1>2, <1>3
=============================================================================
