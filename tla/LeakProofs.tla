----------------------------- MODULE LeakProofs -----------------------------
(***************************************************************************)
(* The proof that every allocation of a single pod that nobody will cancel *)
(* has a cause: a failed call, a pod deleted before it was labelled, or a  *)
(* job that was sent again.                                                *)
(*                                                                         *)
(* A cause and its leak are many steps apart, so the bound itself is not   *)
(* inductive.  What is: every allocation was made for a job of the queue,  *)
(* which it used up, or in a failed call, so that allocations are counted  *)
(* by used jobs and failed calls.  An object is lost when its allocation   *)
(* left the hands of everyone who would cancel it; each loss is paid for   *)
(* by a failed call or by an allocation that was given back.               *)
(***************************************************************************)
EXTENDS ReservationProofs

Allocations == graph \ Reserved

Done(i) == queue[i].kind = "job" /\ queue[i].state = "completed"

Used == {i \in DOMAIN queue : Done(i) \/ (pc = "release" /\ i = cur)}

UsedBy(o) == \E i \in Used : queue[i].object = o

Carried(id) == (pc = "release" /\ resp.id = id) \/ \E t \in tasks \cup {task} : t.id = id

InWork(o) == \E a \in Allocations : a.object = o /\ Carried(a.id)

Lost ==
  {o \in Objects :
     IF label[o].id = NoId
     THEN o \in exists /\ UsedBy(o) /\ ~ InWork(o)
     ELSE o \notin exists /\ label[o].id \notin Ids \cap Doomed}

LeakInv == Cardinality(Allocations) + Cardinality(Lost) <= faults + Cardinality(Used)

(* What a step may do to the two sides. *)
Balance ==
  \/ /\ Allocations' \subseteq Allocations /\ Lost' \subseteq Lost
     /\ Used \subseteq Used' /\ faults' \in {faults, faults + 1}
  \/ /\ Allocations' \subseteq Allocations /\ \E o : Lost' \subseteq Lost \cup {o}
     /\ Used \subseteq Used' /\ faults' = faults + 1
  \/ /\ \E a : Allocations' \subseteq Allocations \cup {a}
     /\ Lost' \subseteq Lost
     /\ Used \subseteq Used' /\ faults' = faults + 1
  \/ /\ \E a : Allocations' \subseteq Allocations \cup {a}
     /\ Lost' \subseteq Lost
     /\ \E i : i \notin Used /\ Used \cup {i} \subseteq Used'
     /\ faults' = faults
  \/ /\ \E a \in Allocations : Allocations' \subseteq Allocations \ {a}
     /\ \E o : Lost' \subseteq Lost \cup {o}
     /\ Used \subseteq Used' /\ faults' = faults

LEMMA FiniteParts ==
  ASSUME TypeOK, IsFiniteSet(graph)
  PROVE  IsFiniteSet(Allocations) /\ IsFiniteSet(Lost) /\ IsFiniteSet(Used)
<1>1. DOMAIN queue = 1 .. Len(queue) /\ IsFiniteSet(1 .. Len(queue))
  BY FS_Interval DEF TypeOK
<1>2. Allocations \subseteq graph /\ Lost \subseteq Objects /\ Used \subseteq DOMAIN queue
  BY DEF Allocations, Lost, Used
<1> QED
  BY <1>1, <1>2, ConstantsAssumption, FS_Subset

LEMMA FinitePartsNext ==
  ASSUME TypeOK', IsFiniteSet(graph')
  PROVE  IsFiniteSet(Allocations') /\ IsFiniteSet(Lost') /\ IsFiniteSet(Used')
<1>1. DOMAIN queue' = 1 .. Len(queue') /\ IsFiniteSet(1 .. Len(queue'))
  BY FS_Interval DEF TypeOK
<1>2. /\ Allocations' \subseteq graph' /\ Lost' \subseteq Objects
      /\ Used' \subseteq DOMAIN queue'
  BY DEF Allocations, Lost, Used
<1> QED
  BY <1>1, <1>2, ConstantsAssumption, FS_Subset

LEMMA BalanceKept ==
  ASSUME TypeOK, TypeOK', IsFiniteSet(graph), IsFiniteSet(graph'), LeakInv, Balance
  PROVE  LeakInv'
<1> DEFINE A == Cardinality(Allocations)  A1 == Cardinality(Allocations')
           L == Cardinality(Lost)         L1 == Cardinality(Lost')
           U == Cardinality(Used)         U1 == Cardinality(Used')
<1>1. /\ IsFiniteSet(Allocations) /\ IsFiniteSet(Lost) /\ IsFiniteSet(Used)
      /\ IsFiniteSet(Allocations') /\ IsFiniteSet(Lost') /\ IsFiniteSet(Used')
  BY FiniteParts, FinitePartsNext
<1>2. /\ A \in Nat /\ A1 \in Nat
      /\ Allocations' \subseteq Allocations => A1 <= A
      /\ (\E a : Allocations' \subseteq Allocations \cup {a}) => A1 <= A + 1
      /\ (\E a \in Allocations : Allocations' \subseteq Allocations \ {a}) => A1 + 1 <= A
  BY <1>1, SubsetSizes
<1>3. /\ L \in Nat /\ L1 \in Nat
      /\ Lost' \subseteq Lost => L1 <= L
      /\ (\E o : Lost' \subseteq Lost \cup {o}) => L1 <= L + 1
  BY <1>1, SubsetSizes
<1>4. /\ U \in Nat /\ U1 \in Nat
      /\ Used \subseteq Used' => U <= U1
      /\ (\E i : i \notin Used /\ Used \cup {i} \subseteq Used') => U + 1 <= U1
  BY <1>1, SubsetSizes
<1>5. A + L <= faults + U /\ faults \in Nat /\ faults' \in Nat
  BY DEF LeakInv, TypeOK
<1>6. A1 + L1 <= faults' + U1
  <2>1. \/ A1 <= A /\ L1 <= L /\ U <= U1 /\ (faults' = faults \/ faults' = faults + 1)
        \/ A1 <= A /\ L1 <= L + 1 /\ U <= U1 /\ faults' = faults + 1
        \/ A1 <= A + 1 /\ L1 <= L /\ U <= U1 /\ faults' = faults + 1
        \/ A1 <= A + 1 /\ L1 <= L /\ U + 1 <= U1 /\ faults' = faults
        \/ A1 + 1 <= A /\ L1 <= L + 1 /\ U <= U1 /\ faults' = faults
    <3> HIDE DEF A, A1, L, L1, U, U1
    <3> QED
      BY <1>2, <1>3, <1>4, Zenon DEF Balance
  <2>2. /\ A \in Nat /\ A1 \in Nat /\ L \in Nat /\ L1 \in Nat /\ U \in Nat /\ U1 \in Nat
    BY <1>2, <1>3, <1>4
  <2> HIDE DEF A, A1, L, L1, U, U1
  <2>3. CASE A1 <= A /\ L1 <= L /\ U <= U1 /\ (faults' = faults \/ faults' = faults + 1)
    <3>1. CASE faults' = faults
      BY <1>5, <2>2, <2>3, <3>1
    <3>2. CASE faults' = faults + 1
      BY <1>5, <2>2, <2>3, <3>2
    <3> QED
      BY <2>3, <3>1, <3>2
  <2>4. CASE A1 <= A /\ L1 <= L + 1 /\ U <= U1 /\ faults' = faults + 1
    BY <1>5, <2>2, <2>4
  <2>5. CASE A1 <= A + 1 /\ L1 <= L /\ U <= U1 /\ faults' = faults + 1
    BY <1>5, <2>2, <2>5
  <2>6. CASE A1 <= A + 1 /\ L1 <= L /\ U + 1 <= U1 /\ faults' = faults
    BY <1>5, <2>2, <2>6
  <2>7. CASE A1 + 1 <= A /\ L1 <= L + 1 /\ U <= U1 /\ faults' = faults
    BY <1>5, <2>2, <2>7
  <2> QED
    BY <2>1, <2>3, <2>4, <2>5, <2>6, <2>7
<1> QED
  BY <1>6 DEF LeakInv

-----------------------------------------------------------------------------
(* The jobs that are done. *)

JobsStay ==
  /\ DOMAIN queue \subseteq DOMAIN queue'
  /\ \A k \in DOMAIN queue : queue'[k].object = queue[k].object /\ Done(k)' = Done(k)
  /\ \A k \in DOMAIN queue' \ DOMAIN queue : ~ Done(k)'

UsedStays == Used' = Used /\ \A o \in Objects : UsedBy(o)' => UsedBy(o)

LEMMA UsedSame ==
  ASSUME TypeOK, JobsStay,
         (pc' = pc /\ cur' = cur) \/ (pc # "release" /\ pc' # "release")
  PROVE  UsedStays
<1>1. pc = "release" => cur \in DOMAIN queue
  BY DEF TypeOK
<1>2. Used' = Used
  BY <1>1 DEF Used, JobsStay
<1>3. \A i \in Used : i \in DOMAIN queue
  BY DEF Used
<1>4. \A i \in Used : queue'[i].object = queue[i].object
  BY <1>3 DEF JobsStay
<1> QED
  BY <1>2, <1>4 DEF UsedStays, UsedBy

(* The job in hand changes its state. *)
LEMMA StateChanges ==
  ASSUME TypeOK, pc # "idle", NEW state,
         \/ queue' = [queue EXCEPT ![cur].state = state]
         \/ queue' = [queue EXCEPT ![cur].state = state, ![cur].after = Len(queue)]
  PROVE  /\ DOMAIN queue' = DOMAIN queue /\ cur \in DOMAIN queue
         /\ \A k \in DOMAIN queue \ {cur} : queue'[k] = queue[k]
         /\ queue'[cur].state = state
         /\ queue'[cur].kind = queue[cur].kind /\ queue'[cur].object = queue[cur].object
<1>1. cur \in DOMAIN queue /\ queue[cur] \in QueueJob
  BY DEF TypeOK
<1>2. DOMAIN queue' = DOMAIN queue /\ \A k \in DOMAIN queue \ {cur} : queue'[k] = queue[k]
  BY <1>1 DEF TypeOK
<1>3. \/ queue'[cur] = [queue[cur] EXCEPT !.state = state]
      \/ queue'[cur] = [queue[cur] EXCEPT !.state = state, !.after = Len(queue)]
  BY <1>1 DEF TypeOK
<1>4. /\ queue'[cur].state = state
      /\ queue'[cur].kind = queue[cur].kind /\ queue'[cur].object = queue[cur].object
  BY <1>1, <1>3 DEF QueueJob
<1> QED
  BY <1>1, <1>2, <1>4

LEMMA JobsStayWithState ==
  ASSUME TypeOK, PodInv, pc # "idle", NEW state,
         \/ queue' = [queue EXCEPT ![cur].state = state]
         \/ queue' = [queue EXCEPT ![cur].state = state, ![cur].after = Len(queue)],
         state # "completed" \/ queue[cur].kind # "job"
  PROVE  JobsStay
<1>1. /\ DOMAIN queue' = DOMAIN queue /\ cur \in DOMAIN queue
      /\ \A k \in DOMAIN queue \ {cur} : queue'[k] = queue[k]
      /\ queue'[cur].state = state
      /\ queue'[cur].kind = queue[cur].kind /\ queue'[cur].object = queue[cur].object
  BY StateChanges, Zenon
<1>2. queue[cur].state # "completed"
  BY DEF PodInv
<1>3. \A k \in DOMAIN queue : k = cur => Done(k)' = Done(k)
  <2> SUFFICES ASSUME NEW k \in DOMAIN queue, k = cur PROVE Done(k)' = Done(k)
    OBVIOUS
  <2>1. queue[k].state # "completed"
    BY <1>2
  <2>2. queue'[k].state = state /\ queue'[k].kind = queue[k].kind
    BY <1>1
  <2>3. state # "completed" \/ queue[k].kind # "job"
    OBVIOUS
  <2> QED
    BY <2>1, <2>2, <2>3 DEF Done
<1>4. \A k \in DOMAIN queue : k # cur => Done(k)' = Done(k)
  BY <1>1 DEF Done
<1>5. \A k \in DOMAIN queue : queue'[k].object = queue[k].object
  BY <1>1
<1> QED
  BY <1>1, <1>3, <1>4, <1>5 DEF JobsStay

-----------------------------------------------------------------------------
(* What keeps an object from being lost. *)

Spared(o) ==
  /\ label'[o] = label[o] /\ (o \in exists') = (o \in exists)
  /\ o \in exists /\ label[o].id = NoId
       => InWork(o)' \/ ((UsedBy(o)' => UsedBy(o)) /\ (InWork(o) => InWork(o)'))
  /\ label[o].id \in Ids \cap Doomed => label[o].id \in (Ids \cap Doomed)'

LEMMA SparedIsNotLost ==
  ASSUME NEW o \in Objects, Spared(o), o \in Lost'
  PROVE  o \in Lost
<1>1. CASE label[o].id = NoId
  <2>1. o \in exists' /\ UsedBy(o)' /\ ~ InWork(o)'
    BY <1>1 DEF Lost, Spared
  <2>2. o \in exists /\ UsedBy(o) /\ ~ InWork(o)
    BY <1>1, <2>1 DEF Spared
  <2> QED
    BY <1>1, <2>2 DEF Lost
<1>2. CASE label[o].id # NoId
  <2>1. o \notin exists' /\ label[o].id \notin (Ids \cap Doomed)'
    BY <1>2 DEF Lost, Spared
  <2>2. o \notin exists /\ label[o].id \notin Ids \cap Doomed
    BY <2>1 DEF Spared
  <2> QED
    BY <1>2, <2>2 DEF Lost
<1> QED
  BY <1>1, <1>2

LEMMA LostAtMost ==
  ASSUME NEW X, \A o \in Objects \ X : Spared(o)
  PROVE  Lost' \subseteq Lost \cup X
<1>1. Lost' \subseteq Objects
  BY DEF Lost
<1> QED
  BY <1>1, SparedIsNotLost

LEMMA StaysInWork ==
  ASSUME TypeOK, NEW o \in Objects,
         \A a \in Allocations : a.object = o /\ Carried(a.id)
            => a \in Allocations' /\ (\A id \in Id : id = a.id => Carried(id)')
  PROVE  InWork(o) => InWork(o)'
<1>1. \A a \in Allocations : a.id \in Id
  BY DEF TypeOK, Allocations, Allocation
<1> SUFFICES ASSUME NEW a \in Allocations, a.object = o, Carried(a.id)
             PROVE  InWork(o)'
  BY DEF InWork
<1>2. a \in Allocations' /\ Carried(a.id)'
  BY <1>1
<1> QED
  BY <1>2 DEF InWork

(* A step that keeps what matters. *)
LEMMA QuietBalance ==
  ASSUME TypeOK, UsedStays, UNCHANGED <<exists, label>>, Allocations' = Allocations,
         Ids \cap Doomed \subseteq (Ids \cap Doomed)',
         \A id \in Id : Carried(id) => Carried(id)',
         faults' \in {faults, faults + 1}
  PROVE  Balance
<1>1. \A o \in Objects : InWork(o) => InWork(o)'
  <2>1. \A a \in Allocations : a.id \in Id
    BY DEF TypeOK, Allocations, Allocation
  <2> QED
    BY <2>1, StaysInWork
<1>2. \A o \in Objects : Spared(o)
  BY <1>1 DEF Spared, UsedStays
<1>3. Lost' \subseteq Lost
  BY <1>2, LostAtMost
<1> QED
  BY <1>3 DEF Balance, UsedStays

LEMMA WorkerQuiet ==
  ASSUME TypeOK, UsedStays,
         UNCHANGED <<exists, label, tasks, task, cancels, cpc, cancel>>,
         Allocations' = Allocations, Ids \subseteq Ids',
         (pc' = pc /\ resp' = resp) \/ (pc # "release" /\ pc' # "release"),
         faults' \in {faults, faults + 1}
  PROVE  Balance
<1>1. Doomed' = Doomed
  BY DEF Doomed
<1>2. \A id \in Id : Carried(id) => Carried(id)'
  BY DEF Carried
<1>3. Ids \cap Doomed \subseteq (Ids \cap Doomed)'
  BY <1>1
<1> QED
  BY <1>2, <1>3, QuietBalance

LEMMA SameAllocations ==
  graph' = graph => Allocations' = Allocations /\ Ids' = Ids
BY DEF Allocations, Reserved, Ids

LEMMA InsertManyBalance ==
  ASSUME TypeOK, QueueInv, NEW batch \in SetOfBatches, InsertMany(batch)
  PROVE  Balance
<1>1. /\ QueueKept
      /\ \A k \in DOMAIN queue : queue'[k] = queue[k]
      /\ \A k \in DOMAIN queue' \ DOMAIN queue : queue'[k].state = "available"
  BY TypeParts, InsertManyKeeps
<1>2. JobsStay
  BY <1>1 DEF JobsStay, QueueKept, Done
<1>3. UNCHANGED <<graph, exists, label, tasks, task, cancels, cpc, cancel, pc, cur, resp,
                  faults>>
  BY DEF InsertMany, workVars, taskVars, cleanVars, fluxionVars, objectVars
<1>4. UsedStays
  BY <1>2, <1>3, UsedSame
<1> QED
  BY <1>3, <1>4, SameAllocations, WorkerQuiet

LEMMA FetchBalance ==
  ASSUME TypeOK, NEW i \in DOMAIN queue, Fetch(i)
  PROVE  Balance
<1>1. queue[i] \in QueueJob /\ queue[i].state = "available"
  BY DEF TypeOK, Fetch
<1>2. queue' = [queue EXCEPT ![i] = [@ EXCEPT !.state = "running", !.attempted = TRUE]]
  BY Zenon DEF Fetch
<1>3. /\ DOMAIN queue' = DOMAIN queue
      /\ \A k \in DOMAIN queue \ {i} : queue'[k] = queue[k]
      /\ queue'[i].object = queue[i].object /\ queue'[i].state = "running"
  BY <1>1, <1>2, Zenon DEF TypeOK, QueueJob
<1>4. \A k \in DOMAIN queue : Done(k)' = Done(k)
  BY <1>1, <1>3 DEF Done
<1>5. JobsStay
  BY <1>3, <1>4 DEF JobsStay
<1>6. UNCHANGED <<graph, exists, label, tasks, task, cancels, cpc, cancel, faults>>
      /\ pc = "idle" /\ pc' # "release"
  BY DEF Fetch, taskVars, cleanVars, fluxionVars, objectVars
<1>7. UsedStays
  BY <1>5, <1>6, UsedSame
<1> QED
  BY <1>6, <1>7, SameAllocations, WorkerQuiet

LEMMA RetryUsed ==
  ASSUME TypeOK, PodInv, pc \notin {"idle", "release"}, Retry
  PROVE  UsedStays /\ pc' # "release"
<1>1. pc # "idle" /\ pc # "release" /\ pc' # "release"
  BY DEF Retry
<1>2. queue' = [queue EXCEPT ![cur].state = "available", ![cur].after = Len(queue)]
  BY DEF Retry
<1>3. "available" # "completed" \/ queue[cur].kind # "job"
  OBVIOUS
<1>4. JobsStay
  BY <1>1, <1>2, <1>3, JobsStayWithState, Zenon
<1> QED
  BY <1>1, <1>4, UsedSame

(* The steps of the default queue's worker that leave allocations alone. *)
LEMMA WorkBalance ==
  ASSUME TypeOK, PodInv,
         ReserveJob \/ MarkUnschedulable \/ GetReservations
  PROVE  Balance
<1>1. /\ UNCHANGED <<graph, exists, label, tasks, task, cancels, cpc, cancel>>
      /\ faults' \in {faults, faults + 1}
  BY DEF ReserveJob, MarkUnschedulable, GetReservations, Fault, taskVars, cleanVars, fluxionVars, objectVars
<1>2. pc \in {"reserve", "reject", "clear"}
  BY DEF ReserveJob, MarkUnschedulable, GetReservations
<1>3. CASE Retry
  BY <1>1, <1>2, <1>3, RetryUsed, SameAllocations, WorkerQuiet
<1>4. CASE Finish("cancelled")
  <2>1. JobsStay
    <3>1. pc # "idle" /\ queue' = [queue EXCEPT ![cur].state = "cancelled"]
      BY <1>2, <1>4 DEF Finish
    <3>2. "cancelled" # "completed" \/ queue[cur].kind # "job"
      OBVIOUS
    <3> QED
      BY <3>1, <3>2, JobsStayWithState, Zenon
  <2>2. UsedStays /\ pc' # "release"
    BY <1>2, <1>4, <2>1, UsedSame DEF Finish
  <2> QED
    BY <1>1, <1>2, <2>2, SameAllocations, WorkerQuiet
<1>5. CASE pc = "clear" /\ Finish("completed")
  <2>1. queue[cur].kind # "job"
    BY <1>5 DEF PodInv
  <2>2. JobsStay
    <3>1. pc # "idle" /\ queue' = [queue EXCEPT ![cur].state = "completed"]
      BY <1>5 DEF Finish
    <3> QED
      BY <2>1, <3>1, JobsStayWithState, Zenon
  <2>3. UsedStays /\ pc' # "release"
    BY <1>5, <2>2, UsedSame DEF Finish
  <2> QED
    BY <1>1, <1>2, <2>3, SameAllocations, WorkerQuiet
<1> QED
  BY <1>3, <1>4, <1>5 DEF ReserveJob, MarkUnschedulable, GetReservations

-----------------------------------------------------------------------------
LEMMA AdmitAllocations ==
  ASSUME TypeOK, NEW o, NEW nodes, NEW reserved \in BOOLEAN, Admit(o, nodes, reserved)
  PROVE  /\ Ids \subseteq Ids'
         /\ reserved => Allocations' = Allocations
         /\ ~ reserved =>
              \E a : /\ Allocations' = Allocations \cup {a}
                     /\ a.id = nextId /\ a.object = o
<1> DEFINE new == [id |-> nextId, object |-> o, nodes |-> nodes, reserved |-> reserved]
<1>1. graph' = graph \cup {new}
  BY DEF Admit
<1>2. new.id = nextId /\ new.object = o /\ new.reserved = reserved
  OBVIOUS
<1> HIDE DEF new
<1>3. Ids \subseteq Ids'
  BY <1>1 DEF Ids
<1>4. reserved => Allocations' = Allocations
  BY <1>1, <1>2, Zenon DEF Allocations, Reserved
<1>5. ~ reserved => Allocations' = Allocations \cup {new}
  BY <1>1, <1>2 DEF Allocations, Reserved
<1> QED
  BY <1>2, <1>3, <1>4, <1>5

LEMMA QueueSame ==
  ASSUME TypeOK, UNCHANGED <<queue, cur>>, pc # "release", pc' # "release"
  PROVE  UsedStays
<1>1. JobsStay
  BY DEF JobsStay, Done
<1> QED
  BY <1>1, UsedSame

(* Match allocates, and the reply is in hand. *)
LEMMA AllocateBalance ==
  ASSUME TypeOK, QueueInv, PodInv, pc = "match", NEW nodes,
         Allocate(queue[cur].object, nodes),
         resp' = [id |-> nextId, nodes |-> nodes], Continue("release"),
         UNCHANGED <<exists, label, tasks, task, cancels, cpc, cancel, faults>>
  PROVE  Balance
<1> DEFINE o == queue[cur].object
<1>1. cur \in DOMAIN queue /\ ~ Done(cur)
  <2>1. cur \in DOMAIN queue
    BY DEF TypeOK
  <2>2. ~ Done(cur)
    BY DEF PodInv, Done
  <2> QED
    BY <2>1, <2>2
<1>2. queue' = queue /\ cur' = cur /\ pc' = "release" /\ resp'.id = nextId
  BY DEF Continue
<1>3. Used' = Used \cup {cur} /\ cur \notin Used
  BY <1>1, <1>2 DEF Used, Done
<1>4. PICK a : Allocations' = Allocations \cup {a} /\ a.id = nextId /\ a.object = o
  BY AdmitAllocations, Zenon DEF Allocate
<1>5. Ids \subseteq Ids' /\ Doomed' = Doomed
  BY AdmitAllocations, Zenon DEF Allocate, Doomed
<1>6. \A id \in Id : Carried(id) => Carried(id)'
  BY <1>2 DEF Carried
<1>7. \A p \in Objects : InWork(p) => InWork(p)'
  BY <1>4, <1>6, StaysInWork
<1>8. \A p \in Objects : p = o => InWork(p)'
  <2>1. Carried(a.id)'
    BY <1>2, <1>4 DEF Carried
  <2> QED
    BY <1>4, <2>1 DEF InWork
<1>9. \A p \in Objects : p # o => (UsedBy(p)' => UsedBy(p))
  BY <1>2, <1>3 DEF UsedBy
<1>10. \A p \in Objects : Spared(p)
  BY <1>5, <1>7, <1>8, <1>9 DEF Spared
<1>11. Lost' \subseteq Lost
  BY <1>10, LostAtMost
<1> QED
  BY <1>3, <1>4, <1>11 DEF Balance

(* The call of Match fails after it allocated. *)
LEMMA FailedMatchBalance ==
  ASSUME TypeOK, PodInv, pc = "match", NEW o, NEW nodes, Allocate(o, nodes), Fault, Retry,
         UNCHANGED <<exists, label, tasks, task, cancels, cpc, cancel>>
  PROVE  Balance
<1>1. UsedStays /\ pc' # "release"
  BY RetryUsed
<1>2. PICK a : Allocations' = Allocations \cup {a}
  BY AdmitAllocations, Zenon DEF Allocate
<1>3. Ids \subseteq Ids' /\ Doomed' = Doomed
  BY AdmitAllocations, Zenon DEF Allocate, Doomed
<1>4. \A id \in Id : Carried(id) => Carried(id)'
  BY <1>1 DEF Carried
<1>5. \A p \in Objects : InWork(p) => InWork(p)'
  BY <1>2, <1>4, StaysInWork
<1>6. \A p \in Objects : Spared(p)
  BY <1>1, <1>3, <1>5 DEF Spared, UsedStays
<1>7. Lost' \subseteq Lost
  BY <1>6, LostAtMost
<1> QED
  BY <1>1, <1>2, <1>7 DEF Balance, UsedStays, Fault

LEMMA MatchBalance ==
  ASSUME TypeOK, QueueInv, PodInv, Match
  PROVE  Balance
<1> DEFINE o == queue[cur].object
<1>1. pc = "match" /\ UNCHANGED <<exists, label, tasks, task, cancels, cpc, cancel>>
  BY DEF Match, objectVars, taskVars, cleanVars
<1>2. ASSUME UsedStays, pc' # "release", faults' \in {faults, faults + 1},
             UNCHANGED fluxionVars \/ Reserve(o)
      PROVE  Balance
  <2>1. Allocations' = Allocations /\ Ids \subseteq Ids'
    BY <1>2, SameAllocations, AdmitAllocations, Zenon DEF Reserve, fluxionVars
  <2> QED
    BY <1>1, <1>2, <2>1, WorkerQuiet
<1>3. ASSUME Retry, faults' \in {faults, faults + 1}, UNCHANGED fluxionVars \/ Reserve(o)
      PROVE  Balance
  BY <1>1, <1>2, <1>3, RetryUsed
<1>4. ASSUME NEW next \in {"reserve", "reject"}, Continue(next), faults' = faults,
             UNCHANGED fluxionVars \/ Reserve(o)
      PROVE  Balance
  <2>1. UsedStays /\ pc' # "release"
    BY <1>1, <1>4, QueueSame DEF Continue
  <2> QED
    BY <1>2, <1>4, <2>1
<1>5. \/ \E nodes \in SUBSET Slots :
           /\ Allocate(o, nodes)
           /\ resp' = [id |-> nextId, nodes |-> nodes]
           /\ Continue("release")
           /\ faults' = faults
      \/ Continue("reserve") /\ faults' = faults /\ Reserve(o)
      \/ Continue("reject") /\ faults' = faults /\ UNCHANGED fluxionVars
      \/ Retry /\ faults' = faults /\ UNCHANGED fluxionVars
      \/ /\ Fault /\ Retry
         /\ \/ UNCHANGED fluxionVars
            \/ \E nodes \in SUBSET Slots : Allocate(o, nodes)
            \/ Reserve(o)
  BY DEF Match
<1>6. Fault => faults' = faults + 1
  BY DEF Fault
<1> QED
  BY <1>1, <1>3, <1>4, <1>5, <1>6, AllocateBalance, FailedMatchBalance

-----------------------------------------------------------------------------
LEMMA UngateBalance ==
  ASSUME TypeOK, QueueInv, NamedIsHeld, UngatePod
  PROVE  Balance
<1> DEFINE o == queue[cur].object
           new == [object |-> o, id |-> resp.id, nodes |-> resp.nodes, attempts |-> 0]
<1>1. /\ pc = "release" /\ pc' = "idle" /\ queue[cur].kind = "job"
      /\ queue' = [queue EXCEPT ![cur].state = "completed"]
  BY DEF UngatePod, Finish, QueueInv
<1>2. UNCHANGED <<graph, exists, label, task, cancels, cpc, cancel>>
  BY DEF UngatePod, taskVars, cleanVars, fluxionVars, objectVars
<1>3. /\ DOMAIN queue' = DOMAIN queue /\ cur \in DOMAIN queue
      /\ \A k \in DOMAIN queue \ {cur} : queue'[k] = queue[k]
      /\ queue'[cur].state = "completed" /\ queue'[cur].kind = "job"
      /\ queue'[cur].object = o
  BY <1>1, StateChanges, Zenon
<1>4. UsedStays
  <2>1. \A k \in DOMAIN queue : Done(k)' = (Done(k) \/ k = cur)
    BY <1>1, <1>3 DEF Done
  <2>2. Used' = Used
    BY <1>1, <1>3, <2>1, Zenon DEF Used
  <2>3. \A k \in DOMAIN queue : queue'[k].object = queue[k].object
    BY <1>3
  <2>4. Used \subseteq DOMAIN queue
    BY DEF Used
  <2> QED
    BY <2>2, <2>3, <2>4 DEF UsedStays, UsedBy
<1>5. Allocations' = Allocations /\ Ids' = Ids /\ Doomed' = Doomed
  BY <1>2, SameAllocations DEF Doomed
<1>6. CASE tasks' = tasks \cup {new} /\ faults' = faults
  <2>1. new.id = resp.id
    OBVIOUS
  <2> HIDE DEF new
  <2>2. \A id \in Id : Carried(id) => Carried(id)'
    BY <1>2, <1>6, <2>1 DEF Carried
  <2> QED
    BY <1>2, <1>4, <1>5, <1>6, <2>2, QuietBalance
<1>7. CASE tasks' = tasks /\ Fault
  <2>1. \A a \in Allocations : a.id = resp.id => a.object = o
    BY <1>1 DEF NamedIsHeld, Held, Allocations
  <2>2. \A id \in Id : id # resp.id /\ Carried(id) => Carried(id)'
    BY <1>2, <1>7 DEF Carried
  <2>3. \A p \in Objects \ {o} : InWork(p) => InWork(p)'
    BY <1>5, <2>1, <2>2, StaysInWork
  <2>4. \A p \in Objects \ {o} : Spared(p)
    BY <1>2, <1>4, <1>5, <2>3 DEF Spared, UsedStays
  <2>5. Lost' \subseteq Lost \cup {o}
    BY <2>4, LostAtMost, Zenon
  <2> QED
    BY <1>4, <1>5, <1>7, <2>5 DEF Balance, UsedStays, Fault
<1> QED
  BY <1>6, <1>7 DEF UngatePod

-----------------------------------------------------------------------------
(* The task queue's worker. *)

LEMMA TaskFrame ==
  ASSUME TypeOK, TaskStep
  PROVE  /\ UsedStays /\ Allocations' = Allocations /\ Ids' = Ids /\ Doomed' = Doomed
         /\ UNCHANGED <<exists, pc, resp>> /\ faults' \in {faults, faults + 1}
<1>1. UNCHANGED <<queue, pc, cur, resp, graph, exists, cancels, cpc, cancel>>
      /\ faults' \in {faults, faults + 1}
  BY DEF TaskStep, TaskFetch, PatchPod, RemoveGate, Fault, workVars, cleanVars,
         fluxionVars, objectVars
<1>2. JobsStay
  BY <1>1 DEF JobsStay, Done
<1>3. UsedStays
  BY <1>1, <1>2, UsedSame
<1> QED
  BY <1>1, <1>3, SameAllocations DEF Doomed

LEMMA TaskFetchBalance ==
  ASSUME TypeOK, NEW t \in tasks, TaskFetch(t)
  PROVE  Balance
<1>1. /\ UsedStays /\ Allocations' = Allocations /\ Ids' = Ids /\ Doomed' = Doomed
      /\ UNCHANGED <<exists, pc, resp>> /\ faults' \in {faults, faults + 1}
  BY TaskFrame DEF TaskStep
<1>2. label' = label /\ task = NoTask /\ tasks' = tasks \ {t}
  BY DEF TaskFetch, TypeOK, objectVars
<1>3. task'.id = t.id
  <2>1. t \in Task
    BY DEF TypeOK
  <2> QED
    BY <2>1 DEF TaskFetch, Task
<1>4. \A id \in Id : id # NoId
  BY ConstantsAssumption DEF Id, NoId
<1>5. task.id = NoId
  BY <1>2 DEF NoTask
<1>6. \A id \in Id : Carried(id) => Carried(id)'
  BY <1>1, <1>2, <1>3, <1>4, <1>5 DEF Carried
<1> QED
  BY <1>1, <1>2, <1>6, QuietBalance

(* A task that is given up concerns its own object only. *)
LEMMA TaskSpares ==
  ASSUME TypeOK, NamedIsHeld, TaskStep, tpc # "idle",
         \A t \in tasks : t \in tasks', NEW p \in Objects,
         label'[p] = label[p],
         p # task.object \/ p \notin exists \/ label[p].id # NoId
  PROVE  Spared(p)
<1>1. /\ UsedStays /\ Allocations' = Allocations /\ Ids' = Ids /\ Doomed' = Doomed
      /\ UNCHANGED <<exists, pc, resp>>
  BY TaskFrame
<1>2. \A a \in Allocations : a.id = task.id => a.object = task.object
  BY DEF NamedIsHeld, Held, Allocations
<1>3. \A id \in Id : id # task.id /\ Carried(id) => Carried(id)'
  BY <1>1 DEF Carried
<1>4. p # task.object => (InWork(p) => InWork(p)')
  BY <1>1, <1>2, <1>3, StaysInWork, Zenon
<1> QED
  BY <1>1, <1>4 DEF Spared, UsedStays

LEMMA TaskRetryKeeps == TaskRetry => tasks \subseteq tasks'
BY DEF TaskRetry

LEMMA PatchBalance ==
  ASSUME TypeOK, NamedIsHeld, PatchPod
  PROVE  Balance
<1> DEFINE o == task.object
<1>1. /\ UsedStays /\ Allocations' = Allocations /\ exists' = exists
      /\ faults' \in {faults, faults + 1}
  BY TaskFrame DEF TaskStep
<1>2. tpc # "idle" /\ TaskStep /\ tasks \subseteq tasks'
  BY TaskRetryKeeps DEF PatchPod, TaskStep
<1>3. o \in Objects /\ task.id # NoId
  BY <1>2, ConstantsAssumption DEF TypeOK, Task, Id, NoId
<1>4. \A p \in Objects \ {o} : label'[p] = label[p]
  BY DEF PatchPod, LabelPod, TypeOK
<1>5. \A p \in Objects \ {o} : Spared(p)
  BY <1>2, <1>4, TaskSpares
<1>6. Lost' \subseteq Lost \cup {o}
  BY <1>5, LostAtMost, Zenon
<1>7. CASE LabelPod /\ faults' = faults
  <2>1. o \in exists' /\ label'[o].id = task.id
    BY <1>1, <1>3, <1>7 DEF LabelPod, TypeOK
  <2>2. \A p \in Objects : p = o => p \notin Lost'
    BY <1>3, <2>1 DEF Lost
  <2>3. Lost' \subseteq Lost
    BY <1>3, <1>6, <2>2
  <2> QED
    BY <1>1, <2>3 DEF Balance, UsedStays
<1>8. CASE o \notin exists /\ label' = label
  <2>1. \A p \in Objects : Spared(p)
    BY <1>2, <1>5, <1>8, TaskSpares
  <2>2. Lost' \subseteq Lost
    BY <2>1, LostAtMost
  <2> QED
    BY <1>1, <2>2 DEF Balance, UsedStays
<1>9. CASE Fault
  BY <1>1, <1>6, <1>9 DEF Balance, UsedStays, Fault
<1> QED
  BY <1>7, <1>8, <1>9 DEF PatchPod

LEMMA RemoveGateBalance ==
  ASSUME TypeOK, NamedIsHeld, PodInv, RemoveGate
  PROVE  Balance
<1>1. /\ UsedStays /\ Allocations' = Allocations /\ faults' \in {faults, faults + 1}
  BY TaskFrame DEF TaskStep
<1>2. tpc = "ungate" /\ TaskStep /\ tasks \subseteq tasks' /\ label' = label
  BY TaskRetryKeeps DEF RemoveGate, TaskStep
<1>3. label[task.object].id # NoId
  BY <1>2 DEF PodInv
<1>4. \A p \in Objects : Spared(p)
  BY <1>2, <1>3, TaskSpares
<1>5. Lost' \subseteq Lost
  BY <1>4, LostAtMost
<1> QED
  BY <1>1, <1>5 DEF Balance, UsedStays

-----------------------------------------------------------------------------
(* The cleanup queue's worker. *)

LEMMA CleanupFrame ==
  ASSUME TypeOK, CleanupStep \/ \E o \in Objects : Bind(o) \/ DeletePod(o) \/ DeleteObject(o)
  PROVE  /\ UsedStays
         /\ \A id \in Id : Carried(id) => Carried(id)'
         /\ label' = label
<1>1. UNCHANGED <<queue, pc, cur, resp, tasks, task, label>>
  BY DEF CleanupStep, CleanupFetch, DeleteFluxion, Bind, DeletePod, DeleteObject, workVars,
         taskVars, objectVars
<1>2. JobsStay
  BY <1>1 DEF JobsStay, Done
<1>3. UsedStays
  BY <1>1, <1>2, UsedSame
<1> QED
  BY <1>1, <1>3 DEF Carried

LEMMA CleanupFetchBalance ==
  ASSUME TypeOK, NEW i \in DOMAIN cancels, CleanupFetch(i)
  PROVE  Balance
<1>1. UsedStays /\ (\A id \in Id : Carried(id) => Carried(id)') /\ label' = label
  BY CleanupFrame DEF CleanupStep
<1>2. UNCHANGED <<graph, exists, faults>> /\ cpc = "idle" /\ cpc' = "cancel"
      /\ cancels' = RemoveAt(cancels, i)
  BY DEF CleanupFetch, fluxionVars, objectVars
<1>3. cancel'.id = cancels[i].id
  <2>1. cancels[i] \in CancelJob
    BY DEF TypeOK
  <2> QED
    BY <2>1 DEF CleanupFetch, CancelJob
<1>4. \A m \in DOMAIN cancels \ {i} : \E k \in DOMAIN cancels' : cancels'[k] = cancels[m]
  <2>1. cancels \in Seq(CancelJob) /\ i \in DOMAIN cancels
    BY DEF TypeOK, CleanupFetch
  <2> QED
    BY <1>2, <2>1, RemoveAtType, Zenon
<1>5. Doomed \subseteq Doomed'
  BY <1>2, <1>3, <1>4 DEF Doomed
<1>6. Allocations' = Allocations /\ Ids' = Ids
  BY <1>2, SameAllocations
<1> QED
  BY <1>1, <1>2, <1>5, <1>6, QuietBalance

LEMMA DeleteFluxionBalance ==
  ASSUME TypeOK, NamedIsHeld, HandInv, PodInv, DeleteFluxion
  PROVE  Balance
<1>1. UsedStays /\ (\A id \in Id : Carried(id) => Carried(id)') /\ label' = label
  BY CleanupFrame DEF CleanupStep
<1>2. /\ exists' = exists /\ cpc = "cancel" /\ cpc' = "idle"
      /\ faults' \in {faults, faults + 1}
  BY DEF DeleteFluxion, objectVars, Fault
<1>3. cancel.id \in Doomed /\ cancel.id \in Id
  BY <1>2 DEF Doomed, TypeOK, CancelJob
<1>4. Doomed \ {cancel.id} \subseteq Doomed'
  <2>1. \A k \in DOMAIN cancels : k \in DOMAIN cancels' /\ cancels'[k] = cancels[k]
    <3>1. cancels \in Seq(CancelJob) /\ cancel \in CancelJob
      BY <1>2 DEF TypeOK
    <3>2. cancels' = cancels \/ cancels' = Append(cancels, cancel)
      BY DEF DeleteFluxion, CleanupRetry
    <3> QED
      BY <3>1, <3>2
  <2> QED
    BY <1>2, <2>1 DEF Doomed
<1>5. CASE cancel.id \notin Ids
  <2>1. UNCHANGED fluxionVars
    BY <1>5 DEF DeleteFluxion, CancelId
  <2>2. Allocations' = Allocations /\ Ids' = Ids
    BY <2>1, SameAllocations DEF fluxionVars
  <2>3. Ids \cap Doomed \subseteq (Ids \cap Doomed)'
    BY <1>4, <1>5, <2>2
  <2> QED
    BY <1>1, <1>2, <2>2, <2>3, QuietBalance
<1>6. CASE cancel.id \in Ids
  <2>1. PICK a \in graph : a.id = cancel.id
    BY <1>6 DEF Ids
  <2>2. a \in Allocations /\ \A b \in graph : b.id = cancel.id => b = a
    BY <1>3, <2>1 DEF HandInv, PodInv, Allocations, Reserved
  <2>3. \A b \in graph : b # a => b \in graph'
    BY <2>2 DEF DeleteFluxion, CancelId, fluxionVars
  <2>4. Allocations' \subseteq Allocations /\ (Allocations \ {a}) \subseteq Allocations'
    <3>1. graph' \subseteq graph
      BY DEF DeleteFluxion, CancelId, fluxionVars
    <3> QED
      BY <2>3, <3>1 DEF Allocations, Reserved
  <2>5. ASSUME NEW p \in Objects \ {a.object} PROVE Spared(p)
    <3>1. InWork(p) => InWork(p)'
      <4>1. \A b \in Allocations : b.object = p => b \in Allocations'
        BY <2>4
      <4> QED
        BY <1>1, <4>1, StaysInWork
    <3>2. label[p].id \in Ids \cap Doomed => label[p].id \in (Ids \cap Doomed)'
      <4> SUFFICES ASSUME label[p].id \in Ids \cap Doomed
                   PROVE  label[p].id \in (Ids \cap Doomed)'
        OBVIOUS
      <4>1. PICK b \in graph : b.id = label[p].id
        BY DEF Ids
      <4>2. label[p] # Unlabelled
        <5>1. b.id # NoId
          BY ConstantsAssumption DEF TypeOK, Allocation, Id, NoId
        <5>2. Unlabelled.id = NoId
          BY DEF Unlabelled
        <5> QED
          BY <4>1, <5>1, <5>2, Zenon
      <4>3. b.object = p
        <5>1. Held(p, label[p].id, label[p].nodes)
          BY <4>2 DEF NamedIsHeld
        <5> QED
          BY <4>1, <5>1, Zenon DEF Held
      <4>4. b # a /\ b \in graph' /\ b.id # cancel.id
        BY <2>2, <2>3, <4>3, Zenon
      <4>5. label[p].id \in Ids'
        BY <4>1, <4>4, Zenon DEF Ids
      <4> QED
        BY <1>4, <4>1, <4>4, <4>5
    <3> QED
      BY <1>1, <1>2, <3>1, <3>2 DEF Spared, UsedStays
  <2>6. Lost' \subseteq Lost \cup {a.object}
    BY <2>5, LostAtMost, Zenon
  <2>7. CASE faults' = faults + 1
    BY <1>1, <2>4, <2>6, <2>7 DEF Balance, UsedStays
  <2>8. CASE CancelId(cancel.id) /\ faults' = faults
    <3>1. a \notin graph'
      BY <2>1, <2>8 DEF CancelId
    <3>2. Allocations' \subseteq Allocations \ {a}
      BY <2>4, <3>1 DEF Allocations
    <3> QED
      BY <1>1, <2>2, <2>6, <2>8, <3>2 DEF Balance, UsedStays
  <2> QED
    BY <1>6, <2>7, <2>8 DEF DeleteFluxion, Fault
<1> QED
  BY <1>5, <1>6

-----------------------------------------------------------------------------
(* Pods come and go. *)

LEMMA LabelledIsAllocated ==
  ASSUME TypeOK, NamedIsHeld, BoundInv, BatchJobs = {}, NEW o \in exists,
         label[o].id # NoId
  PROVE  \E a \in Allocations : a.object = o /\ a.id = label[o].id
<1>1. o \in Objects /\ label[o] # Unlabelled
  BY DEF TypeOK, Unlabelled
<1>2. Held(o, label[o].id, label[o].nodes) /\ Whole(o)
  BY <1>1, PodIsWhole DEF NamedIsHeld
<1> QED
  BY <1>2 DEF Held, Allocations, Reserved

LEMMA BindBalance ==
  ASSUME TypeOK, NEW o \in Objects, Bind(o)
  PROVE  Balance
<1>1. UsedStays /\ (\A id \in Id : Carried(id) => Carried(id)') /\ label' = label
  BY CleanupFrame
<1>2. UNCHANGED <<graph, exists, faults, cancels, cpc, cancel>>
  BY Zenon DEF Bind, fluxionVars, cleanVars
<1>3. Allocations' = Allocations /\ Ids' = Ids /\ Doomed' = Doomed
  BY <1>2, SameAllocations DEF Doomed
<1> QED
  BY <1>1, <1>2, <1>3, QuietBalance

LEMMA DeletionBalance ==
  ASSUME TypeOK, NamedIsHeld, BoundInv, PodInv, BatchJobs = {}, NEW o \in Objects,
         DeletePod(o) \/ DeleteObject(o)
  PROVE  Balance
<1>1. UsedStays /\ (\A id \in Id : Carried(id) => Carried(id)') /\ label' = label
  BY CleanupFrame
<1>2. UNCHANGED <<graph, cpc, cancel>>
  BY DEF DeletePod, DeleteObject, fluxionVars, cleanVars
<1>3. Allocations' = Allocations /\ Ids' = Ids
  BY <1>2, SameAllocations
<1>4. o \in exists /\ exists' = exists \ {o} /\ Cleanup(label[o].id)
  BY DeletedPod
<1> DEFINE c == [id |-> label[o].id, attempts |-> 0]
<1>5. cancels \in Seq(CancelJob) /\ (label[o].id # NoId => c \in CancelJob)
  BY DEF TypeOK, Label, CancelJob
<1>6. c.id = label[o].id
  OBVIOUS
<1>7. \/ label[o].id = NoId /\ cancels' = cancels /\ faults' = faults
      \/ label[o].id # NoId /\ cancels' = Append(cancels, c) /\ faults' = faults
      \/ cancels' = cancels /\ faults' = faults + 1
  BY <1>4 DEF Cleanup, Fault
<1> HIDE DEF c
<1>8. cancels' = Append(cancels, c) /\ label[o].id # NoId
        => /\ \A k \in DOMAIN cancels : k \in DOMAIN cancels' /\ cancels'[k] = cancels[k]
           /\ \E k \in DOMAIN cancels' : cancels'[k] = c
  <2> SUFFICES ASSUME cancels' = Append(cancels, c), c \in CancelJob
               PROVE  /\ \A k \in DOMAIN cancels :
                            k \in DOMAIN cancels' /\ cancels'[k] = cancels[k]
                      /\ \E k \in DOMAIN cancels' : cancels'[k] = c
    BY <1>5
  <2>1. Len(cancels) + 1 \in DOMAIN cancels' /\ cancels'[Len(cancels) + 1] = c
    BY <1>5
  <2> QED
    BY <1>5, <2>1
<1>9. Doomed \subseteq Doomed'
  BY <1>2, <1>7, <1>8 DEF Doomed
<1>10. \A p \in Objects \ {o} : InWork(p) => InWork(p)'
  BY <1>1, <1>3, StaysInWork
<1>11. \A p \in Objects \ {o} : Spared(p)
  BY <1>1, <1>3, <1>4, <1>9, <1>10 DEF Spared, UsedStays
<1>12. Lost' \subseteq Lost \cup {o}
  BY <1>11, LostAtMost, Zenon
<1>13. CASE faults' = faults + 1
  BY <1>1, <1>3, <1>12, <1>13 DEF Balance, UsedStays
<1>14. CASE faults' = faults
  <2>1. o \notin Lost'
    <3>1. CASE label[o].id = NoId
      BY <1>1, <1>4, <3>1 DEF Lost
    <3>2. CASE label[o].id # NoId
      <4>1. label[o].id \in Ids
        BY <1>4, <3>2, LabelledIsAllocated DEF Ids, Allocations
      <4>2. cancels' = Append(cancels, c)
        BY <1>7, <1>14, <3>2 DEF TypeOK
      <4>3. label[o].id \in Doomed'
        BY <1>6, <1>8, <3>2, <4>2 DEF Doomed
      <4> QED
        BY <1>1, <1>3, <3>2, <4>1, <4>3 DEF Lost
    <3> QED
      BY <3>1, <3>2
  <2>2. Lost' \subseteq Lost
    BY <1>12, <2>1
  <2> QED
    BY <1>1, <1>3, <1>14, <2>2 DEF Balance, UsedStays
<1> QED
  BY <1>7, <1>13, <1>14

LEMMA StutterBalance == TypeOK /\ UNCHANGED vars => Balance
<1> SUFFICES ASSUME TypeOK, UNCHANGED vars PROVE Balance
  OBVIOUS
<1>1. Allocations' = Allocations /\ Lost' = Lost /\ Used' = Used /\ faults' = faults
  BY DEF vars, Allocations, Reserved, Lost, UsedBy, InWork, Carried, Ids, Doomed, Used, Done
<1> QED
  BY <1>1 DEF Balance

LEMMA StepBalance ==
  ASSUME TypeOK, QueueInv, AllocInv, HandInv, PodInv, BatchJobs = {}, [Next]_vars
  PROVE  Balance
<1>1. NamedIsHeld /\ MarksInv /\ BoundInv
  BY DEF AllocInv
<1>2. ~ UnsuspendJob
  BY DEF UnsuspendJob
<1>3. WorkStep => Balance
  BY <1>1, <1>2, MatchBalance, WorkBalance, UngateBalance DEF WorkStep
<1>4. TaskStep => Balance
  BY <1>1, TaskFetchBalance, PatchBalance, RemoveGateBalance DEF TaskStep
<1>5. CleanupStep => Balance
  BY <1>1, CleanupFetchBalance, DeleteFluxionBalance DEF CleanupStep
<1> QED
  BY <1>1, <1>3, <1>4, <1>5, InsertManyBalance, FetchBalance, BindBalance, DeletionBalance,
     StutterBalance DEF Next, Deletion

-----------------------------------------------------------------------------
(* From the balance to the bound: a used job that is not a repeat is the     *)
(* first of its object, and that object is an orphan, lost, or has an        *)
(* allocation that is accounted for.                                         *)

Leaks == {a \in Allocations : ~ Accounted(a)}

UsedObjects == {queue[i].object : i \in Used}

Secured == {a.object : a \in Allocations \ Leaks}

LEMMA FirstUses ==
  ASSUME TypeOK, QueueInv, IsFiniteSet(graph)
  PROVE  /\ IsFiniteSet(UsedObjects) /\ IsFiniteSet(Repeats)
         /\ Cardinality(Used) <= Cardinality(Repeats) + Cardinality(UsedObjects)
<1> DEFINE First == Used \ Repeats
           f == [i \in First |-> queue[i].object]
<1>1. DOMAIN queue = 1 .. Len(queue) /\ IsFiniteSet(1 .. Len(queue))
  BY FS_Interval DEF TypeOK
<1>2. IsFiniteSet(Repeats) /\ IsFiniteSet(Used)
  BY <1>1, FS_Subset, Zenon DEF Repeats, Used
<1>3. IsFiniteSet(UsedObjects)
  <2>1. UsedObjects \subseteq Objects
    <3>1. \A i \in Used : i \in DOMAIN queue /\ queue[i].kind = "job"
      BY Zenon DEF Used, Done, QueueInv, TypeOK
    <3> QED
      BY <3>1 DEF UsedObjects, QueueInv
  <2> QED
    BY <2>1, ConstantsAssumption, FS_Subset
<1>4. \A i \in Used : i \in 1 .. Len(queue) /\ queue[i].kind = "job"
  BY <1>1 DEF Used, Done, QueueInv
<1>5. \A i, k \in First : queue[i].object = queue[k].object => i = k
  <2> SUFFICES ASSUME NEW i \in First, NEW k \in First, queue[i].object = queue[k].object,
                      k < i
               PROVE  FALSE
    BY <1>4
  <2>1. k \in 1 .. i - 1 /\ i \in DOMAIN queue /\ queue[i].kind = "job"
    BY <1>1, <1>4
  <2> QED
    BY <2>1 DEF Repeats
<1>6. f \in Injection(First, UsedObjects)
  BY <1>5 DEF Injection, IsInjective, UsedObjects
<1>7. IsFiniteSet(First) /\ Cardinality(First) <= Cardinality(UsedObjects)
  <2> HIDE DEF f, First
  <2> QED
    BY <1>3, <1>6, FS_Injection
<1>8. Cardinality(Used) <= Cardinality(Repeats) + Cardinality(First)
  <2>1. Used \subseteq Repeats \cup First
    OBVIOUS
  <2> HIDE DEF First
  <2> QED
    BY <1>2, <1>7, <2>1, UnionSize, Zenon
<1>9. /\ Cardinality(Used) \in Nat /\ Cardinality(First) \in Nat
      /\ Cardinality(Repeats) \in Nat /\ Cardinality(UsedObjects) \in Nat
  BY <1>2, <1>3, <1>7, FS_CardinalityType
<1> QED
  BY <1>2, <1>3, <1>7, <1>8, <1>9

LEMMA SecuredCount ==
  ASSUME TypeOK, IsFiniteSet(graph)
  PROVE  /\ IsFiniteSet(Secured) /\ IsFiniteSet(Leaks)
         /\ Cardinality(Leaks) + Cardinality(Secured) <= Cardinality(Allocations)
<1> DEFINE Safe == Allocations \ Leaks
           f == [a \in Safe |-> a.object]
<1>1. IsFiniteSet(Allocations)
  BY FS_Subset DEF Allocations
<1>2. IsFiniteSet(Leaks) /\ IsFiniteSet(Safe) /\ Leaks \subseteq Allocations
  BY <1>1, FS_Subset DEF Leaks
<1>3. f \in Surjection(Safe, Secured)
  BY DEF Surjection, Secured
<1>4. IsFiniteSet(Secured) /\ Cardinality(Secured) <= Cardinality(Safe)
  <2> HIDE DEF f, Safe
  <2> QED
    BY <1>2, <1>3, FS_Surjection
<1>5. Cardinality(Safe) = Cardinality(Allocations) - Cardinality(Leaks)
  <2>1. Allocations \cap Leaks = Leaks
    BY <1>2
  <2> QED
    BY <1>1, <2>1, FS_Difference
<1>6. /\ Cardinality(Safe) \in Nat /\ Cardinality(Allocations) \in Nat
      /\ Cardinality(Leaks) \in Nat /\ Cardinality(Secured) \in Nat
  BY <1>1, <1>2, <1>4, FS_CardinalityType
<1> QED
  BY <1>2, <1>4, <1>5, <1>6

LEMMA UsedIsAccounted ==
  ASSUME TypeOK, QueueInv, NamedIsHeld, BoundInv, BatchJobs = {}
  PROVE  UsedObjects \subseteq Lost \cup (Orphans \cup Secured)
<1> SUFFICES ASSUME NEW o \in UsedObjects, o \notin Lost, o \notin Orphans
             PROVE  o \in Secured
  OBVIOUS
<1>1. o \in Objects /\ UsedBy(o)
  BY Zenon DEF UsedObjects, UsedBy, Used, Done, QueueInv, TypeOK
<1>2. SUFFICES \E a \in Allocations : a.object = o /\ Accounted(a)
  BY Zenon DEF Secured, Leaks
<1>3. CASE label[o].id = NoId
  <2>1. InWork(o)
    BY <1>1, <1>3 DEF Lost, Orphans
  <2> QED
    BY <2>1, Zenon DEF InWork, Carried, Accounted
<1>4. CASE label[o].id # NoId /\ o \in exists
  <2>1. PICK a \in Allocations : a.object = o /\ a.id = label[o].id
    BY <1>4, LabelledIsAllocated
  <2> QED
    BY <1>4, <2>1 DEF Accounted
<1>5. CASE label[o].id # NoId /\ o \notin exists
  <2>1. label[o].id \in Ids /\ label[o].id \in Doomed
    BY <1>1, <1>5 DEF Lost
  <2>2. PICK a \in graph : a.id = label[o].id
    BY <2>1 DEF Ids
  <2>3. Held(o, label[o].id, label[o].nodes)
    <3>1. Unlabelled.id = NoId
      BY DEF Unlabelled
    <3> QED
      BY <1>1, <1>5, <3>1, Zenon DEF NamedIsHeld
  <2>4. a.object = o /\ a \in Allocations
    BY <2>2, <2>3 DEF Held, Allocations, Reserved
  <2>5. Accounted(a)
    BY <2>1, <2>2, Zenon DEF Accounted, Doomed
  <2> QED
    BY <2>4, <2>5
<1> QED
  BY <1>3, <1>4, <1>5

LEMMA BalanceExplains ==
  ASSUME TypeOK, QueueInv, AllocInv, PodInv, LeakInv, BatchJobs = {}
  PROVE  LeaksAreExplained
<1>1. IsFiniteSet(graph) /\ NamedIsHeld /\ BoundInv
  BY DEF PodInv, AllocInv
<1>2. IsFiniteSet(Allocations) /\ IsFiniteSet(Lost) /\ IsFiniteSet(Used)
  BY <1>1, FiniteParts
<1>3. IsFiniteSet(Orphans)
  BY ConstantsAssumption, FS_Subset DEF Orphans
<1>4. /\ IsFiniteSet(UsedObjects) /\ IsFiniteSet(Repeats)
      /\ Cardinality(Used) <= Cardinality(Repeats) + Cardinality(UsedObjects)
  BY <1>1, FirstUses
<1>5. /\ IsFiniteSet(Secured) /\ IsFiniteSet(Leaks)
      /\ Cardinality(Leaks) + Cardinality(Secured) <= Cardinality(Allocations)
  BY <1>1, SecuredCount
<1>6. IsFiniteSet(Orphans \cup Secured)
      /\ Cardinality(Orphans \cup Secured) <= Cardinality(Orphans) + Cardinality(Secured)
  BY <1>3, <1>5, UnionSize, Zenon
<1>7. Cardinality(UsedObjects) <= Cardinality(Lost) + Cardinality(Orphans \cup Secured)
  BY <1>1, <1>2, <1>4, <1>6, UsedIsAccounted, UnionSize, Zenon
<1>8. /\ Cardinality(Allocations) \in Nat /\ Cardinality(Lost) \in Nat
      /\ Cardinality(Used) \in Nat /\ Cardinality(Orphans) \in Nat
      /\ Cardinality(UsedObjects) \in Nat /\ Cardinality(Repeats) \in Nat
      /\ Cardinality(Secured) \in Nat /\ Cardinality(Leaks) \in Nat
      /\ Cardinality(Orphans \cup Secured) \in Nat /\ faults \in Nat
  BY <1>2, <1>3, <1>4, <1>5, <1>6, FS_CardinalityType DEF TypeOK
<1>9. Cardinality(Allocations) + Cardinality(Lost) <= faults + Cardinality(Used)
  BY DEF LeakInv
<1>10. Cardinality(Leaks) <= faults + Cardinality(Orphans) + Cardinality(Repeats)
  BY <1>4, <1>5, <1>6, <1>7, <1>8, <1>9
<1> QED
  BY <1>10 DEF LeaksAreExplained, Leaks, Allocations

(* While only single pods are scheduled, the allocations that nobody will    *)
(* cancel are at most one for each failed call, for each pod deleted before  *)
(* it was labelled and for each job that was sent again: no interleaving of  *)
(* the workers, retries and deletions leaks an allocation otherwise.         *)
THEOREM EveryLeakHasACause ==
  ASSUME BatchJobs = {}
  PROVE  Spec => []LeaksAreExplained
<1> DEFINE I == TypeOK /\ QueueInv /\ OrderInv /\ AllocInv /\ ReservationInv
                /\ PodInv /\ LeakInv
<1>1. Init => I
  <2> SUFFICES ASSUME Init PROVE PodInv /\ LeakInv
    BY InitInv, InitAlloc, InitReservations
  <2>1. graph = {} /\ queue = << >> /\ faults = 0 /\ pc = "idle" /\ tpc = "idle"
        /\ \A o \in Objects : bound[o] = {} /\ label[o].id = NoId
    BY DEF Init, Unlabelled
  <2>2. Allocations = {} /\ Used = {} /\ Lost = {}
    BY <2>1 DEF Allocations, Used, Lost, UsedBy
  <2>3. IsFiniteSet({}) /\ Cardinality({}) = 0
    BY FS_EmptySet
  <2>4. LeakInv
    BY <2>1, <2>2, <2>3 DEF LeakInv
  <2>5. PodInv
    BY <2>1, <2>3 DEF PodInv
  <2> QED
    BY <2>4, <2>5
<1>2. I /\ [Next]_vars => I'
  <2> SUFFICES ASSUME I, [Next]_vars PROVE PodInv' /\ LeakInv'
    BY NextTypes, NextAlloc, NextReservations
  <2>1. TypeOK' /\ PodInv'
    BY NextTypes, NextPods
  <2>2. Balance
    BY StepBalance DEF ReservationInv
  <2> QED
    BY <2>1, <2>2, BalanceKept, Zenon DEF PodInv
<1>3. I => LeaksAreExplained
  BY BalanceExplains
<1> QED
  BY <1>1, <1>2, <1>3, PTL DEF Spec
=============================================================================
