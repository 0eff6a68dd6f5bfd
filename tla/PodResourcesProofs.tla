-------------------------- MODULE PodResourcesProofs --------------------------
(***************************************************************************)
(* Proofs about PodResources, for every pod and resource: podRequests is   *)
(* the most the pod asks for at one time, the jobspec covers it up to the  *)
(* pod's extras, and it is within podLimits where every container's        *)
(* requests are within its own.                                            *)
(*                                                                         *)
(* The loops of the code are functions from their turns, so that what they *)
(* compute is proved by induction: the sums of resource lists and the walk *)
(* over a pod's init containers.                                           *)
(***************************************************************************)
EXTENDS PodResources, SequenceTheorems, WellFoundedInduction, TLAPS

-----------------------------------------------------------------------------
(* Induction over the natural numbers, stated for sets: a set with 0 and the *)
(* successor of each of its members has every number.  The least number      *)
(* outside it would have a predecessor inside.                               *)

Below == {e \in Nat \X Nat : e[1] < e[2]}

LEMMA BelowIsWellFounded == IsWellFoundedOn(Below, Nat)
<1>1. OpToRel(<, Nat) = Below
  BY Zenon DEF Below, OpToRel
<1> QED
  BY <1>1, NatLessThanWellFounded, Zenon

LEMMA SetInduction ==
  ASSUME NEW S, 0 \in S, \A n \in Nat : n \in S => n + 1 \in S
  PROVE  \A n \in Nat : n \in S
<1> DEFINE T == Nat \ S
<1>1. SUFFICES ASSUME T # {} PROVE FALSE
  OBVIOUS
<1>2. PICK x \in T : \A y \in T : ~ (<<y, x>> \in Below)
  <2>1. T \subseteq Nat
    OBVIOUS
  <2> QED BY <1>1, <2>1, BelowIsWellFounded, WFMin, Zenon
<1>3. x - 1 \in T
  BY <1>2
<1>4. <<x - 1, x>> \in Below
  BY <1>3 DEF Below
<1> QED BY <1>2, <1>3, <1>4

-----------------------------------------------------------------------------
(* The loops.  The value of a loop's function at a turn is what its body     *)
(* makes of the value before.                                                *)

LEMMA SumsDefined ==
  ASSUME NEW numbers, Len(numbers) \in Nat
  PROVE  Sums(numbers) =
           [i \in 0 .. Len(numbers) |->
              IF i = 0 THEN 0 ELSE Sums(numbers)[i - 1] + numbers[i]]
<1> DEFINE Is(g, k) ==
      g = [i \in 0 .. k |->
             IF i = 0 THEN 0 ELSE g[i - 1] + numbers[i]]
<1> DEFINE S == {k \in Nat : \E g : Is(g, k)}
<1>1. 0 \in S
  <2> DEFINE g == [i \in 0 .. 0 |-> 0]
  <2>1. Is(g, 0)
    OBVIOUS
  <2> QED BY <2>1, Zenon
<1>2. ASSUME NEW k \in Nat, k \in S PROVE k + 1 \in S
  <2>1. PICK g : Is(g, k)
    BY <1>2
  <2> DEFINE h == [i \in 0 .. k + 1 |->
                     IF i = k + 1 THEN g[k] + numbers[k + 1]
                     ELSE g[i]]
  <2>2. \A i \in 0 .. k :
           g[i] = IF i = 0 THEN 0 ELSE g[i - 1] + numbers[i]
    BY <2>1, Zenon
  <2>3. \A i \in 0 .. k + 1 :
           h[i] = IF i = 0 THEN 0 ELSE h[i - 1] + numbers[i]
    <3> TAKE i \in 0 .. k + 1
    <3>1. CASE i = 0
      BY <2>2, <3>1
    <3>2. CASE i \in 1 .. k
      BY <2>2, <3>2
    <3>3. CASE i = k + 1
      BY <3>3
    <3> QED BY <3>1, <3>2, <3>3
  <2> HIDE DEF h
  <2>4. h = [i \in 0 .. k + 1 |-> h[i]]
    BY DEF h
  <2>5. Is(h, k + 1)
    BY <2>3, <2>4
  <2> HIDE DEF Is
  <2> QED BY <2>5
<1>3. \E g : Is(g, Len(numbers))
  <2> HIDE DEF Is
  <2>1. \A k \in Nat : k \in S
    BY <1>1, <1>2, SetInduction, Zenon
  <2> QED BY <2>1
<1> QED BY <1>3, Zenon DEF Sums

LEMMA TotalsDefined ==
  ASSUME NEW lists, Len(lists) \in Nat
  PROVE  Totals(lists) =
           [i \in 0 .. Len(lists) |->
              IF i = 0 THEN Empty
              ELSE addResourceList(Totals(lists)[i - 1], lists[i])]
<1> DEFINE Is(g, k) ==
      g = [i \in 0 .. k |->
             IF i = 0 THEN Empty ELSE addResourceList(g[i - 1], lists[i])]
<1> DEFINE S == {k \in Nat : \E g : Is(g, k)}
<1>1. 0 \in S
  <2> DEFINE g == [i \in 0 .. 0 |-> Empty]
  <2>1. Is(g, 0)
    OBVIOUS
  <2> QED BY <2>1, Zenon
<1>2. ASSUME NEW k \in Nat, k \in S PROVE k + 1 \in S
  <2>1. PICK g : Is(g, k)
    BY <1>2
  <2> DEFINE h == [i \in 0 .. k + 1 |->
                     IF i = k + 1 THEN addResourceList(g[k], lists[k + 1])
                     ELSE g[i]]
  <2>2. \A i \in 0 .. k :
           g[i] = IF i = 0 THEN Empty ELSE addResourceList(g[i - 1], lists[i])
    BY <2>1, Zenon
  <2>3. \A i \in 0 .. k + 1 :
           h[i] = IF i = 0 THEN Empty ELSE addResourceList(h[i - 1], lists[i])
    <3> TAKE i \in 0 .. k + 1
    <3>1. CASE i = 0
      BY <2>2, <3>1
    <3>2. CASE i \in 1 .. k
      BY <2>2, <3>2
    <3>3. CASE i = k + 1
      BY <3>3
    <3> QED BY <3>1, <3>2, <3>3
  <2> HIDE DEF h
  <2>4. h = [i \in 0 .. k + 1 |-> h[i]]
    BY DEF h
  <2>5. Is(h, k + 1)
    BY <2>3, <2>4
  <2> HIDE DEF Is
  <2> QED BY <2>5
<1>3. \E g : Is(g, Len(lists))
  <2> HIDE DEF Is
  <2>1. \A k \in Nat : k \in S
    BY <1>1, <1>2, SetInduction
  <2> QED BY <2>1
<1> QED BY <1>3, Zenon DEF Totals

(* The accumulators of the loop over the init containers, before it. *)
InitBase(containers) == [total |-> containers, sidecars |-> Empty, peak |-> Empty]

LEMMA InitLoopDefined ==
  ASSUME NEW containers, NEW init, NEW field, Len(init) \in Nat
  PROVE  InitLoop(containers, init, field) =
           [i \in 0 .. Len(init) |->
              IF i = 0 THEN InitBase(containers)
              ELSE InitContainer(InitLoop(containers, init, field)[i - 1],
                                 init[i][field], init[i].always)]
<1> DEFINE Is(g, k) ==
      g = [i \in 0 .. k |->
             IF i = 0 THEN InitBase(containers)
             ELSE InitContainer(g[i - 1], init[i][field], init[i].always)]
<1> DEFINE S == {k \in Nat : \E g : Is(g, k)}
<1>1. 0 \in S
  <2> DEFINE g == [i \in 0 .. 0 |-> InitBase(containers)]
  <2>1. Is(g, 0)
    OBVIOUS
  <2> QED BY <2>1, Zenon
<1>2. ASSUME NEW k \in Nat, k \in S PROVE k + 1 \in S
  <2>1. PICK g : Is(g, k)
    BY <1>2
  <2> DEFINE h == [i \in 0 .. k + 1 |->
                     IF i = k + 1 THEN InitContainer(g[k], init[k + 1][field], init[k + 1].always)
                     ELSE g[i]]
  <2>2. \A i \in 0 .. k :
           g[i] = IF i = 0 THEN InitBase(containers)
                  ELSE InitContainer(g[i - 1], init[i][field], init[i].always)
    BY <2>1, Zenon
  <2>3. \A i \in 0 .. k + 1 :
           h[i] = IF i = 0 THEN InitBase(containers)
                  ELSE InitContainer(h[i - 1], init[i][field], init[i].always)
    <3> TAKE i \in 0 .. k + 1
    <3>1. CASE i = 0
      BY <2>2, <3>1
    <3>2. CASE i \in 1 .. k
      BY <2>2, <3>2
    <3>3. CASE i = k + 1
      BY <3>3
    <3> QED BY <3>1, <3>2, <3>3
  <2> HIDE DEF h
  <2>4. h = [i \in 0 .. k + 1 |-> h[i]]
    BY DEF h
  <2>5. Is(h, k + 1)
    BY <2>3, <2>4, Zenon
  <2> HIDE DEF Is
  <2> QED BY <2>5
<1>3. \E g : Is(g, Len(init))
  <2> HIDE DEF Is
  <2>1. \A k \in Nat : k \in S
    BY <1>1, <1>2, SetInduction
  <2> QED BY <2>1
<1> QED BY <1>3, Zenon DEF InitLoop, InitBase

-----------------------------------------------------------------------------
(* Sequences. *)

LEMMA ListFacts ==
  ASSUME NEW s, IsList(s)
  PROVE  Len(s) \in Nat /\ DOMAIN s = 1 .. Len(s)
BY LenProperties DEF IsList

(* A function on 1 .. n is a list of length n. *)
LEMMA MapFacts ==
  ASSUME NEW n \in Nat, NEW f, f = [i \in 1 .. n |-> f[i]]
  PROVE  IsList(f) /\ Len(f) = n
<1>1. f \in [1 .. n -> Range(f)]
  BY DEF Range
<1>2. f \in Seq(Range(f))
  BY <1>1, SeqDef, Zenon
<1>3. DOMAIN f = 1 .. Len(f) /\ Len(f) \in Nat
  BY <1>2, LenProperties
<1>4. DOMAIN f = 1 .. n
  BY <1>1
<1> QED BY <1>2, <1>3, <1>4 DEF IsList

-----------------------------------------------------------------------------
(* Sums. *)

LEMMA SumsTurn ==
  ASSUME NEW numbers, Len(numbers) \in Nat
  PROVE  /\ Sums(numbers)[0] = 0
         /\ \A k \in 1 .. Len(numbers) :
              Sums(numbers)[k] = Sums(numbers)[k - 1] + numbers[k]
<1> DEFINE f == Sums(numbers)
<1>1. f = [i \in 0 .. Len(numbers) |-> IF i = 0 THEN 0 ELSE f[i - 1] + numbers[i]]
  BY SumsDefined
<1> HIDE DEF f
<1>2. \A i \in 0 .. Len(numbers) : f[i] = IF i = 0 THEN 0 ELSE f[i - 1] + numbers[i]
  BY <1>1, Zenon
<1>3. f[0] = 0 /\ \A k \in 1 .. Len(numbers) : f[k] = f[k - 1] + numbers[k]
  BY <1>2
<1> QED BY <1>3 DEF f

LEMMA SumsType ==
  ASSUME NEW numbers, Len(numbers) \in Nat,
         \A i \in 1 .. Len(numbers) : numbers[i] \in Nat
  PROVE  \A k \in 0 .. Len(numbers) : Sums(numbers)[k] \in Nat
<1> DEFINE S == {k \in Nat : k <= Len(numbers) => Sums(numbers)[k] \in Nat}
<1>1. 0 \in S
  BY SumsTurn
<1>2. ASSUME NEW k \in Nat, k \in S PROVE k + 1 \in S
  <2>1. CASE k + 1 <= Len(numbers)
    <3>1. k + 1 \in 1 .. Len(numbers) /\ (k + 1) - 1 = k
      BY <2>1
    <3>2. Sums(numbers)[k + 1] = Sums(numbers)[k] + numbers[k + 1]
      BY <3>1, SumsTurn
    <3>3. Sums(numbers)[k] \in Nat /\ numbers[k + 1] \in Nat
      BY <1>2, <2>1, <3>1
    <3> QED BY <3>2, <3>3
  <2> QED BY <2>1
<1>3. \A k \in Nat : k \in S
  BY <1>1, <1>2, SetInduction, Zenon
<1> QED BY <1>3

(* Sums of sequences that agree up to a place agree there. *)
LEMMA SumsAgree ==
  ASSUME NEW a, NEW b, Len(a) \in Nat, Len(b) \in Nat,
         NEW n \in Nat, n <= Len(a), n <= Len(b),
         \A i \in 1 .. n : a[i] = b[i]
  PROVE  Sums(a)[n] = Sums(b)[n]
<1> DEFINE S == {k \in Nat : k <= n => Sums(a)[k] = Sums(b)[k]}
<1>1. 0 \in S
  BY SumsTurn
<1>2. ASSUME NEW k \in Nat, k \in S PROVE k + 1 \in S
  <2>1. CASE k + 1 <= n
    <3>1. /\ k + 1 \in 1 .. Len(a) /\ k + 1 \in 1 .. Len(b)
          /\ k + 1 \in 1 .. n /\ (k + 1) - 1 = k
      BY <2>1
    <3>2. Sums(a)[k + 1] = Sums(a)[k] + a[k + 1]
      BY <3>1, SumsTurn
    <3>3. Sums(b)[k + 1] = Sums(b)[k] + b[k + 1]
      BY <3>1, SumsTurn
    <3>4. Sums(a)[k] = Sums(b)[k] /\ a[k + 1] = b[k + 1]
      BY <1>2, <2>1, <3>1
    <3> QED BY <3>2, <3>3, <3>4
  <2> QED BY <2>1
<1>3. \A k \in Nat : k \in S
  BY <1>1, <1>2, SetInduction, Zenon
<1> QED BY <1>3

-----------------------------------------------------------------------------
(* Resource lists. *)

LEMMA QuantityType ==
  ASSUME NEW list, IsResourceList(list), NEW name
  PROVE  Quantity(list, name) \in Nat
BY DEF IsResourceList, Quantity

LEMMA EmptyList == IsResourceList(Empty) /\ \A name : Quantity(Empty, name) = 0
BY DEF IsResourceList, Quantity, Empty

LEMMA LargerFacts ==
  ASSUME NEW a \in Nat, NEW b \in Nat
  PROVE  /\ Larger(a, b) \in Nat /\ a <= Larger(a, b) /\ b <= Larger(a, b)
         /\ Larger(a, b) = a \/ Larger(a, b) = b
BY DEF Larger

LEMMA ExcessFacts ==
  ASSUME NEW a \in Nat, NEW b \in Nat
  PROVE  Larger(0, a - b) \in Nat /\ a <= b + Larger(0, a - b)
BY DEF Larger

LEMMA BoundsAdd ==
  ASSUME NEW a \in Nat, NEW b \in Nat, NEW c \in Nat, a <= b + c,
         NEW x \in Nat, NEW y \in Nat, NEW z \in Nat, x <= y + z
  PROVE  a + x <= (b + y) + (c + z)
OBVIOUS

LEMMA AddLists ==
  ASSUME NEW a, NEW b, IsResourceList(a), IsResourceList(b)
  PROVE  /\ IsResourceList(addResourceList(a, b))
         /\ \A name : Quantity(addResourceList(a, b), name)
                        = Quantity(a, name) + Quantity(b, name)
<1> DEFINE l == addResourceList(a, b)
<1>1. \A name : Quantity(a, name) \in Nat /\ Quantity(b, name) \in Nat
  BY QuantityType
<1>2. l = [name \in DOMAIN a \cup DOMAIN b |-> Quantity(a, name) + Quantity(b, name)]
  BY DEF addResourceList
<1> HIDE DEF l
<1>3. IsResourceList(l)
  BY <1>1, <1>2 DEF IsResourceList
<1>4. ASSUME NEW name PROVE Quantity(l, name) = Quantity(a, name) + Quantity(b, name)
  <2>1. CASE name \in DOMAIN l
    <3>1. Quantity(l, name) = l[name]
      BY <2>1 DEF Quantity
    <3>2. l[name] = Quantity(a, name) + Quantity(b, name)
      BY <1>2, <2>1
    <3> QED BY <3>1, <3>2
  <2>2. CASE name \notin DOMAIN l
    <3>1. name \notin DOMAIN a /\ name \notin DOMAIN b
      BY <1>2, <2>2
    <3> QED BY <2>2, <3>1 DEF Quantity
  <2> QED BY <2>1, <2>2
<1> QED BY <1>3, <1>4 DEF l

LEMMA MaxLists ==
  ASSUME NEW a, NEW b, IsResourceList(a), IsResourceList(b)
  PROVE  /\ IsResourceList(maxResourceList(a, b))
         /\ \A name : Quantity(maxResourceList(a, b), name)
                        = Larger(Quantity(a, name), Quantity(b, name))
<1> DEFINE l == maxResourceList(a, b)
<1>1. \A name : Quantity(a, name) \in Nat /\ Quantity(b, name) \in Nat
  BY QuantityType
<1>2. l = [name \in DOMAIN a \cup DOMAIN b |->
             Larger(Quantity(a, name), Quantity(b, name))]
  BY DEF maxResourceList
<1> HIDE DEF l
<1>3. IsResourceList(l)
  BY <1>1, <1>2, LargerFacts DEF IsResourceList
<1>4. ASSUME NEW name
      PROVE  Quantity(l, name) = Larger(Quantity(a, name), Quantity(b, name))
  <2>1. CASE name \in DOMAIN l
    <3>1. Quantity(l, name) = l[name]
      BY <2>1 DEF Quantity
    <3>2. l[name] = Larger(Quantity(a, name), Quantity(b, name))
      BY <1>2, <2>1
    <3> QED BY <3>1, <3>2
  <2>2. CASE name \notin DOMAIN l
    <3>1. name \notin DOMAIN a /\ name \notin DOMAIN b
      BY <1>2, <2>2
    <3> QED BY <2>2, <3>1 DEF Quantity, Larger
  <2> QED BY <2>1, <2>2
<1> QED BY <1>3, <1>4 DEF l

(* The lists added up: of each resource the sum of its quantities. *)
LEMMA AddAllIsSum ==
  ASSUME NEW lists, IsList(lists),
         \A i \in 1 .. Len(lists) : IsResourceList(lists[i])
  PROVE  /\ IsResourceList(AddAll(lists))
         /\ \A name : Quantity(AddAll(lists), name)
                        = Sum([i \in 1 .. Len(lists) |-> Quantity(lists[i], name)])
<1> DEFINE n == Len(lists)
<1> DEFINE q(name) == [i \in 1 .. n |-> Quantity(lists[i], name)]
<1> DEFINE t == Totals(lists)
<1>1. n \in Nat
  BY ListFacts
<1>2. \A name : Len(q(name)) = n
  BY <1>1, MapFacts
<1>3. \A i \in 0 .. n : t[i] = IF i = 0 THEN Empty ELSE addResourceList(t[i - 1], lists[i])
  <2>1. t = [i \in 0 .. n |-> IF i = 0 THEN Empty ELSE addResourceList(t[i - 1], lists[i])]
    BY <1>1, TotalsDefined
  <2> HIDE DEF t
  <2> QED BY <2>1, Zenon
<1> DEFINE S == {k \in Nat : k <= n =>
                   /\ IsResourceList(t[k])
                   /\ \A name : Quantity(t[k], name) = Sums(q(name))[k]}
<1> HIDE DEF n, q, t
<1>4. 0 \in S
  <2>1. t[0] = Empty
    BY <1>1, <1>3
  <2>2. \A name : Sums(q(name))[0] = 0
    BY <1>1, <1>2, SumsTurn
  <2> QED BY <2>1, <2>2, EmptyList
<1>5. ASSUME NEW k \in Nat, k \in S PROVE k + 1 \in S
  <2>1. SUFFICES ASSUME k + 1 <= n
                 PROVE  /\ IsResourceList(t[k + 1])
                        /\ \A name : Quantity(t[k + 1], name) = Sums(q(name))[k + 1]
    OBVIOUS
  <2>2. k + 1 \in 0 .. n /\ k + 1 \in 1 .. n /\ k + 1 # 0 /\ (k + 1) - 1 = k
    BY <1>1, <2>1
  <2>3. t[k + 1] = addResourceList(t[k], lists[k + 1])
    BY <1>3, <2>2
  <2>4. IsResourceList(t[k]) /\ IsResourceList(lists[k + 1])
    BY <1>5, <2>1, <2>2, <1>1 DEF n
  <2>5. ASSUME NEW name PROVE Quantity(t[k + 1], name) = Sums(q(name))[k + 1]
    <3>1. Quantity(t[k + 1], name) = Quantity(t[k], name) + Quantity(lists[k + 1], name)
      BY <2>3, <2>4, AddLists
    <3>2. Quantity(t[k], name) = Sums(q(name))[k]
      BY <1>1, <1>5, <2>1
    <3>3. Sums(q(name))[k + 1] = Sums(q(name))[k] + q(name)[k + 1]
      BY <1>1, <1>2, <2>2, SumsTurn
    <3>4. q(name)[k + 1] = Quantity(lists[k + 1], name)
      BY <2>2 DEF q
    <3> QED BY <3>1, <3>2, <3>3, <3>4
  <2> QED BY <2>3, <2>4, <2>5, AddLists
<1>6. n \in S
  BY <1>1, <1>4, <1>5, SetInduction, Zenon
<1>7. IsResourceList(t[n]) /\ \A name : Quantity(t[n], name) = Sums(q(name))[n]
  BY <1>6, <1>1
<1> QED BY <1>7, <1>2 DEF AddAll, Sum, n, q, t

-----------------------------------------------------------------------------
(* The loop over the init containers.  Of a resource, the list of demands is *)
(* what each init container asks for, and that of sidecars what those ask    *)
(* for that keep running.                                                    *)

Demands(init, field, name) ==
  [i \in 1 .. Len(init) |-> Quantity(init[i][field], name)]

SidecarDemands(init, field, name) ==
  [i \in 1 .. Len(init) |->
     IF init[i].always THEN Quantity(init[i][field], name) ELSE 0]

(* An init container is alive beside the sidecars before it. *)
InitPhase(init, field, name, m) ==
  Demands(init, field, name)[m] + Sums(SidecarDemands(init, field, name))[m - 1]

AreInit(init, field) ==
  /\ IsList(init)
  /\ \A i \in 1 .. Len(init) :
       IsResourceList(init[i][field]) /\ init[i].always \in BOOLEAN

LEMMA DemandFacts ==
  ASSUME NEW init, NEW field, NEW name, AreInit(init, field)
  PROVE  /\ Len(init) \in Nat
         /\ Len(Demands(init, field, name)) = Len(init)
         /\ Len(SidecarDemands(init, field, name)) = Len(init)
         /\ \A i \in 1 .. Len(init) :
              /\ Demands(init, field, name)[i] \in Nat
              /\ SidecarDemands(init, field, name)[i] \in Nat
         /\ \A k \in 0 .. Len(init) : Sums(SidecarDemands(init, field, name))[k] \in Nat
         /\ \A m \in 1 .. Len(init) : InitPhase(init, field, name, m) \in Nat
<1> DEFINE d == Demands(init, field, name)
           s == SidecarDemands(init, field, name)
<1>1. Len(init) \in Nat
  BY ListFacts DEF AreInit
<1>2. Len(d) = Len(init) /\ Len(s) = Len(init)
  BY <1>1, MapFacts DEF Demands, SidecarDemands
<1>3. \A i \in 1 .. Len(init) : Quantity(init[i][field], name) \in Nat
  BY QuantityType DEF AreInit
<1>4. \A i \in 1 .. Len(init) : d[i] \in Nat /\ s[i] \in Nat
  BY <1>3 DEF Demands, SidecarDemands
<1>5. \A k \in 0 .. Len(init) : Sums(s)[k] \in Nat
  BY <1>1, <1>2, <1>4, SumsType
<1>6. \A m \in 1 .. Len(init) : InitPhase(init, field, name, m) \in Nat
  <2> TAKE m \in 1 .. Len(init)
  <2>1. m - 1 \in 0 .. Len(init)
    BY <1>1
  <2>2. d[m] \in Nat /\ Sums(s)[m - 1] \in Nat
    BY <1>4, <1>5, <2>1, Zenon
  <2> QED BY <2>2 DEF InitPhase
<1> QED BY <1>1, <1>2, <1>4, <1>5, <1>6

(* What the accumulators hold after each turn. *)
AccOf(acc, containers, init, field, k) ==
  /\ IsResourceList(acc.total) /\ IsResourceList(acc.sidecars)
  /\ IsResourceList(acc.peak)
  /\ \A name :
       /\ Quantity(acc.total, name)
            = Quantity(containers, name) + Sums(SidecarDemands(init, field, name))[k]
       /\ Quantity(acc.sidecars, name) = Sums(SidecarDemands(init, field, name))[k]
       /\ \A m \in 1 .. k :
            InitPhase(init, field, name, m) <= Quantity(acc.peak, name)
       /\ \/ Quantity(acc.peak, name) = 0
          \/ \E m \in 1 .. k :
               Quantity(acc.peak, name) = InitPhase(init, field, name, m)

LEMMA InitContainerTurn ==
  ASSUME NEW containers, IsResourceList(containers),
         NEW init, NEW field, AreInit(init, field),
         NEW acc, NEW k \in Nat, k + 1 <= Len(init),
         AccOf(acc, containers, init, field, k)
  PROVE  AccOf(InitContainer(acc, init[k + 1][field], init[k + 1].always),
               containers, init, field, k + 1)
<1> DEFINE list == init[k + 1][field]
           always == init[k + 1].always
           new == InitContainer(acc, list, always)
           side == addResourceList(acc.sidecars, list)
<1>1. Len(init) \in Nat /\ k + 1 \in 1 .. Len(init) /\ k \in 0 .. Len(init)
      /\ (k + 1) - 1 = k
  BY ListFacts DEF AreInit
<1>2. IsResourceList(list) /\ always \in BOOLEAN
  BY <1>1 DEF AreInit
<1>3. /\ IsResourceList(acc.total) /\ IsResourceList(acc.sidecars)
      /\ IsResourceList(acc.peak)
  BY DEF AccOf
<1>4. /\ IsResourceList(side)
      /\ \A name : Quantity(side, name) = Quantity(acc.sidecars, name) + Quantity(list, name)
  BY <1>2, <1>3, AddLists
<1>5. /\ new.total = IF always THEN addResourceList(acc.total, list) ELSE acc.total
      /\ new.sidecars = IF always THEN side ELSE acc.sidecars
      /\ new.peak = maxResourceList(acc.peak, side)
  <2>1. acc.peak = acc.peak
    OBVIOUS
  <2> QED BY <1>2 DEF InitContainer
<1> HIDE DEF new, side
<1>6. /\ IsResourceList(new.total)
      /\ IsResourceList(new.sidecars)
      /\ IsResourceList(new.peak)
  BY <1>2, <1>3, <1>4, <1>5, AddLists, MaxLists
<1>7. ASSUME NEW name
      PROVE  /\ Quantity(new.total, name)
                  = Quantity(containers, name)
                      + Sums(SidecarDemands(init, field, name))[k + 1]
             /\ Quantity(new.sidecars, name)
                  = Sums(SidecarDemands(init, field, name))[k + 1]
             /\ \A m \in 1 .. k + 1 :
                  InitPhase(init, field, name, m) <= Quantity(new.peak, name)
             /\ \/ Quantity(new.peak, name) = 0
                \/ \E m \in 1 .. k + 1 :
                     Quantity(new.peak, name) = InitPhase(init, field, name, m)
  <2> DEFINE s == SidecarDemands(init, field, name)
             q == Quantity(list, name)
  <2>1. s[k + 1] = IF always THEN q ELSE 0
    BY <1>1 DEF SidecarDemands
  <2>2. Demands(init, field, name)[k + 1] = q
    BY <1>1 DEF Demands
  <2>3. Sums(s)[k + 1] = Sums(s)[k] + s[k + 1]
    BY <1>1, DemandFacts, SumsTurn
  <2>4. Sums(s)[k] \in Nat /\ q \in Nat /\ Quantity(containers, name) \in Nat
    BY <1>1, <1>2, DemandFacts, QuantityType
  <2>5. /\ Quantity(acc.total, name) = Quantity(containers, name) + Sums(s)[k]
        /\ Quantity(acc.sidecars, name) = Sums(s)[k]
        /\ \A m \in 1 .. k : InitPhase(init, field, name, m) <= Quantity(acc.peak, name)
        /\ \/ Quantity(acc.peak, name) = 0
           \/ \E m \in 1 .. k : Quantity(acc.peak, name) = InitPhase(init, field, name, m)
    BY DEF AccOf
  <2>6. InitPhase(init, field, name, k + 1) = q + Sums(s)[k]
    BY <1>1, <2>2 DEF InitPhase
  <2>7. Quantity(side, name) = Sums(s)[k] + q
    BY <1>4, <2>5
  <2>8. Quantity(new.peak, name) = Larger(Quantity(acc.peak, name), Quantity(side, name))
    BY <1>3, <1>4, <1>5, MaxLists
  <2>9. Quantity(acc.peak, name) \in Nat
    BY <1>3, QuantityType
  <2> HIDE DEF s, q
  <2>10. Quantity(new.total, name) = Quantity(containers, name) + Sums(s)[k + 1]
    <3>1. CASE always
      <4>1. Quantity(new.total, name) = Quantity(acc.total, name) + q
        BY <1>2, <1>3, <1>5, <3>1, AddLists DEF q
      <4> QED BY <4>1, <2>1, <2>3, <2>4, <2>5, <3>1
    <3>2. CASE ~ always
      BY <1>5, <2>1, <2>3, <2>4, <2>5, <3>2
    <3> QED BY <3>1, <3>2
  <2>11. Quantity(new.sidecars, name) = Sums(s)[k + 1]
    <3>1. CASE always
      BY <1>5, <2>1, <2>3, <2>4, <2>7, <3>1
    <3>2. CASE ~ always
      BY <1>5, <2>1, <2>3, <2>4, <2>5, <3>2
    <3> QED BY <3>1, <3>2
  <2>12. Quantity(side, name) \in Nat
    BY <2>4, <2>7
  <2>13. \A m \in 1 .. k + 1 : InitPhase(init, field, name, m) <= Quantity(new.peak, name)
    <3> TAKE m \in 1 .. k + 1
    <3>1. CASE m \in 1 .. k
      <4>1. m \in 1 .. Len(init)
        BY <1>1, <3>1
      <4>2. InitPhase(init, field, name, m) \in Nat
        BY <4>1, DemandFacts, Zenon
      <4>3. InitPhase(init, field, name, m) <= Quantity(acc.peak, name)
        BY <2>5, <3>1
      <4>4. /\ Quantity(acc.peak, name) <= Quantity(new.peak, name)
            /\ Quantity(new.peak, name) \in Nat
        BY <2>8, <2>9, <2>12, LargerFacts, Zenon
      <4> QED BY <2>9, <4>2, <4>3, <4>4
    <3>2. CASE m = k + 1
      <4>1. InitPhase(init, field, name, m) = Quantity(side, name)
        BY <2>4, <2>6, <2>7, <3>2
      <4> QED BY <4>1, <2>8, <2>9, <2>12, LargerFacts
    <3> QED BY <3>1, <3>2
  <2>14. \/ Quantity(new.peak, name) = 0
         \/ \E m \in 1 .. k + 1 :
              Quantity(new.peak, name) = InitPhase(init, field, name, m)
    <3>1. CASE Quantity(new.peak, name) = Quantity(side, name)
      <4>1. Quantity(new.peak, name) = InitPhase(init, field, name, k + 1)
        BY <2>4, <2>6, <2>7, <3>1
      <4> QED BY <4>1
    <3>2. CASE Quantity(new.peak, name) = Quantity(acc.peak, name)
      <4>1. \A m \in 1 .. k : m \in 1 .. k + 1
        OBVIOUS
      <4> QED BY <2>5, <3>2, <4>1
    <3>3. \/ Quantity(new.peak, name) = Quantity(side, name)
          \/ Quantity(new.peak, name) = Quantity(acc.peak, name)
      BY <2>8, <2>9, <2>12, LargerFacts
    <3> QED BY <3>1, <3>2, <3>3, Zenon
  <2> QED BY <2>10, <2>11, <2>13, <2>14 DEF s
<1>8. AccOf(new, containers, init, field, k + 1)
  BY <1>6, <1>7 DEF AccOf
<1> QED BY <1>8 DEF new

(* The lists of a pod: the most that any phase of its life needs. *)
LEMMA WithInitIsPeak ==
  ASSUME NEW containers, IsResourceList(containers),
         NEW init, NEW field, AreInit(init, field)
  PROVE  /\ IsResourceList(WithInit(containers, init, field))
         /\ \A name :
              LET main == Quantity(containers, name)
                            + Sums(SidecarDemands(init, field, name))[Len(init)]
                  peak == Quantity(WithInit(containers, init, field), name)
              IN /\ main <= peak
                 /\ \A m \in 1 .. Len(init) : InitPhase(init, field, name, m) <= peak
                 /\ \/ peak = main
                    \/ \E m \in 1 .. Len(init) : peak = InitPhase(init, field, name, m)
<1> DEFINE n == Len(init)
           a == InitLoop(containers, init, field)
           S == {k \in Nat : k <= n => AccOf(a[k], containers, init, field, k)}
<1>1. n \in Nat
  BY ListFacts DEF AreInit
<1>2. \A i \in 0 .. n :
         a[i] = IF i = 0 THEN InitBase(containers)
                ELSE InitContainer(a[i - 1], init[i][field], init[i].always)
  <2>1. a = [i \in 0 .. n |->
               IF i = 0 THEN InitBase(containers)
               ELSE InitContainer(a[i - 1], init[i][field], init[i].always)]
    BY <1>1, InitLoopDefined
  <2> HIDE DEF a, n
  <2> QED BY <2>1, Zenon
<1> HIDE DEF a, n
<1>3. 0 \in S
  <2>1. a[0] = InitBase(containers)
    BY <1>1, <1>2
  <2>2. a[0].total = containers /\ a[0].sidecars = Empty /\ a[0].peak = Empty
    BY <2>1 DEF InitBase
  <2>3. \A name : /\ Sums(SidecarDemands(init, field, name))[0] = 0
                  /\ Quantity(containers, name) \in Nat
    BY <1>1, DemandFacts, SumsTurn, QuantityType DEF n
  <2>4. AccOf(a[0], containers, init, field, 0)
    BY <2>2, <2>3, EmptyList DEF AccOf
  <2> QED BY <2>4
<1>4. ASSUME NEW k \in Nat, k \in S PROVE k + 1 \in S
  <2>1. SUFFICES ASSUME k + 1 <= n PROVE AccOf(a[k + 1], containers, init, field, k + 1)
    OBVIOUS
  <2>2. k + 1 \in 0 .. n /\ k + 1 # 0 /\ (k + 1) - 1 = k /\ k <= n
    BY <1>1, <2>1
  <2>3. a[k + 1] = InitContainer(a[k], init[k + 1][field], init[k + 1].always)
    BY <1>2, <2>2
  <2>4. AccOf(a[k], containers, init, field, k)
    BY <1>4, <2>2
  <2> QED BY <2>1, <2>3, <2>4, InitContainerTurn DEF n
<1>5. AccOf(a[n], containers, init, field, n)
  <2>1. n \in S
    BY <1>1, <1>3, <1>4, SetInduction, Zenon
  <2> QED BY <1>1, <2>1
<1> DEFINE w == WithInit(containers, init, field)
<1>6. w = maxResourceList(a[n].total, a[n].peak)
  BY DEF WithInit, a, n
<1> HIDE DEF w
<1>7. IsResourceList(a[n].total) /\ IsResourceList(a[n].peak)
  BY <1>5 DEF AccOf
<1>8. ASSUME NEW name
      PROVE  LET main == Quantity(containers, name)
                           + Sums(SidecarDemands(init, field, name))[n]
                 peak == Quantity(w, name)
             IN /\ main <= peak
                /\ \A m \in 1 .. n : InitPhase(init, field, name, m) <= peak
                /\ \/ peak = main
                   \/ \E m \in 1 .. n : peak = InitPhase(init, field, name, m)
  <2> DEFINE main == Quantity(containers, name)
                       + Sums(SidecarDemands(init, field, name))[n]
             peak == Quantity(w, name)
             p == Quantity(a[n].peak, name)
  <2>1. /\ Quantity(a[n].total, name) = main
        /\ \A m \in 1 .. n : InitPhase(init, field, name, m) <= p
        /\ p = 0 \/ \E m \in 1 .. n : p = InitPhase(init, field, name, m)
    BY <1>5 DEF AccOf
  <2>2. main \in Nat /\ p \in Nat
    BY <1>7, <2>1, QuantityType
  <2>3. peak = Larger(main, p)
    BY <1>6, <1>7, <2>1, MaxLists
  <2>4. \A m \in 1 .. n : InitPhase(init, field, name, m) \in Nat
    BY DemandFacts, Zenon DEF n
  <2> HIDE DEF main, peak, p
  <2>5. peak \in Nat /\ main <= peak /\ p <= peak /\ (peak = main \/ peak = p)
    BY <2>2, <2>3, LargerFacts
  <2>6. \A m \in 1 .. n : InitPhase(init, field, name, m) <= peak
    <3> TAKE m \in 1 .. n
    <3>1. InitPhase(init, field, name, m) <= p /\ InitPhase(init, field, name, m) \in Nat
      BY <2>1, <2>4
    <3> QED BY <2>2, <2>5, <3>1
  <2>7. peak = main \/ \E m \in 1 .. n : peak = InitPhase(init, field, name, m)
    <3>1. CASE p = 0
      BY <2>2, <2>5, <3>1
    <3>2. CASE p # 0
      BY <2>1, <2>5, <3>2
    <3> QED BY <3>1, <3>2
  <2> QED BY <2>5, <2>6, <2>7 DEF main, peak
<1> QED BY <1>6, <1>7, <1>8, MaxLists DEF w, n

(* The same for one resource, with the peak by its name. *)
LEMMA PeakIsReached ==
  ASSUME NEW containers, IsResourceList(containers),
         NEW init, NEW field, AreInit(init, field), NEW name,
         NEW w, w = WithInit(containers, init, field)
  PROVE  /\ IsResourceList(w)
         /\ \/ Quantity(w, name) = Quantity(containers, name)
                                    + Sums(SidecarDemands(init, field, name))[Len(init)]
            \/ \E m \in 1 .. Len(init) : Quantity(w, name) = InitPhase(init, field, name, m)
BY WithInitIsPeak

-----------------------------------------------------------------------------
(* What a pod requests. *)

LEMMA SumsMonotone ==
  ASSUME NEW a, NEW b, Len(a) \in Nat, Len(b) = Len(a),
         \A i \in 1 .. Len(a) : a[i] \in Nat /\ b[i] \in Nat /\ a[i] <= b[i]
  PROVE  \A k \in 0 .. Len(a) : Sums(a)[k] <= Sums(b)[k]
<1> DEFINE S == {k \in Nat : k <= Len(a) => Sums(a)[k] <= Sums(b)[k]}
<1>1. 0 \in S
  BY SumsTurn
<1>2. ASSUME NEW k \in Nat, k \in S PROVE k + 1 \in S
  <2>1. SUFFICES ASSUME k + 1 <= Len(a) PROVE Sums(a)[k + 1] <= Sums(b)[k + 1]
    OBVIOUS
  <2>2. k + 1 \in 1 .. Len(a) /\ (k + 1) - 1 = k /\ k \in 0 .. Len(a)
    BY <2>1
  <2>3. Sums(a)[k + 1] = Sums(a)[k] + a[k + 1]
    BY <2>2, SumsTurn
  <2>4. Sums(b)[k + 1] = Sums(b)[k] + b[k + 1]
    BY <2>2, SumsTurn
  <2>5. Sums(a)[k] \in Nat /\ Sums(b)[k] \in Nat
    BY <2>2, SumsType
  <2>6. Sums(a)[k] <= Sums(b)[k]
    BY <1>2, <2>2
  <2>7. a[k + 1] \in Nat /\ b[k + 1] \in Nat /\ a[k + 1] <= b[k + 1]
    BY <2>2
  <2> QED BY <2>3, <2>4, <2>5, <2>6, <2>7
<1>3. \A k \in Nat : k \in S
  BY <1>1, <1>2, SetInduction, Zenon
<1> QED BY <1>3

LEMMA ContainerRequestsType ==
  ASSUME NEW pod, NEW c, IsContainer(c), pod.infeasible \in BOOLEAN
  PROVE  IsResourceList(ContainerRequests(pod, c))
<1>1. IsResourceList(c.requests) /\ (c.status = NoStatus \/ IsResourceList(c.status))
  BY DEF IsContainer
<1>2. c.status # NoStatus => IsResourceList(maxOf(c.requests, c.status))
  BY <1>1, MaxLists DEF maxOf
<1> QED BY <1>1, <1>2 DEF ContainerRequests

LEMMA PodInit ==
  ASSUME NEW pod, IsPod(pod)
  PROVE  AreInit(pod.init, "requests") /\ AreInit(pod.init, "limits")
<1>1. IsList(pod.init) /\ DOMAIN pod.init = 1 .. Len(pod.init)
  BY ListFacts DEF IsPod
<1>2. \A i \in 1 .. Len(pod.init) : IsContainer(pod.init[i])
  BY <1>1 DEF IsPod
<1>3. \A i \in 1 .. Len(pod.init) :
         /\ IsResourceList(pod.init[i].requests) /\ IsResourceList(pod.init[i].limits)
         /\ pod.init[i].always \in BOOLEAN
  BY <1>2 DEF IsContainer
<1> QED BY <1>1, <1>3 DEF AreInit

(* The lists of the containers, added up. *)
MainLists(pod) ==
  [i \in DOMAIN pod.containers |-> ContainerRequests(pod, pod.containers[i])]

LEMMA MainIsSum ==
  ASSUME NEW pod, IsPod(pod)
  PROVE  /\ IsResourceList(AddAll(MainLists(pod)))
         /\ \A name : /\ Quantity(AddAll(MainLists(pod)), name) = MainDemand(pod, name)
                      /\ MainDemand(pod, name) \in Nat
<1> DEFINE n == Len(pod.containers)
           lists == MainLists(pod)
<1>1. n \in Nat /\ DOMAIN pod.containers = 1 .. n
  BY ListFacts DEF IsPod
<1>2. lists = [i \in 1 .. n |-> ContainerRequests(pod, pod.containers[i])]
  BY <1>1 DEF MainLists
<1> HIDE DEF n, lists
<1>3. IsList(lists) /\ Len(lists) = n
  BY <1>1, <1>2, MapFacts
<1>4. \A i \in 1 .. n : IsResourceList(lists[i])
  <2> TAKE i \in 1 .. n
  <2>1. IsContainer(pod.containers[i]) /\ pod.infeasible \in BOOLEAN
    BY <1>1 DEF IsPod
  <2> QED BY <1>2, <2>1, ContainerRequestsType
<1>5. /\ IsResourceList(AddAll(lists))
      /\ \A name : Quantity(AddAll(lists), name)
                     = Sum([i \in 1 .. n |-> Quantity(lists[i], name)])
  BY <1>3, <1>4, AddAllIsSum
<1>6. ASSUME NEW name
      PROVE  Sum([i \in 1 .. n |-> Quantity(lists[i], name)]) = MainDemand(pod, name)
  <2>1. [i \in 1 .. n |-> Quantity(lists[i], name)]
          = [i \in DOMAIN pod.containers |->
               Quantity(ContainerRequests(pod, pod.containers[i]), name)]
    BY <1>1, <1>2
  <2> QED BY <2>1, Zenon DEF MainDemand
<1> QED BY <1>5, <1>6, QuantityType, Zenon DEF lists

LEMMA SidecarsAgree ==
  ASSUME NEW pod, IsPod(pod), NEW name, NEW k \in 0 .. Len(pod.init)
  PROVE  SidecarDemand(pod, k, name)
           = Sums(SidecarDemands(pod.init, "requests", name))[k]
<1> DEFINE s == SidecarDemands(pod.init, "requests", name)
           t == [i \in 1 .. k |-> IF pod.init[i].always THEN InitDemand(pod, i, name) ELSE 0]
<1>1. Len(pod.init) \in Nat /\ k \in Nat
  BY ListFacts DEF IsPod
<1>2. Len(s) = Len(pod.init) /\ Len(t) = k
  BY <1>1, MapFacts, PodInit, DemandFacts
<1>3. \A i \in 1 .. k : s[i] = t[i]
  BY <1>1 DEF SidecarDemands, InitDemand
<1> HIDE DEF s, t
<1>4. Sums(t)[k] = Sums(s)[k]
  BY <1>1, <1>2, <1>3, SumsAgree
<1> QED BY <1>2, <1>4 DEF SidecarDemand, Sum, s, t

(* podRequests finds, for every resource, the most that the pod asks for at  *)
(* one time: while an init container runs, or once all the others do.        *)
THEOREM PodRequestsIsPeak ==
  ASSUME NEW pod, IsPod(pod)
  PROVE  /\ IsResourceList(podRequests(pod))
         /\ \A name : Quantity(podRequests(pod), name) = PeakDemand(pod, name)
<1> DEFINE containers == AddAll(MainLists(pod))
           w == WithInit(containers, pod.init, "requests")
           n == Len(pod.init)
<1>1. podRequests(pod) = addResourceList(w, pod.overhead)
  BY DEF podRequests, MainLists
<1>2. IsResourceList(containers)
  BY MainIsSum
<1> HIDE DEF containers
<1>3. IsResourceList(w) /\ IsResourceList(pod.overhead)
  BY <1>2, PodInit, WithInitIsPeak DEF IsPod
<1>4. n \in Nat /\ DOMAIN pod.init = 1 .. n
  BY ListFacts DEF IsPod
<1> HIDE DEF n, w
<1>5. ASSUME NEW name
      PROVE  Quantity(w, name)
               = CHOOSE most \in Phases(pod, name) : \A p \in Phases(pod, name) : p <= most
  <2> DEFINE peak == Quantity(w, name)
             main == MainDemand(pod, name) + SidecarDemand(pod, n, name)
             s == Sums(SidecarDemands(pod.init, "requests", name))
  <2>1. main = Quantity(containers, name) + s[n]
    BY <1>4, MainIsSum, SidecarsAgree DEF containers, n
  <2>2. \A m \in 1 .. n : InitPhase(pod.init, "requests", name, m)
                            = InitDemand(pod, m, name) + SidecarDemand(pod, m - 1, name)
    <3> TAKE m \in 1 .. n
    <3>1. m - 1 \in 0 .. n /\ m \in 1 .. Len(pod.init)
      BY <1>4 DEF n
    <3>2. SidecarDemand(pod, m - 1, name) = s[m - 1]
      BY <3>1, SidecarsAgree DEF n
    <3>3. Demands(pod.init, "requests", name)[m] = InitDemand(pod, m, name)
      BY <3>1 DEF Demands, InitDemand
    <3> QED BY <3>2, <3>3 DEF InitPhase
  <2>3. /\ main <= peak
        /\ \A m \in 1 .. n : InitPhase(pod.init, "requests", name, m) <= peak
        /\ peak = main \/ \E m \in 1 .. n : peak = InitPhase(pod.init, "requests", name, m)
    BY <1>2, <2>1, PodInit, WithInitIsPeak DEF n, w
  <2>4. Phases(pod, name)
          = {main} \cup {InitPhase(pod.init, "requests", name, m) : m \in 1 .. n}
    BY <1>4, <2>2 DEF Phases, n
  <2>5. \A p \in Phases(pod, name) : p \in Nat
    <3>1. \A m \in 1 .. n : InitPhase(pod.init, "requests", name, m) \in Nat
      BY PodInit, DemandFacts, Zenon DEF n
    <3>2. s[n] \in Nat /\ Quantity(containers, name) \in Nat
      <4>1. AreInit(pod.init, "requests") /\ n \in 0 .. Len(pod.init)
        BY <1>4, PodInit DEF n
      <4>2. s[n] \in Nat
        BY <4>1, DemandFacts, Zenon
      <4> QED BY <1>2, <4>2, QuantityType, Zenon
    <3> QED BY <2>1, <2>4, <3>1, <3>2
  <2> HIDE DEF main, peak
  <2>6. peak \in Phases(pod, name) /\ \A p \in Phases(pod, name) : p <= peak
    BY <2>3, <2>4
  <2>7. ASSUME NEW q \in Phases(pod, name), \A p \in Phases(pod, name) : p <= q
        PROVE  q = peak
    BY <2>5, <2>6, <2>7
  <2> QED BY <2>6, <2>7, Zenon DEF peak
<1>6. \A name : Quantity(podRequests(pod), name)
                  = Quantity(w, name) + Quantity(pod.overhead, name)
  BY <1>1, <1>3, AddLists
<1>7. ASSUME NEW name PROVE Quantity(podRequests(pod), name) = PeakDemand(pod, name)
  <2>1. Quantity(w, name) \in Nat /\ Quantity(pod.overhead, name) \in Nat
    BY <1>3, QuantityType
  <2>2. PeakDemand(pod, name) = Quantity(pod.overhead, name) + Quantity(w, name)
    BY <1>5, Zenon DEF PeakDemand
  <2> QED BY <1>6, <2>1, <2>2
<1> QED BY <1>1, <1>3, <1>7, AddLists

(* What the pods of a node request together. *)
LEMMA TotalRequestsIsSum ==
  ASSUME NEW pods, IsList(pods), \A k \in DOMAIN pods : IsPod(pods[k]), NEW name
  PROVE  /\ Quantity(computeTotalRequests(pods), name)
              = Sum([k \in DOMAIN pods |-> PeakDemand(pods[k], name)])
         /\ Quantity(computeTotalRequests(pods), name) \in Nat
<1> DEFINE n == Len(pods)
           lists == [k \in DOMAIN pods |-> podRequests(pods[k])]
<1>1. n \in Nat /\ DOMAIN pods = 1 .. n
  BY ListFacts
<1>2. IsList(lists) /\ Len(lists) = n
  BY <1>1, MapFacts
<1>3. \A i \in 1 .. n : IsResourceList(lists[i])
  BY <1>1, PodRequestsIsPeak
<1>4. /\ IsResourceList(AddAll(lists))
      /\ Quantity(AddAll(lists), name) = Sum([i \in 1 .. n |-> Quantity(lists[i], name)])
  <2> HIDE DEF lists, n
  <2> QED BY <1>2, <1>3, AddAllIsSum
<1>5. \A k \in 1 .. n : Quantity(lists[k], name) = PeakDemand(pods[k], name)
  BY <1>1, PodRequestsIsPeak
<1> DEFINE demands == [k \in 1 .. n |-> PeakDemand(pods[k], name)]
<1>6. [i \in 1 .. n |-> Quantity(lists[i], name)] = demands
  BY <1>5, Zenon
<1>7. demands = [k \in DOMAIN pods |-> PeakDemand(pods[k], name)]
  BY <1>1
<1>8. computeTotalRequests(pods) = AddAll(lists)
  BY DEF computeTotalRequests
<1> QED BY <1>4, <1>6, <1>7, <1>8, QuantityType, Zenon

(* The property RequestsWithinLimits, of one pod and one resource. *)
LEMMA PodWithinLimits ==
  ASSUME NEW pod, IsPod(pod), NEW name \in DOMAIN podLimits(pod),
         podLimits(pod)[name] > 0,
         \A c \in Range(pod.containers) \cup Range(pod.init) :
           /\ c.status = NoStatus
           /\ name \in DOMAIN c.limits
           /\ Quantity(c.requests, name) <= c.limits[name]
  PROVE  Quantity(podRequests(pod), name) <= podLimits(pod)[name]
<1> DEFINE n == Len(pod.containers)
           nI == Len(pod.init)
           lists == [i \in DOMAIN pod.containers |-> pod.containers[i].limits]
           mainR == AddAll(MainLists(pod))
           mainL == AddAll(lists)
           wR == WithInit(mainR, pod.init, "requests")
           wL == WithInit(mainL, pod.init, "limits")
           over == Quantity(pod.overhead, name)
<1>1. /\ n \in Nat /\ DOMAIN pod.containers = 1 .. n
      /\ nI \in Nat /\ DOMAIN pod.init = 1 .. nI
  BY ListFacts DEF IsPod
<1>2. \A i \in 1 .. n :
         /\ IsContainer(pod.containers[i])
         /\ pod.containers[i].status = NoStatus
         /\ name \in DOMAIN pod.containers[i].limits
         /\ Quantity(pod.containers[i].requests, name) <= pod.containers[i].limits[name]
  BY <1>1 DEF IsPod, Range
<1>3. \A i \in 1 .. nI :
         /\ IsContainer(pod.init[i])
         /\ name \in DOMAIN pod.init[i].limits
         /\ Quantity(pod.init[i].requests, name) <= pod.init[i].limits[name]
  BY <1>1 DEF IsPod, Range
<1>4. IsResourceList(mainR) /\ Quantity(mainR, name) = MainDemand(pod, name)
  BY MainIsSum
<1>5. IsList(lists) /\ Len(lists) = n /\ \A i \in 1 .. n : IsResourceList(lists[i])
  <2>1. IsList(lists) /\ Len(lists) = n
    BY <1>1, MapFacts
  <2> QED BY <2>1, <1>1, <1>2 DEF IsContainer
<1> DEFINE qR == [i \in 1 .. n |-> Quantity(pod.containers[i].requests, name)]
           qL == [i \in 1 .. n |-> Quantity(pod.containers[i].limits, name)]
<1>6. IsResourceList(mainL) /\ Quantity(mainL, name) = Sum(qL)
  <2>1. [i \in 1 .. n |-> Quantity(lists[i], name)] = qL
    BY <1>1
  <2> HIDE DEF lists, qL, n
  <2> QED BY <1>5, <2>1, AddAllIsSum
<1>7. MainDemand(pod, name) = Sum(qR)
  <2>1. \A i \in 1 .. n : ContainerRequests(pod, pod.containers[i])
                            = pod.containers[i].requests
    BY <1>2 DEF ContainerRequests
  <2>2. [i \in DOMAIN pod.containers |->
           Quantity(ContainerRequests(pod, pod.containers[i]), name)] = qR
    BY <1>1, <2>1
  <2> QED BY <2>2 DEF MainDemand
<1>8. Quantity(mainR, name) <= Quantity(mainL, name)
  <2>1. Len(qR) = n /\ Len(qL) = n
    BY <1>1, MapFacts
  <2>2. \A i \in 1 .. n : qR[i] \in Nat /\ qL[i] \in Nat /\ qR[i] <= qL[i]
    <3> TAKE i \in 1 .. n
    <3>1. IsResourceList(pod.containers[i].requests) /\ IsResourceList(pod.containers[i].limits)
      BY <1>2 DEF IsContainer
    <3>2. Quantity(pod.containers[i].limits, name) = pod.containers[i].limits[name]
      BY <1>2 DEF Quantity
    <3> QED BY <1>2, <3>1, <3>2, QuantityType
  <2> HIDE DEF qR, qL, n
  <2>3. Sums(qR)[n] <= Sums(qL)[n]
    <3>1. n \in 0 .. n
      BY <1>1
    <3> QED BY <1>1, <2>1, <2>2, <3>1, SumsMonotone, Zenon
  <2> QED BY <1>4, <1>6, <1>7, <2>1, <2>3 DEF Sum
<1> HIDE DEF lists, mainR, mainL, qR, qL, n
<1>9. AreInit(pod.init, "requests") /\ AreInit(pod.init, "limits")
  BY PodInit
<1> DEFINE sR == SidecarDemands(pod.init, "requests", name)
           sL == SidecarDemands(pod.init, "limits", name)
<1>10. \A i \in 1 .. nI :
          /\ Quantity(pod.init[i].requests, name) \in Nat
          /\ Quantity(pod.init[i].limits, name) \in Nat
          /\ Quantity(pod.init[i].requests, name) <= Quantity(pod.init[i].limits, name)
          /\ pod.init[i].always \in BOOLEAN
  <2> TAKE i \in 1 .. nI
  <2>1. /\ IsResourceList(pod.init[i].requests) /\ IsResourceList(pod.init[i].limits)
        /\ pod.init[i].always \in BOOLEAN
    BY <1>3 DEF IsContainer
  <2>2. Quantity(pod.init[i].limits, name) = pod.init[i].limits[name]
    BY <1>3 DEF Quantity
  <2> QED BY <1>3, <2>1, <2>2, QuantityType
<1>11. Len(sR) = nI /\ Len(sL) = nI
  BY <1>9, DemandFacts
<1>12. \A k \in 0 .. nI : /\ Sums(sR)[k] <= Sums(sL)[k]
                          /\ Sums(sR)[k] \in Nat /\ Sums(sL)[k] \in Nat
  <2>1. \A i \in 1 .. nI : sR[i] \in Nat /\ sL[i] \in Nat /\ sR[i] <= sL[i]
    BY <1>10 DEF SidecarDemands
  <2>2. \A k \in 0 .. nI : Sums(sR)[k] \in Nat /\ Sums(sL)[k] \in Nat
    BY <1>9, DemandFacts
  <2> HIDE DEF sR, sL, nI
  <2>3. \A k \in 0 .. nI : Sums(sR)[k] <= Sums(sL)[k]
    BY <1>1, <1>11, <2>1, SumsMonotone, Zenon
  <2> QED BY <2>2, <2>3
<1>13. \A m \in 1 .. nI :
          /\ InitPhase(pod.init, "requests", name, m) <= InitPhase(pod.init, "limits", name, m)
          /\ InitPhase(pod.init, "requests", name, m) \in Nat
          /\ InitPhase(pod.init, "limits", name, m) \in Nat
  <2> TAKE m \in 1 .. nI
  <2>1. m - 1 \in 0 .. nI
    BY <1>1
  <2>2. /\ Demands(pod.init, "requests", name)[m] = Quantity(pod.init[m].requests, name)
        /\ Demands(pod.init, "limits", name)[m] = Quantity(pod.init[m].limits, name)
    BY DEF Demands
  <2>3. Sums(sR)[m - 1] <= Sums(sL)[m - 1] /\ Sums(sR)[m - 1] \in Nat /\ Sums(sL)[m - 1] \in Nat
    BY <1>12, <2>1
  <2> DEFINE r == Quantity(pod.init[m].requests, name)
             l == Quantity(pod.init[m].limits, name)
  <2>4. r \in Nat /\ l \in Nat /\ r <= l
    BY <1>10
  <2>5. /\ InitPhase(pod.init, "requests", name, m) = r + Sums(sR)[m - 1]
        /\ InitPhase(pod.init, "limits", name, m) = l + Sums(sL)[m - 1]
    BY <2>2, Zenon DEF InitPhase
  <2> DEFINE x == Sums(sR)[m - 1]
             y == Sums(sL)[m - 1]
  <2>6. x \in Nat /\ y \in Nat /\ x <= y
    BY <2>3, Zenon
  <2> HIDE DEF r, l, x, y, nI
  <2>7. r + x <= l + y /\ r + x \in Nat /\ l + y \in Nat
    BY <2>4, <2>6
  <2> QED BY <2>5, <2>7, Zenon DEF x, y
<1>14. /\ IsResourceList(wR)
       /\ \/ Quantity(wR, name) = Quantity(mainR, name) + Sums(sR)[nI]
          \/ \E m \in 1 .. nI : Quantity(wR, name) = InitPhase(pod.init, "requests", name, m)
  BY <1>4, <1>9, PeakIsReached, SMTT(30)
<1>15. /\ IsResourceList(wL)
       /\ Quantity(mainL, name) + Sums(sL)[nI] <= Quantity(wL, name)
       /\ \A m \in 1 .. nI : InitPhase(pod.init, "limits", name, m) <= Quantity(wL, name)
  BY <1>6, <1>9, WithInitIsPeak
<1>16. podRequests(pod) = addResourceList(wR, pod.overhead)
  BY DEF podRequests, MainLists, mainR
<1>17. podLimits(pod) = [l \in DOMAIN wL |->
                           IF wL[l] = 0 THEN 0 ELSE wL[l] + Quantity(pod.overhead, l)]
  BY DEF podLimits, mainL, lists
<1> HIDE DEF wR, wL, sR, sL, nI
<1>18. /\ Quantity(wR, name) \in Nat /\ Quantity(wL, name) \in Nat
       /\ Quantity(mainR, name) \in Nat /\ Quantity(mainL, name) \in Nat
       /\ IsResourceList(pod.overhead) /\ over \in Nat
  BY <1>4, <1>6, <1>14, <1>15, QuantityType DEF IsPod
<1>19. Quantity(wR, name) <= Quantity(wL, name)
  <2>1. CASE Quantity(wR, name) = Quantity(mainR, name) + Sums(sR)[nI]
    <3>1. nI \in 0 .. nI
      BY <1>1
    <3>2. Sums(sR)[nI] <= Sums(sL)[nI] /\ Sums(sR)[nI] \in Nat /\ Sums(sL)[nI] \in Nat
      BY <1>12, <3>1
    <3> QED BY <1>8, <1>15, <1>18, <2>1, <3>2
  <2>2. ASSUME NEW m \in 1 .. nI, Quantity(wR, name) = InitPhase(pod.init, "requests", name, m)
        PROVE  Quantity(wR, name) <= Quantity(wL, name)
    <3>1. InitPhase(pod.init, "limits", name, m) <= Quantity(wL, name)
      BY <1>15
    <3>2. /\ InitPhase(pod.init, "requests", name, m) <= InitPhase(pod.init, "limits", name, m)
          /\ InitPhase(pod.init, "requests", name, m) \in Nat
          /\ InitPhase(pod.init, "limits", name, m) \in Nat
      BY <1>13
    <3> QED BY <1>18, <2>2, <3>1, <3>2
  <2> QED BY <1>14, <2>1, <2>2
<1>20. name \in DOMAIN wL /\ podLimits(pod)[name] = wL[name] + over
  <2>1. name \in DOMAIN wL
    BY <1>17
  <2>2. podLimits(pod)[name] = IF wL[name] = 0 THEN 0 ELSE wL[name] + over
    BY <1>17, <2>1
  <2>3. podLimits(pod)[name] # 0
    OBVIOUS
  <2> QED BY <2>1, <2>2, <2>3
<1>21. wL[name] = Quantity(wL, name)
  BY <1>20 DEF Quantity
<1>22. Quantity(podRequests(pod), name) = Quantity(wR, name) + over
  <2>1. Quantity(addResourceList(wR, pod.overhead), name) = Quantity(wR, name) + over
    BY <1>14, <1>18, AddLists, SMTT(30)
  <2> QED BY <1>16, <2>1, Zenon
<1> HIDE DEF over
<1> QED BY <1>18, <1>19, <1>20, <1>21, <1>22

-----------------------------------------------------------------------------
(* What the jobspec asks for. *)

(* A core has this many. *)
Milli == 1000

LEMMA ValueRoundsUp ==
  ASSUME NEW q \in Nat
  PROVE  Value(q) \in Nat /\ q <= Milli * Value(q) /\ Milli * Value(q) < q + Milli
BY DEF Value, Milli

LEMMA RoundedStep ==
  ASSUME NEW x \in Nat, NEW y \in Nat, NEW p \in Nat, NEW q \in Nat, NEW k \in Nat,
         x <= Milli * y, y = 0 \/ Milli * y < x + Milli * k,
         p <= Milli * q, Milli * q < p + Milli
  PROVE  /\ x + p <= Milli * (y + q)
         /\ y + q = 0 \/ Milli * (y + q) < x + p + Milli * (k + 1)
BY DEF Milli

(* Rounding each number up loses less than one unit for each. *)
LEMMA RoundedSums ==
  ASSUME NEW a, NEW b, Len(a) \in Nat, Len(b) = Len(a),
         \A i \in 1 .. Len(a) : a[i] \in Nat /\ b[i] = Value(a[i])
  PROVE  \A k \in 0 .. Len(a) :
           /\ Sums(a)[k] \in Nat /\ Sums(b)[k] \in Nat
           /\ Sums(a)[k] <= Milli * Sums(b)[k]
           /\ Sums(b)[k] = 0 \/ Milli * Sums(b)[k] < Sums(a)[k] + Milli * k
<1> DEFINE S == {k \in Nat : k <= Len(a) =>
                   /\ Sums(a)[k] <= Milli * Sums(b)[k]
                   /\ Sums(b)[k] = 0 \/ Milli * Sums(b)[k] < Sums(a)[k] + Milli * k}
<1>1. \A i \in 1 .. Len(a) : /\ a[i] \in Nat /\ b[i] \in Nat
                             /\ a[i] <= Milli * b[i] /\ Milli * b[i] < a[i] + Milli
  <2> TAKE i \in 1 .. Len(a)
  <2>1. a[i] \in Nat /\ b[i] = Value(a[i])
    OBVIOUS
  <2>2. /\ Value(a[i]) \in Nat /\ a[i] <= Milli * Value(a[i])
        /\ Milli * Value(a[i]) < a[i] + Milli
    BY <2>1, ValueRoundsUp, Zenon
  <2> QED BY <2>1, <2>2, Zenon
<1>2. \A k \in 0 .. Len(a) : Sums(a)[k] \in Nat /\ Sums(b)[k] \in Nat
  BY <1>1, SumsType
<1>3. 0 \in S
  BY SumsTurn DEF Milli
<1>4. ASSUME NEW k \in Nat, k \in S PROVE k + 1 \in S
  <2>1. SUFFICES ASSUME k + 1 <= Len(a)
                 PROVE  /\ Sums(a)[k + 1] <= Milli * Sums(b)[k + 1]
                        /\ \/ Sums(b)[k + 1] = 0
                           \/ Milli * Sums(b)[k + 1] < Sums(a)[k + 1] + Milli * (k + 1)
    OBVIOUS
  <2>2. k + 1 \in 1 .. Len(a) /\ (k + 1) - 1 = k /\ k \in 0 .. Len(a)
    BY <2>1
  <2>3. Sums(a)[k + 1] = Sums(a)[k] + a[k + 1]
    BY <2>2, SumsTurn
  <2>4. Sums(b)[k + 1] = Sums(b)[k] + b[k + 1]
    BY <2>2, SumsTurn
  <2>5. Sums(a)[k] \in Nat /\ Sums(b)[k] \in Nat
    BY <1>2, <2>2
  <2>6. /\ Sums(a)[k] <= Milli * Sums(b)[k]
        /\ Sums(b)[k] = 0 \/ Milli * Sums(b)[k] < Sums(a)[k] + Milli * k
    BY <1>4, <2>2
  <2>7. /\ a[k + 1] \in Nat /\ b[k + 1] \in Nat
        /\ a[k + 1] <= Milli * b[k + 1] /\ Milli * b[k + 1] < a[k + 1] + Milli
    BY <1>1, <2>2, Zenon
  <2>8. /\ Sums(a)[k] + a[k + 1] <= Milli * (Sums(b)[k] + b[k + 1])
        /\ \/ Sums(b)[k] + b[k + 1] = 0
           \/ Milli * (Sums(b)[k] + b[k + 1])
                < Sums(a)[k] + a[k + 1] + Milli * (k + 1)
    BY <2>5, <2>6, <2>7, RoundedStep, Zenon
  <2> QED BY <2>3, <2>4, <2>8, Zenon
<1> HIDE DEF S
<1>5. \A k \in Nat : k \in S
  BY <1>3, <1>4, SetInduction, Zenon
<1>6. ASSUME NEW k \in 0 .. Len(a)
      PROVE  /\ Sums(a)[k] <= Milli * Sums(b)[k]
             /\ Sums(b)[k] = 0 \/ Milli * Sums(b)[k] < Sums(a)[k] + Milli * k
  <2>1. k \in Nat /\ k <= Len(a)
    OBVIOUS
  <2>2. k \in S
    BY <1>5, <2>1, Zenon
  <2> QED BY <2>1, <2>2, Zenon DEF S
<1> QED BY <1>2, <1>6, Zenon

(* An int32 that is not left stays the number it is. *)
LEMMA SmallModulus ==
  ASSUME NEW m \in Nat \ {0}, NEW x \in 0 .. m - 1
  PROVE  x % m = x
OBVIOUS

LEMMA Int32Holds ==
  ASSUME NEW x \in Nat, x < Int32Limit
  PROVE  int32(x) = x
<1> DEFINE l == Int32Limit
<1>1. l \in Nat /\ 2 * l \in Nat \ {0} /\ x + l \in 0 .. (2 * l) - 1
  BY Int32Assumption
<1>2. (x + l) % (2 * l) = x + l
  BY <1>1, SmallModulus, Zenon
<1>3. int32(x) = (x + l) - l
  BY <1>2, Zenon DEF int32
<1> QED BY <1>1, <1>3

LEMMA CpusDefined ==
  ASSUME NEW containers, Len(containers) \in Nat
  PROVE  Cpus(containers) =
           [i \in 0 .. Len(containers) |->
              IF i = 0 THEN 0
              ELSE int32(Cpus(containers)[i - 1] + int32(Cpu(containers[i])))]
<1> DEFINE Is(g, k) ==
      g = [i \in 0 .. k |->
             IF i = 0 THEN 0 ELSE int32(g[i - 1] + int32(Cpu(containers[i])))]
<1> DEFINE S == {k \in Nat : \E g : Is(g, k)}
<1>1. 0 \in S
  <2> DEFINE g == [i \in 0 .. 0 |-> 0]
  <2>1. Is(g, 0)
    OBVIOUS
  <2> QED BY <2>1, Zenon
<1>2. ASSUME NEW k \in Nat, k \in S PROVE k + 1 \in S
  <2>1. PICK g : Is(g, k)
    BY <1>2
  <2> DEFINE h == [i \in 0 .. k + 1 |->
                     IF i = k + 1 THEN int32(g[k] + int32(Cpu(containers[k + 1])))
                     ELSE g[i]]
  <2>2. \A i \in 0 .. k :
           g[i] = IF i = 0 THEN 0 ELSE int32(g[i - 1] + int32(Cpu(containers[i])))
    BY <2>1, Zenon
  <2>3. \A i \in 0 .. k + 1 :
           h[i] = IF i = 0 THEN 0 ELSE int32(h[i - 1] + int32(Cpu(containers[i])))
    <3> TAKE i \in 0 .. k + 1
    <3>1. CASE i = 0
      BY <2>2, <3>1
    <3>2. CASE i \in 1 .. k
      BY <2>2, <3>2
    <3>3. CASE i = k + 1
      BY <3>3
    <3> QED BY <3>1, <3>2, <3>3
  <2> HIDE DEF h
  <2>4. h = [i \in 0 .. k + 1 |-> h[i]]
    BY DEF h
  <2>5. Is(h, k + 1)
    BY <2>3, <2>4, Zenon
  <2> HIDE DEF Is
  <2> QED BY <2>5
<1>3. \E g : Is(g, Len(containers))
  <2> HIDE DEF Is
  <2>1. \A k \in Nat : k \in S
    BY <1>1, <1>2, SetInduction, Zenon
  <2> QED BY <2>1
<1> QED BY <1>3, Zenon DEF Cpus

(* Sums of natural numbers only grow. *)
LEMMA SumsGrow ==
  ASSUME NEW a, Len(a) \in Nat, \A i \in 1 .. Len(a) : a[i] \in Nat
  PROVE  \A k \in 0 .. Len(a) : \A j \in 0 .. k : Sums(a)[j] <= Sums(a)[k]
<1> DEFINE S == {k \in Nat : k <= Len(a) => \A j \in 0 .. k : Sums(a)[j] <= Sums(a)[k]}
<1>1. \A k \in 0 .. Len(a) : Sums(a)[k] \in Nat
  BY SumsType
<1>2. 0 \in S
  <2>1. Sums(a)[0] <= Sums(a)[0] /\ 0 .. 0 = {0}
    BY <1>1
  <2> QED BY <2>1
<1>3. ASSUME NEW k \in Nat, k \in S PROVE k + 1 \in S
  <2> SUFFICES ASSUME k + 1 <= Len(a), NEW j \in 0 .. k + 1
               PROVE  Sums(a)[j] <= Sums(a)[k + 1]
    OBVIOUS
  <2>1. k + 1 \in 1 .. Len(a) /\ (k + 1) - 1 = k /\ k \in 0 .. Len(a)
        /\ j \in 0 .. Len(a) /\ k + 1 \in 0 .. Len(a)
    OBVIOUS
  <2>2. Sums(a)[k + 1] = Sums(a)[k] + a[k + 1] /\ a[k + 1] \in Nat
    BY <2>1, SumsTurn
  <2>3. Sums(a)[k] \in Nat /\ Sums(a)[k + 1] \in Nat /\ Sums(a)[j] \in Nat
    BY <1>1, <2>1
  <2>4. j \in 0 .. k => Sums(a)[j] <= Sums(a)[k]
    BY <1>3, <2>1
  <2>5. j \in 0 .. k \/ j = k + 1
    OBVIOUS
  <2> QED BY <2>2, <2>3, <2>4, <2>5
<1> HIDE DEF S
<1>4. \A k \in Nat : k \in S
  BY <1>2, <1>3, SetInduction, Zenon
<1> QED BY <1>4 DEF S

(* While the sum is one of an int32, the loop adds up without overflow. *)
LEMMA CpusAreSums ==
  ASSUME NEW containers, Len(containers) \in Nat,
         NEW b, Len(b) = Len(containers),
         \A i \in 1 .. Len(b) : b[i] = Cpu(containers[i]) /\ b[i] \in Nat,
         Sums(b)[Len(b)] < Int32Limit
  PROVE  Cpus(containers)[Len(containers)] = Sums(b)[Len(b)]
<1> DEFINE n == Len(b)
           c == Cpus(containers)
           S == {k \in Nat : k <= n => c[k] = Sums(b)[k]}
<1>1. n \in Nat /\ n = Len(containers) /\ Int32Limit \in Nat
  BY Int32Assumption
<1>2. \A i \in 0 .. n :
         c[i] = IF i = 0 THEN 0 ELSE int32(c[i - 1] + int32(Cpu(containers[i])))
  <2>1. c = [i \in 0 .. n |->
               IF i = 0 THEN 0 ELSE int32(c[i - 1] + int32(Cpu(containers[i])))]
    BY <1>1, CpusDefined, Zenon
  <2> HIDE DEF c
  <2> QED BY <2>1, Zenon
<1>3. \A k \in 0 .. n : Sums(b)[k] \in Nat /\ Sums(b)[k] <= Sums(b)[n]
  <2>1. n \in 0 .. n
    BY <1>1
  <2> QED BY <1>1, <2>1, SumsType, SumsGrow
<1>4. \A k \in 0 .. n : Sums(b)[k] < Int32Limit
  <2>1. Sums(b)[n] \in Nat
    BY <1>1, <1>3
  <2> QED BY <1>1, <1>3, <2>1
<1> HIDE DEF c, n
<1>5. 0 \in S
  <2>1. 0 \in 0 .. n
    BY <1>1
  <2>2. Sums(b)[0] = 0
    BY <1>1, SumsTurn DEF n
  <2> QED BY <1>2, <2>1, <2>2
<1>6. ASSUME NEW k \in Nat, k \in S PROVE k + 1 \in S
  <2> SUFFICES ASSUME k + 1 <= n PROVE c[k + 1] = Sums(b)[k + 1]
    OBVIOUS
  <2>1. k + 1 \in 1 .. n /\ (k + 1) - 1 = k /\ k \in 0 .. n /\ k + 1 \in 0 .. n /\ k + 1 # 0
    BY <1>1
  <2>2. c[k] = Sums(b)[k]
    BY <1>1, <1>6
  <2>3. Sums(b)[k + 1] = Sums(b)[k] + b[k + 1]
    BY <1>1, <2>1, SumsTurn DEF n
  <2>4. b[k + 1] = Cpu(containers[k + 1]) /\ b[k + 1] \in Nat
    BY <2>1 DEF n
  <2>5. Sums(b)[k] \in Nat /\ Sums(b)[k + 1] \in Nat /\ Sums(b)[k + 1] < Int32Limit
    BY <1>3, <1>4, <2>1
  <2>6. b[k + 1] < Int32Limit
    BY <1>1, <2>3, <2>4, <2>5
  <2>7. int32(b[k + 1]) = b[k + 1]
    BY <2>4, <2>6, Int32Holds, Zenon
  <2>8. c[k + 1] = int32(c[k] + int32(b[k + 1]))
    BY <1>2, <2>1, <2>4
  <2>9. c[k + 1] = int32(Sums(b)[k + 1])
    BY <2>2, <2>3, <2>7, <2>8, Zenon
  <2> QED BY <2>5, <2>9, Int32Holds, Zenon
<1>7. n \in S
  <2> HIDE DEF S
  <2> QED BY <1>1, <1>5, <1>6, SetInduction, Zenon
<1>8. c[n] = Sums(b)[n]
  BY <1>1, <1>7
<1> QED BY <1>1, <1>8 DEF c, n

(* What is within a sum at each place is within the sum of the sums. *)
LEMMA SumsBounded ==
  ASSUME NEW x, NEW a, NEW e, Len(x) \in Nat, Len(a) = Len(x), Len(e) = Len(x),
         \A i \in 1 .. Len(x) : /\ x[i] \in Nat /\ a[i] \in Nat /\ e[i] \in Nat
                                /\ x[i] <= a[i] + e[i]
  PROVE  Sums(x)[Len(x)] <= Sums(a)[Len(x)] + Sums(e)[Len(x)]
<1> DEFINE n == Len(x)
           S == {k \in Nat : k <= n => Sums(x)[k] <= Sums(a)[k] + Sums(e)[k]}
<1>1. \A k \in 0 .. n : Sums(x)[k] \in Nat /\ Sums(a)[k] \in Nat /\ Sums(e)[k] \in Nat
  BY SumsType
<1>2. /\ Sums(x)[0] = 0 /\ Sums(a)[0] = 0 /\ Sums(e)[0] = 0
      /\ \A k \in 1 .. n : /\ Sums(x)[k] = Sums(x)[k - 1] + x[k]
                           /\ Sums(a)[k] = Sums(a)[k - 1] + a[k]
                           /\ Sums(e)[k] = Sums(e)[k - 1] + e[k]
  BY SumsTurn
<1>3. 0 \in S
  BY <1>2
<1>4. ASSUME NEW k \in Nat, k \in S PROVE k + 1 \in S
  <2> SUFFICES ASSUME k + 1 <= n
               PROVE  Sums(x)[k + 1] <= Sums(a)[k + 1] + Sums(e)[k + 1]
    OBVIOUS
  <2>1. k + 1 \in 1 .. n /\ (k + 1) - 1 = k /\ k \in 0 .. n
    OBVIOUS
  <2>2. /\ Sums(x)[k + 1] = Sums(x)[k] + x[k + 1]
        /\ Sums(a)[k + 1] = Sums(a)[k] + a[k + 1]
        /\ Sums(e)[k + 1] = Sums(e)[k] + e[k + 1]
    BY <1>2, <2>1
  <2>3. /\ x[k + 1] \in Nat /\ a[k + 1] \in Nat /\ e[k + 1] \in Nat
        /\ x[k + 1] <= a[k + 1] + e[k + 1]
    BY <2>1
  <2>4. Sums(x)[k] <= Sums(a)[k] + Sums(e)[k]
    BY <1>4, <2>1
  <2>5. Sums(x)[k] \in Nat /\ Sums(a)[k] \in Nat /\ Sums(e)[k] \in Nat
    BY <1>1, <2>1
  <2>6. Sums(x)[k] + x[k + 1] <= (Sums(a)[k] + a[k + 1]) + (Sums(e)[k] + e[k + 1])
    BY <2>3, <2>4, <2>5, BoundsAdd, Zenon
  <2> QED BY <2>2, <2>6, Zenon
<1> HIDE DEF S
<1>5. n \in S
  BY <1>3, <1>4, SetInduction, Zenon
<1> QED BY <1>5 DEF S

(* No phase of a pod needs more than all its containers together. *)
LEMMA PeakBounded ==
  ASSUME NEW containers, IsResourceList(containers),
         NEW init, NEW field, AreInit(init, field), NEW name,
         NEW w, w = WithInit(containers, init, field)
  PROVE  /\ IsResourceList(w)
         /\ Quantity(w, name)
              <= Quantity(containers, name) + Sums(Demands(init, field, name))[Len(init)]
<1> DEFINE n == Len(init)
           d == Demands(init, field, name)
           s == SidecarDemands(init, field, name)
           main == Quantity(containers, name)
<1>1. /\ n \in Nat /\ Len(d) = n /\ Len(s) = n
      /\ \A i \in 1 .. n : d[i] \in Nat /\ s[i] \in Nat
      /\ \A k \in 0 .. n : Sums(s)[k] \in Nat
  BY DemandFacts, Zenon
<1>2. \A i \in 1 .. n : s[i] <= d[i]
  <2> TAKE i \in 1 .. n
  <2>1. d[i] \in Nat /\ (s[i] = d[i] \/ s[i] = 0)
    BY <1>1 DEF Demands, SidecarDemands
  <2> QED BY <2>1
<1>3. main \in Nat
  BY QuantityType
<1>4. /\ IsResourceList(w)
      /\ \/ Quantity(w, name) = main + Sums(s)[n]
         \/ \E m \in 1 .. n : Quantity(w, name) = d[m] + Sums(s)[m - 1]
  <2>1. /\ IsResourceList(w)
        /\ \/ Quantity(w, name) = main + Sums(s)[n]
           \/ \E m \in 1 .. n : Quantity(w, name) = InitPhase(init, field, name, m)
    BY PeakIsReached
  <2>2. \A m : InitPhase(init, field, name, m) = d[m] + Sums(s)[m - 1]
    BY Zenon DEF InitPhase
  <2> QED BY <2>1, <2>2, Zenon
<1> HIDE DEF n, d, s, main
<1>5. \A k \in 0 .. n : Sums(d)[k] \in Nat /\ Sums(s)[k] <= Sums(d)[k]
  BY <1>1, <1>2, SumsType, SumsMonotone
<1>6. \A k \in 0 .. n : Sums(d)[k] <= Sums(d)[n]
  <2>1. n \in 0 .. n
    BY <1>1
  <2> QED BY <1>1, <2>1, SumsGrow
<1>7. CASE Quantity(w, name) = main + Sums(s)[n]
  <2>1. Sums(s)[n] \in Nat /\ Sums(d)[n] \in Nat /\ Sums(s)[n] <= Sums(d)[n]
    BY <1>1, <1>5
  <2> QED BY <1>3, <1>4, <1>7, <2>1 DEF n, d, main
<1>8. ASSUME NEW m \in 1 .. n, Quantity(w, name) = d[m] + Sums(s)[m - 1]
      PROVE  Quantity(w, name) <= main + Sums(d)[n]
  <2>1. m - 1 \in 0 .. n /\ m \in 0 .. n /\ n \in 0 .. n
    BY <1>1
  <2>2. Sums(d)[m] = Sums(d)[m - 1] + d[m]
    BY <1>1, SumsTurn
  <2>3. /\ Sums(s)[m - 1] \in Nat /\ Sums(d)[m - 1] \in Nat /\ Sums(d)[m] \in Nat
        /\ Sums(d)[n] \in Nat /\ d[m] \in Nat
    BY <1>1, <1>5, <2>1
  <2>4. Sums(s)[m - 1] <= Sums(d)[m - 1] /\ Sums(d)[m] <= Sums(d)[n]
    BY <1>5, <1>6, <2>1
  <2> QED BY <1>3, <1>8, <2>2, <2>3, <2>4
<1> QED BY <1>4, <1>7, <1>8 DEF n, d, main

(* What the graph takes off for a pod, beside its containers' own requests. *)
LEMMA UsedBounded ==
  ASSUME NEW pod, IsPod(pod), NEW name
  PROVE  /\ Quantity(podRequests(pod), name) \in Nat /\ OwnDemand(pod, name) \in Nat
         /\ Extras(pod, name) \in Nat
         /\ Quantity(podRequests(pod), name) <= OwnDemand(pod, name) + Extras(pod, name)
<1> DEFINE n == Len(pod.containers)
           x == [i \in 1 .. n |-> Quantity(ContainerRequests(pod, pod.containers[i]), name)]
           a == [i \in 1 .. n |-> Quantity(pod.containers[i].requests, name)]
           e == [i \in 1 .. n |-> Growth(pod, pod.containers[i], name)]
           m == Len(pod.init)
           d == Demands(pod.init, "requests", name)
           main == AddAll(MainLists(pod))
           w == WithInit(main, pod.init, "requests")
           over == Quantity(pod.overhead, name)
<1>1. /\ n \in Nat /\ DOMAIN pod.containers = 1 .. n
      /\ m \in Nat /\ DOMAIN pod.init = 1 .. m
  BY ListFacts DEF IsPod
<1>2. Len(x) = n /\ Len(a) = n /\ Len(e) = n
  BY <1>1, MapFacts
<1>3. \A i \in 1 .. n : /\ x[i] \in Nat /\ a[i] \in Nat /\ e[i] \in Nat
                        /\ x[i] <= a[i] + e[i]
  <2> TAKE i \in 1 .. n
  <2>1. IsContainer(pod.containers[i]) /\ pod.infeasible \in BOOLEAN
    BY <1>1 DEF IsPod
  <2>2. IsResourceList(ContainerRequests(pod, pod.containers[i]))
        /\ IsResourceList(pod.containers[i].requests)
    BY <2>1, ContainerRequestsType DEF IsContainer
  <2>3. x[i] \in Nat /\ a[i] \in Nat
    BY <2>2, QuantityType
  <2>4. e[i] = Larger(0, x[i] - a[i])
    BY Zenon DEF Growth
  <2> QED BY <2>3, <2>4, ExcessFacts, Zenon
<1>4. MainDemand(pod, name) = Sum(x) /\ OwnDemand(pod, name) = Sum(a)
  BY <1>1 DEF MainDemand, OwnDemand
<1>5. Extras(pod, name) = over + Sum(d) + Sum(e)
  <2>1. [i \in DOMAIN pod.init |-> InitDemand(pod, i, name)] = d
    BY <1>1 DEF Demands, InitDemand
  <2>2. [i \in DOMAIN pod.containers |-> Growth(pod, pod.containers[i], name)] = e
    BY <1>1
  <2> QED BY <2>1, <2>2, Zenon DEF Extras
<1>6. IsResourceList(main) /\ Quantity(main, name) = MainDemand(pod, name)
  BY MainIsSum
<1>7. AreInit(pod.init, "requests") /\ IsResourceList(pod.overhead)
  BY PodInit DEF IsPod
<1>8. podRequests(pod) = addResourceList(w, pod.overhead)
  BY DEF podRequests, MainLists
<1> HIDE DEF main
<1>9. /\ Len(d) = m /\ \A i \in 1 .. m : d[i] \in Nat
  BY <1>7, DemandFacts, Zenon
<1>10. IsResourceList(w) /\ Quantity(w, name) <= Quantity(main, name) + Sums(d)[m]
  BY <1>6, <1>7, PeakBounded, Zenon
<1>11. Quantity(podRequests(pod), name) = Quantity(w, name) + over
  BY <1>7, <1>8, <1>10, AddLists
<1>12. over \in Nat /\ Quantity(w, name) \in Nat
  BY <1>7, <1>10, QuantityType
<1> HIDE DEF n, x, a, e, m, d, w, over
<1>13. Sums(x)[n] <= Sums(a)[n] + Sums(e)[n]
  BY <1>1, <1>2, <1>3, SumsBounded
<1>14. Sum(x) = Sums(x)[n] /\ Sum(a) = Sums(a)[n] /\ Sum(e) = Sums(e)[n] /\ Sum(d) = Sums(d)[m]
  BY <1>2, <1>9, Zenon DEF Sum
<1>15. Sum(x) \in Nat /\ Sum(a) \in Nat /\ Sum(e) \in Nat /\ Sum(d) \in Nat
  <2>1. n \in 0 .. n /\ m \in 0 .. m
    BY <1>1
  <2>2. Sums(x)[n] \in Nat
    BY <1>2, <1>3, <2>1, SumsType
  <2>3. Sums(a)[n] \in Nat
    BY <1>2, <1>3, <2>1, SumsType
  <2>4. Sums(e)[n] \in Nat
    BY <1>2, <1>3, <2>1, SumsType
  <2>5. Sums(d)[m] \in Nat
    BY <1>9, <2>1, SumsType
  <2> QED BY <1>14, <2>2, <2>3, <2>4, <2>5, Zenon
<1> QED
  BY <1>4, <1>5, <1>6, <1>10, <1>11, <1>12, <1>13, <1>14, <1>15

(* The property JobspecCoversPod, of one pod. *)
LEMMA PodCovered ==
  ASSUME NEW pod, IsPod(pod), RoundedDemand(pod, "cpu") < Int32Limit
  PROVE  LET cores == GeneratePodResources(pod.containers)
             own == OwnDemand(pod, "cpu")
         IN /\ own <= 1000 * cores
            /\ cores = 1 \/ 1000 * cores < own + 1000 * Len(pod.containers)
            /\ Quantity(podRequests(pod), "cpu") <= 1000 * cores + Extras(pod, "cpu")
<1> DEFINE n == Len(pod.containers)
           a == [i \in 1 .. n |-> Quantity(pod.containers[i].requests, "cpu")]
           b == [i \in 1 .. n |-> Value(Quantity(pod.containers[i].requests, "cpu"))]
           cores == GeneratePodResources(pod.containers)
           own == OwnDemand(pod, "cpu")
           used == Quantity(podRequests(pod), "cpu")
           extras == Extras(pod, "cpu")
<1>1. n \in Nat /\ DOMAIN pod.containers = 1 .. n
  BY ListFacts DEF IsPod
<1>2. Len(a) = n /\ Len(b) = n
  BY <1>1, MapFacts
<1>3. \A i \in 1 .. n : a[i] \in Nat /\ b[i] = Value(a[i]) /\ b[i] = Cpu(pod.containers[i])
  <2>1. \A i \in 1 .. n : IsResourceList(pod.containers[i].requests)
    BY <1>1 DEF IsPod, IsContainer
  <2> QED BY <2>1, QuantityType DEF Cpu
<1>4. own = Sum(a) /\ RoundedDemand(pod, "cpu") = Sum(b)
  BY <1>1 DEF OwnDemand, RoundedDemand
<1> HIDE DEF a, b, n
<1>5. own = Sums(a)[n] /\ Sums(b)[n] < Int32Limit
  BY <1>2, <1>4, Zenon DEF Sum
<1>6. /\ Sums(a)[n] \in Nat /\ Sums(b)[n] \in Nat
      /\ Sums(a)[n] <= Milli * Sums(b)[n]
      /\ Sums(b)[n] = 0 \/ Milli * Sums(b)[n] < Sums(a)[n] + Milli * n
  <2>1. n \in 0 .. n
    BY <1>1
  <2>2. Len(a) \in Nat /\ Len(b) = Len(a)
    BY <1>1, <1>2, Zenon
  <2>3. \A i \in 1 .. Len(a) : a[i] \in Nat /\ b[i] = Value(a[i])
    BY <1>2, <1>3, Zenon
  <2>4. n \in 0 .. Len(a)
    BY <1>2, <2>1, Zenon
  <2> QED BY <2>2, <2>3, <2>4, RoundedSums, Zenon
<1>7. \A i \in 1 .. n : b[i] \in Nat
  BY <1>3, ValueRoundsUp, Zenon
<1>8. Cpus(pod.containers)[n] = Sums(b)[n]
  <2>1. \A i \in 1 .. Len(b) : b[i] = Cpu(pod.containers[i]) /\ b[i] \in Nat
    BY <1>2, <1>3, <1>7, Zenon
  <2>2. Len(pod.containers) \in Nat /\ Len(b) = Len(pod.containers)
    BY <1>1, <1>2 DEF n
  <2>3. Sums(b)[Len(b)] < Int32Limit
    BY <1>2, <1>5, Zenon
  <2>4. Cpus(pod.containers)[Len(pod.containers)] = Sums(b)[Len(b)]
    BY <2>1, <2>2, <2>3, CpusAreSums, Zenon
  <2> QED BY <1>2, <2>4, Zenon DEF n
<1>9. cores = IF Sums(b)[n] = 0 THEN 1 ELSE Sums(b)[n]
  BY <1>8, Zenon DEF GeneratePodResources, n
<1>10. used \in Nat /\ extras \in Nat /\ used <= own + extras
  BY UsedBounded, Zenon
<1> HIDE DEF cores, own, used, extras
<1>11. own <= 1000 * cores /\ (cores = 1 \/ 1000 * cores < own + 1000 * n) /\ cores \in Nat
  <2> DEFINE y == Sums(b)[n]
  <2> HIDE DEF y
  <2> QED BY <1>1, <1>5, <1>6, <1>9 DEF y, Milli
<1>12. used <= 1000 * cores + extras
  <2>1. own \in Nat
    BY <1>5, <1>6, Zenon
  <2> QED BY <1>10, <1>11, <2>1
<1> QED BY <1>11, <1>12 DEF cores, own, used, extras, n
===============================================================================
