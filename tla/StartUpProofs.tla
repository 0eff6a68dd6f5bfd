----------------------------- MODULE StartUpProofs -----------------------------
(***************************************************************************)
(* Proofs about StartUp, for every cluster, every list of pods of a node,  *)
(* every size of a gibibyte and every number of faults and starts: what a  *)
(* turn of createInClusterJGF adds to the graph, and what main and Fluxion *)
(* hold in every state.                                                    *)
(***************************************************************************)
EXTENDS StartUp, PodResourcesProofs, FiniteSetTheorems

-----------------------------------------------------------------------------
(* The loop over the resources of a node. *)

LEMMA ResourceLoopDefined ==
  ASSUME NEW g0, NEW type, NEW subnet, NEW node, NEW count \in Nat, NEW size
  PROVE  ResourceLoop(g0, type, subnet, node, count, size) =
           [i \in 0 .. count |->
              IF i = 0 THEN g0
              ELSE MakeResource(ResourceLoop(g0, type, subnet, node, count, size)[i - 1],
                                type, subnet, node, i - 1, size)]
<1> DEFINE Is(g, k) ==
      g = [i \in 0 .. k |->
             IF i = 0 THEN g0
             ELSE MakeResource(g[i - 1], type, subnet, node, i - 1, size)]
<1> DEFINE S == {k \in Nat : \E g : Is(g, k)}
<1>1. 0 \in S
  <2> DEFINE g == [i \in 0 .. 0 |-> g0]
  <2>1. Is(g, 0)
    OBVIOUS
  <2> QED BY <2>1, Zenon
<1>2. ASSUME NEW k \in Nat, k \in S PROVE k + 1 \in S
  <2>1. PICK g : Is(g, k)
    BY <1>2
  <2> DEFINE h == [i \in 0 .. k + 1 |->
                     IF i = k + 1 THEN MakeResource(g[k], type, subnet, node, k + 1 - 1, size)
                     ELSE g[i]]
  <2>2. \A i \in 0 .. k :
           g[i] = IF i = 0 THEN g0
                  ELSE MakeResource(g[i - 1], type, subnet, node, i - 1, size)
    BY <2>1, Zenon
  <2>3. \A i \in 0 .. k + 1 :
           h[i] = IF i = 0 THEN g0
                  ELSE MakeResource(h[i - 1], type, subnet, node, i - 1, size)
    <3> TAKE i \in 0 .. k + 1
    <3>1. CASE i = 0
      BY <2>2, <3>1
    <3>2. CASE i \in 1 .. k
      BY <2>2, <3>2
    <3>3. CASE i = k + 1
      BY <3>3
    <3> QED BY <3>1, <3>2, <3>3
  <2> HIDE DEF h
  <2>4. h = [i \in 0 .. k + 1 |-> h[i]]
    BY DEF h
  <2>5. Is(h, k + 1)
    BY <2>3, <2>4, Zenon
  <2> HIDE DEF Is
  <2> QED BY <2>5
<1>3. \E g : Is(g, count)
  <2> HIDE DEF Is
  <2>1. \A k \in Nat : k \in S
    BY <1>1, <1>2, SetInduction, Zenon
  <2> QED BY <2>1
<1> QED BY <1>3, Zenon DEF ResourceLoop

-----------------------------------------------------------------------------
(* The graph.  A well-formed one is a containment tree with its edges among  *)
(* its own vertices, whose ids are the numbers below the counter.            *)

LEMMA AppendedSet ==
  ASSUME NEW S, NEW s \in Seq(S), NEW x \in S
  PROVE  Range(Append(s, x)) = Range(s) \cup {x}
<1> DEFINE t == Append(s, x)
<1>1. /\ t \in Seq(S) /\ Len(t) = Len(s) + 1 /\ Len(s) \in Nat
      /\ \A i \in 1 .. Len(s) : t[i] = s[i]
      /\ t[Len(s) + 1] = x
  BY AppendProperties, LenProperties
<1>2. DOMAIN t = 1 .. Len(s) + 1 /\ DOMAIN s = 1 .. Len(s)
  BY <1>1, LenProperties
<1> HIDE DEF t
<1>3. Range(t) = {t[i] : i \in 1 .. Len(s) + 1} /\ Range(s) = {s[i] : i \in 1 .. Len(s)}
  BY <1>2 DEF Range
<1>4. 1 .. Len(s) + 1 = (1 .. Len(s)) \cup {Len(s) + 1}
  BY <1>1
<1>5. ASSUME NEW v \in Range(t) PROVE v \in Range(s) \cup {x}
  <2>1. PICK i \in 1 .. Len(s) + 1 : v = t[i]
    BY <1>3, <1>5
  <2>2. i \in 1 .. Len(s) \/ i = Len(s) + 1
    BY <1>4, <2>1
  <2> QED
    BY <1>1, <1>3, <2>1, <2>2
<1>6. Range(s) \subseteq Range(t)
  <2>1. ASSUME NEW v \in Range(s) PROVE v \in Range(t)
    <3>1. PICK i \in 1 .. Len(s) : v = s[i]
      BY <1>3, <2>1
    <3> QED
      BY <1>1, <1>3, <1>4, <3>1
  <2> QED BY <2>1
<1>7. x \in Range(t)
  BY <1>1, <1>3, <1>4
<1> QED
  BY <1>5, <1>6, <1>7, Zenon DEF t

LEMMA EdgesAdded ==
  ASSUME NEW S, NEW s \in Seq(S), NEW x \in S, NEW y \in S
  PROVE  /\ s \o <<x, y>> \in Seq(S)
         /\ Len(s \o <<x, y>>) = Len(s) + 2
         /\ Range(s \o <<x, y>>) = Range(s) \cup {x, y}
<1> DEFINE t == <<x, y>>
           u == s \o <<x, y>>
           n == Len(s)
<1>1. t \in Seq(S) /\ Len(t) = 2 /\ t[1] = x /\ t[2] = y
  OBVIOUS
<1>2. /\ n \in Nat /\ DOMAIN s = 1 .. n
      /\ u \in Seq(S) /\ Len(u) = n + 2
      /\ \A i \in 1 .. n + 2 : u[i] = IF i <= n THEN s[i] ELSE t[i - n]
  <2> HIDE DEF t
  <2>1. u = s \o t
    BY DEF t
  <2> QED
    BY <1>1, <2>1, ConcatProperties, LenProperties
<1>3. DOMAIN u = 1 .. n + 2
  BY <1>2, LenProperties
<1> HIDE DEF t, u, n
<1>4. (\A i \in 1 .. n : u[i] = s[i]) /\ u[n + 1] = x /\ u[n + 2] = y
  BY <1>1, <1>2
<1>5. Range(u) = {u[i] : i \in 1 .. n + 2} /\ Range(s) = {s[i] : i \in 1 .. n}
  BY <1>2, <1>3 DEF Range
<1>6. 1 .. n + 2 = (1 .. n) \cup {n + 1, n + 2}
  BY <1>2
<1>7. ASSUME NEW v \in Range(u) PROVE v \in Range(s) \cup {x, y}
  <2>1. PICK i \in 1 .. n + 2 : v = u[i]
    BY <1>5, <1>7
  <2>2. i \in 1 .. n \/ i = n + 1 \/ i = n + 2
    BY <1>6, <2>1
  <2> QED
    BY <1>4, <1>5, <2>1, <2>2
<1>8. ASSUME NEW v \in Range(s) PROVE v \in Range(u)
  <2>1. PICK i \in 1 .. n : v = s[i]
    BY <1>5, <1>8
  <2> QED
    BY <1>4, <1>5, <1>6, <2>1
<1>9. x \in Range(u) /\ y \in Range(u)
  BY <1>4, <1>5, <1>6
<1>10. Range(u) = Range(s) \cup {x, y}
  BY <1>7, <1>8, <1>9, Zenon
<1> QED
  BY <1>2, <1>10 DEF t, u, n

GraphType == [nodes : Seq(Vertices), edges : Seq(Nat \X Nat), elements : Nat]

WellFormed(g) ==
  /\ g \in GraphType
  /\ g.nodes # << >> /\ g.elements = Len(g.nodes)
  /\ g.nodes[1].path = <<Root>>
  /\ \A e \in Range(g.edges) : e[1] < g.elements /\ e[2] < g.elements
  /\ IsContainmentTree(g)

LEMMA VertexFacts ==
  ASSUME NEW g, WellFormed(g)
  PROVE  /\ Len(g.nodes) \in Nat \ {0} /\ DOMAIN g.nodes = 1 .. Len(g.nodes)
         /\ g.elements \in Nat
         /\ g.nodes[1] \in Range(g.nodes)
         /\ \A v \in Range(g.nodes) :
              /\ v \in Vertices /\ v.id \in Nat /\ v.id < g.elements
              /\ v = g.nodes[v.id + 1]
<1>1. g.nodes \in Seq(Vertices) /\ g.nodes # << >> /\ g.elements = Len(g.nodes)
  BY DEF WellFormed, GraphType
<1>2. Len(g.nodes) \in Nat \ {0} /\ DOMAIN g.nodes = 1 .. Len(g.nodes)
  BY <1>1, LenProperties, EmptySeq
<1>3. \A i \in DOMAIN g.nodes : g.nodes[i].id = i - 1
  BY DEF WellFormed, IsContainmentTree
<1>4. g.nodes[1] \in Range(g.nodes)
  BY <1>2 DEF Range
<1>5. ASSUME NEW v \in Range(g.nodes)
      PROVE  v \in Vertices /\ v.id \in Nat /\ v.id < g.elements /\ v = g.nodes[v.id + 1]
  <2>1. PICK i \in DOMAIN g.nodes : v = g.nodes[i]
    BY <1>5 DEF Range
  <2>2. i \in 1 .. Len(g.nodes) /\ v.id = i - 1
    BY <1>2, <1>3, <2>1
  <2>3. v \in Vertices
    BY <1>1, <2>1, <2>2, ElementOfSeq
  <2> QED
    BY <1>1, <1>2, <2>1, <2>2, <2>3
<1> QED
  BY <1>1, <1>2, <1>4, <1>5

LEMMA PathType ==
  ASSUME NEW p \in Vertices, NEW x, x.name \in BaseNames \X Nat,
         x.path = Append(p.path, x.name)
  PROVE  x.path \in Seq(BaseNames \X Nat)
BY AppendProperties DEF Vertices

(* The graph with vertex x below p, and an edge each way. *)
WithChild(g, p, x) ==
  [nodes |-> Append(g.nodes, x),
   edges |-> g.edges \o << <<p.id, x.id>>, <<x.id, p.id>> >>,
   elements |-> g.elements + 1]

LEMMA ChildAdded ==
  ASSUME NEW g, WellFormed(g), NEW p \in Range(g.nodes), NEW x \in Vertices,
         x.id = g.elements, x.path = Append(p.path, x.name),
         NEW h, h = WithChild(g, p, x)
  PROVE  /\ WellFormed(h) /\ h.nodes[1] = g.nodes[1]
         /\ Range(h.nodes) = Range(g.nodes) \cup {x} /\ x \notin Range(g.nodes)
<1> DEFINE n == Len(g.nodes)
           e1 == <<p.id, x.id>>
           e2 == <<x.id, p.id>>
<1>1. /\ g.nodes \in Seq(Vertices) /\ g.edges \in Seq(Nat \X Nat)
      /\ g.elements = n /\ g.nodes[1].path = <<Root>>
      /\ \A e \in Range(g.edges) : e[1] < n /\ e[2] < n
  BY DEF WellFormed, GraphType
<1>2. /\ \A i \in DOMAIN g.nodes : g.nodes[i].id = i - 1
      /\ Len(g.edges) = 2 * (n - 1)
      /\ \A v \in Range(g.nodes) \ {g.nodes[1]} :
           \E q \in Parents(g, v) :
              /\ Parents(g, v) = {q}
              /\ <<v.id, q.id>> \in Range(g.edges)
              /\ v.path = Append(q.path, v.name)
  BY Zenon DEF WellFormed, IsContainmentTree
<1>3. /\ n \in Nat \ {0} /\ DOMAIN g.nodes = 1 .. n
      /\ \A v \in Range(g.nodes) : v.id \in Nat /\ v.id < n /\ v = g.nodes[v.id + 1]
  BY <1>1, VertexFacts
<1>4. x.id = n /\ p.id \in Nat /\ p.id < n
  BY <1>1, <1>3
<1>5. e1 \in Nat \X Nat /\ e2 \in Nat \X Nat
  BY <1>3, <1>4
<1>6. /\ h.nodes = Append(g.nodes, x) /\ h.edges = g.edges \o <<e1, e2>>
      /\ h.elements = n + 1
      /\ h = [nodes |-> h.nodes, edges |-> h.edges, elements |-> h.elements]
  BY <1>1, Zenon DEF WithChild
<1>7. /\ h.nodes \in Seq(Vertices) /\ Len(h.nodes) = n + 1 /\ h.nodes # << >>
      /\ \A i \in 1 .. n : h.nodes[i] = g.nodes[i]
      /\ h.nodes[n + 1] = x
  <2>1. /\ Append(g.nodes, x) \in Seq(Vertices) /\ Append(g.nodes, x) # << >>
        /\ Len(Append(g.nodes, x)) = Len(g.nodes) + 1
        /\ \A i \in 1 .. Len(g.nodes) : Append(g.nodes, x)[i] = g.nodes[i]
        /\ Append(g.nodes, x)[Len(g.nodes) + 1] = x
    <3>1. g.nodes \in Seq(Vertices)
      BY <1>1
    <3> QED BY <3>1, AppendProperties
  <2>2. h.nodes = Append(g.nodes, x)
    BY <1>6
  <2> QED BY <2>1, <2>2, Zenon
<1>8. /\ h.edges \in Seq(Nat \X Nat) /\ Len(h.edges) = Len(g.edges) + 2
      /\ Range(h.edges) = Range(g.edges) \cup {e1, e2}
  <2> HIDE DEF e1, e2
  <2>1. g.edges \in Seq(Nat \X Nat)
    BY <1>1
  <2>2. /\ g.edges \o <<e1, e2>> \in Seq(Nat \X Nat)
        /\ Len(g.edges \o <<e1, e2>>) = Len(g.edges) + 2
        /\ Range(g.edges \o <<e1, e2>>) = Range(g.edges) \cup {e1, e2}
    <3> DEFINE Pairs == Nat \X Nat
    <3>1. e1 \in Pairs /\ e2 \in Pairs /\ g.edges \in Seq(Pairs)
      BY <1>5, <2>1
    <3> HIDE DEF Pairs
    <3>2. /\ g.edges \o <<e1, e2>> \in Seq(Pairs)
          /\ Len(g.edges \o <<e1, e2>>) = Len(g.edges) + 2
          /\ Range(g.edges \o <<e1, e2>>) = Range(g.edges) \cup {e1, e2}
      BY <3>1, EdgesAdded
    <3> QED BY <3>2, Zenon DEF Pairs
  <2>3. h.edges = g.edges \o <<e1, e2>>
    BY <1>6
  <2> QED BY <2>2, <2>3, Zenon
<1>9. Range(h.nodes) = Range(g.nodes) \cup {x}
  BY <1>1, <1>6, AppendedSet
<1>10. x \notin Range(g.nodes)
  BY <1>3, <1>4
<1>11. h.nodes[1] = g.nodes[1]
  BY <1>3, <1>7
<1>12. h \in GraphType
  <2>1. h.elements \in Nat
    BY <1>3, <1>6
  <2>2. h = [nodes |-> h.nodes, edges |-> h.edges, elements |-> h.elements]
    BY <1>6, Zenon
  <2> QED BY <1>7, <1>8, <2>1, <2>2 DEF GraphType
<1>13. \A e \in Range(h.edges) : e[1] < n + 1 /\ e[2] < n + 1
  <2>1. ASSUME NEW e \in Range(h.edges) PROVE e[1] < n + 1 /\ e[2] < n + 1
    <3>1. CASE e \in Range(g.edges)
      <4>1. e \in Nat \X Nat
        BY <1>1, <3>1, LenProperties DEF Range
      <4>2. e[1] \in Nat /\ e[2] \in Nat
        BY <4>1
      <4> QED BY <1>1, <1>3, <3>1, <4>2
    <3>2. CASE e = e1
      BY <1>3, <1>4, <3>2
    <3>3. CASE e = e2
      BY <1>3, <1>4, <3>3
    <3> QED BY <1>8, <2>1, <3>1, <3>2, <3>3
  <2> QED BY <2>1
<1>14. \A i \in DOMAIN h.nodes : h.nodes[i].id = i - 1
  <2>1. DOMAIN h.nodes = 1 .. n + 1
    BY <1>7, LenProperties
  <2>2. \A i \in 1 .. n + 1 : i \in 1 .. n \/ i = n + 1
    BY <1>3
  <2>3. x.id = (n + 1) - 1
    BY <1>3, <1>4
  <2> QED
    BY <1>2, <1>3, <1>7, <2>1, <2>2, <2>3
<1>15. \A q \in Range(g.nodes) : <<q.id, x.id>> \notin Range(g.edges)
  <2>1. ASSUME NEW q \in Range(g.nodes), <<q.id, x.id>> \in Range(g.edges) PROVE FALSE
    <3>1. <<q.id, x.id>>[2] < n
      BY <1>1, <2>1
    <3> QED BY <1>3, <1>4, <3>1
  <2> QED BY <2>1
<1>16. /\ Parents(h, x) = {p}
       /\ <<x.id, p.id>> \in Range(h.edges)
  <2>1. p \in Parents(h, x)
    BY <1>4, <1>8, <1>9 DEF Parents
  <2>2. ASSUME NEW q \in Parents(h, x) PROVE q = p
    <3>1. q \in Range(h.nodes) /\ q.id < x.id /\ <<q.id, x.id>> \in Range(h.edges)
      BY <2>2 DEF Parents
    <3>2. q # x
      BY <1>3, <1>4, <3>1
    <3>3. q \in Range(g.nodes)
      BY <1>9, <3>1, <3>2
    <3>4. <<q.id, x.id>> = e1 \/ <<q.id, x.id>> = e2
      BY <1>8, <1>15, <3>1, <3>3
    <3>5. q.id = p.id
      BY <1>3, <1>4, <3>1, <3>3, <3>4
    <3> QED
      BY <1>3, <3>3, <3>5
  <2> QED BY <1>8, <2>1, <2>2
<1>17. ASSUME NEW v \in Range(g.nodes) PROVE Parents(h, v) = Parents(g, v)
  <2>0. v.id \in Nat /\ v.id < n
    BY <1>3
  <2>1. ASSUME NEW q \in Parents(h, v) PROVE q \in Parents(g, v)
    <3>1. q \in Range(h.nodes) /\ q.id < v.id /\ <<q.id, v.id>> \in Range(h.edges)
      BY <2>1 DEF Parents
    <3>2. q # x
      BY <1>3, <1>4, <2>0, <3>1
    <3>3. q \in Range(g.nodes) /\ q.id \in Nat
      BY <1>3, <1>9, <3>1, <3>2
    <3>4. <<q.id, v.id>> # e1 /\ <<q.id, v.id>> # e2
      BY <1>3, <1>4, <2>0, <3>1, <3>3
    <3> QED
      BY <1>8, <3>1, <3>3, <3>4 DEF Parents
  <2>2. ASSUME NEW q \in Parents(g, v) PROVE q \in Parents(h, v)
    BY <1>8, <1>9, <2>2 DEF Parents
  <2> QED BY <2>1, <2>2, Zenon
<1>18. \A v \in Range(h.nodes) \ {h.nodes[1]} :
          \E q \in Parents(h, v) :
             /\ Parents(h, v) = {q}
             /\ <<v.id, q.id>> \in Range(h.edges)
             /\ v.path = Append(q.path, v.name)
  <2>1. ASSUME NEW v \in Range(h.nodes), v # h.nodes[1]
        PROVE  \E q \in Parents(h, v) :
                  /\ Parents(h, v) = {q}
                  /\ <<v.id, q.id>> \in Range(h.edges)
                  /\ v.path = Append(q.path, v.name)
    <3>1. CASE v = x
      BY <1>16, <3>1, Zenon
    <3>2. CASE v \in Range(g.nodes)
      <4>1. v \in Range(g.nodes) \ {g.nodes[1]}
        BY <1>11, <2>1, <3>2
      <4>2. PICK q \in Parents(g, v) :
               /\ Parents(g, v) = {q}
               /\ <<v.id, q.id>> \in Range(g.edges)
               /\ v.path = Append(q.path, v.name)
        BY <1>2, <4>1, Zenon
      <4> QED BY <1>8, <1>17, <3>2, <4>2, Zenon
    <3> QED BY <1>9, <2>1, <3>1, <3>2, Zenon
  <2> QED BY <2>1, Zenon
<1>19. Len(h.edges) = 2 * (Len(h.nodes) - 1)
  BY <1>2, <1>3, <1>7, <1>8
<1>20. IsContainmentTree(h)
  BY <1>14, <1>18, <1>19, Zenon DEF IsContainmentTree
<1>21. h.elements = Len(h.nodes) /\ h.nodes[1].path = <<Root>>
  BY <1>1, <1>6, <1>7, <1>11
<1>22. WellFormed(h)
  BY <1>6, <1>7, <1>12, <1>13, <1>20, <1>21, Zenon DEF WellFormed
<1> QED
  BY <1>1, <1>6, <1>9, <1>10, <1>11, <1>22

Names == BaseNames \X Nat

Kinds == {"subnet", "node", "gpu", "core", "memory"}

Resources == {"gpu", "core", "memory"}

LEMMA EdgesChanged ==
  ASSUME NEW a, NEW b, NEW c, NEW d, NEW g,
         g = [nodes |-> a, edges |-> b, elements |-> c]
  PROVE  [g EXCEPT !.edges = d] = [nodes |-> a, edges |-> d, elements |-> c]
OBVIOUS

(* makeNewNode's vertex, which is below p when its path says so. *)
NewVertex(g, type, name, subpath, size) ==
  [id |-> NextIndex(g), type |-> type, name |-> name, size |-> size,
   path |-> getContainmentPath(subpath)]

PathBelow(subpath, p, name) == getContainmentPath(subpath) = Append(p.path, name)

CanBeBelow(x, g, p, type, name) ==
  /\ x \in Vertices /\ x.id = g.elements /\ x.type = type /\ x.name = name
  /\ x.path = Append(p.path, name)

LEMMA NewVertexFacts ==
  ASSUME NEW g, WellFormed(g), NEW p \in Range(g.nodes), NEW type \in Kinds,
         NEW name \in Names, NEW size \in Nat, NEW subpath, PathBelow(subpath, p, name)
  PROVE  CanBeBelow(NewVertex(g, type, name, subpath, size), g, p, type, name)
<1>1. g.elements \in Nat /\ p \in Vertices
  BY VertexFacts
<1>2. Append(p.path, name) \in Seq(BaseNames \X Nat)
  BY <1>1, AppendProperties DEF Vertices, Names
<1> QED
  BY <1>1, <1>2 DEF Vertices, Kinds, Names, NewVertex, NextIndex, CanBeBelow, PathBelow

(* makeNewNode and MakeBidirectionalEdge, one after the other, add a child. *)
LEMMA ChildMade ==
  ASSUME NEW g, WellFormed(g), NEW p, NEW type, NEW name, NEW subpath, NEW size,
         NewVertex(g, type, name, subpath, size) \in Vertices
  PROVE  /\ Newest(makeNewNode(g, type, name, subpath, size))
               = NewVertex(g, type, name, subpath, size)
         /\ MakeBidirectionalEdge(makeNewNode(g, type, name, subpath, size), p,
                                  NewVertex(g, type, name, subpath, size))
               = WithChild(g, p, NewVertex(g, type, name, subpath, size))
<1> DEFINE x == NewVertex(g, type, name, subpath, size)
           made == makeNewNode(g, type, name, subpath, size)
           ns == Append(g.nodes, x)
           el == g.elements + 1
           edges == g.edges \o << <<p.id, x.id>>, <<x.id, p.id>> >>
<1>1. /\ g = [nodes |-> g.nodes, edges |-> g.edges, elements |-> g.elements]
      /\ g.nodes \in Seq(Vertices)
  BY DEF WellFormed, GraphType
<1>2. made = [nodes |-> ns, edges |-> g.edges, elements |-> el]
  <2>1. made = [g EXCEPT !.nodes = ns, !.elements = el]
    BY DEF makeNewNode, NewVertex
  <2> HIDE DEF made, ns, el
  <2> QED BY <1>1, <2>1, Zenon
<1>3. Len(ns) = Len(g.nodes) + 1 /\ ns[Len(g.nodes) + 1] = x
  <2> HIDE DEF x
  <2> QED BY <1>1, AppendProperties
<1> HIDE DEF x, made, ns, el
<1>4. made.nodes = ns /\ made.edges = g.edges
  BY <1>2
<1>5. Newest(made) = x
  BY <1>3, <1>4 DEF Newest
<1>6. MakeBidirectionalEdge(made, p, x) = [made EXCEPT !.edges = edges]
  BY <1>4, Zenon DEF MakeBidirectionalEdge
<1> HIDE DEF edges
<1>7. [made EXCEPT !.edges = edges] = [nodes |-> ns, edges |-> edges, elements |-> el]
  BY <1>2, EdgesChanged
<1>8. MakeBidirectionalEdge(made, p, x) = WithChild(g, p, x)
  BY <1>6, <1>7, Zenon DEF WithChild, ns, el, edges
<1> QED
  BY <1>5, <1>8 DEF made, x

(* h is g with x, a vertex of that type and name, below p. *)
IsChild(h, g, p, x, type, name) ==
  /\ x \in Vertices /\ x.type = type /\ x.name = name
  /\ x.path = Append(p.path, name) /\ x \notin Range(g.nodes)
  /\ WellFormed(h) /\ h.nodes[1] = g.nodes[1]
  /\ Range(h.nodes) = Range(g.nodes) \cup {x}

LEMMA MadeChild ==
  ASSUME NEW g, WellFormed(g), NEW p \in Range(g.nodes), NEW type \in Kinds,
         NEW name \in Names, NEW size \in Nat, NEW subpath, PathBelow(subpath, p, name)
  PROVE  /\ IsChild(MakeBidirectionalEdge(makeNewNode(g, type, name, subpath, size), p,
                       Newest(makeNewNode(g, type, name, subpath, size))),
                     g, p, Newest(makeNewNode(g, type, name, subpath, size)),
                     type, name)
<1> DEFINE x == NewVertex(g, type, name, subpath, size)
           h == WithChild(g, p, x)
<1>1. CanBeBelow(x, g, p, type, name)
  BY NewVertexFacts, Zenon
<1>2. /\ x \in Vertices /\ x.id = g.elements /\ x.type = type /\ x.name = name
      /\ x.path = Append(p.path, name)
  BY <1>1, Zenon DEF CanBeBelow
<1>3. /\ Newest(makeNewNode(g, type, name, subpath, size)) = x
      /\ MakeBidirectionalEdge(makeNewNode(g, type, name, subpath, size), p, x) = h
  <2>1. x \in Vertices
    BY <1>2
  <2>2. Newest(makeNewNode(g, type, name, subpath, size)) = x
    BY <2>1, ChildMade, Zenon
  <2>3. MakeBidirectionalEdge(makeNewNode(g, type, name, subpath, size), p, x) = h
    BY <2>1, ChildMade
  <2> QED BY <2>2, <2>3, Zenon
<1> HIDE DEF x
<1>4. x \in Vertices /\ x.id = g.elements /\ x.path = Append(p.path, x.name)
  BY <1>2
<1>5. /\ WellFormed(h) /\ h.nodes[1] = g.nodes[1]
      /\ Range(h.nodes) = Range(g.nodes) \cup {x} /\ x \notin Range(g.nodes)
  BY <1>4, ChildAdded, Zenon
<1>6. IsChild(h, g, p, x, type, name)
  BY <1>2, <1>5 DEF IsChild
<1> QED
  BY <1>3, <1>6, Zenon

(* Paths, name by name. *)
LEMMA TwoNames ==
  ASSUME NEW a, NEW b
  PROVE  /\ <<a>> \o <<b>> = <<a, b>>
         /\ Append(<<a>>, b) = <<a, b>>
<1> DEFINE S == {a, b}
           s == <<a>>
           t == <<b>>
           u == <<a>>
           f == <<a, b>>
           l == s \o t
           r == Append(u, b)
<1>1. s \in Seq(S) /\ Len(s) = 1 /\ s[1] = a
  OBVIOUS
<1>2. t \in Seq(S) /\ Len(t) = 1 /\ t[1] = b
  OBVIOUS
<1>3. u \in Seq(S) /\ Len(u) = 1 /\ u[1] = a
  OBVIOUS
<1>4. f \in Seq(S) /\ Len(f) = 2 /\ f[1] = a /\ f[2] = b
  OBVIOUS
<1>5. b \in S
  OBVIOUS
<1> HIDE DEF S, s, t, u, f
<1>6. l \in Seq(S) /\ Len(l) = 2 /\ \A i \in 1 .. 2 : l[i] = f[i]
  <2>1. s \in Seq(S) /\ t \in Seq(S)
    BY <1>1, <1>2
  <2>2. /\ l \in Seq(S) /\ Len(l) = Len(s) + Len(t)
        /\ \A i \in 1 .. Len(s) + Len(t) :
             l[i] = IF i <= Len(s) THEN s[i] ELSE t[i - Len(s)]
    BY <2>1, ConcatProperties
  <2> HIDE DEF l
  <2> QED BY <1>1, <1>2, <1>4, <2>2
<1>7. r \in Seq(S) /\ Len(r) = 2 /\ \A i \in 1 .. 2 : r[i] = f[i]
  <2>1. u \in Seq(S)
    BY <1>3
  <2>2. /\ r \in Seq(S) /\ Len(r) = Len(u) + 1
        /\ \A i \in 1 .. Len(u) : r[i] = u[i]
        /\ r[Len(u) + 1] = b
    BY <1>5, <2>1, AppendProperties
  <2> HIDE DEF r
  <2> QED BY <1>3, <1>4, <2>2
<1> HIDE DEF l, r
<1>8. l = f /\ r = f
  BY <1>4, <1>6, <1>7, SeqEqual
<1> QED
  BY <1>8 DEF l, r, s, t, u, f

LEMMA ThreeNames ==
  ASSUME NEW a, NEW b, NEW c
  PROVE  /\ <<a>> \o <<b, c>> = <<a, b, c>>
         /\ Append(<<a, b>>, c) = <<a, b, c>>
<1> DEFINE S == {a, b, c}
           s == <<a>>
           t == <<b, c>>
           u == <<a, b>>
           f == <<a, b, c>>
           l == s \o t
           r == Append(u, c)
<1>1. s \in Seq(S) /\ Len(s) = 1 /\ s[1] = a
  OBVIOUS
<1>2. t \in Seq(S) /\ Len(t) = 2 /\ t[1] = b /\ t[2] = c
  OBVIOUS
<1>3. u \in Seq(S) /\ Len(u) = 2 /\ u[1] = a /\ u[2] = b
  OBVIOUS
<1>4. f \in Seq(S) /\ Len(f) = 3 /\ f[1] = a /\ f[2] = b /\ f[3] = c
  OBVIOUS
<1>5. c \in S
  OBVIOUS
<1> HIDE DEF S, s, t, u, f
<1>6. l \in Seq(S) /\ Len(l) = 3 /\ \A i \in 1 .. 3 : l[i] = f[i]
  <2>1. s \in Seq(S) /\ t \in Seq(S)
    BY <1>1, <1>2
  <2>2. /\ l \in Seq(S) /\ Len(l) = Len(s) + Len(t)
        /\ \A i \in 1 .. Len(s) + Len(t) :
             l[i] = IF i <= Len(s) THEN s[i] ELSE t[i - Len(s)]
    BY <2>1, ConcatProperties
  <2> HIDE DEF l
  <2> QED BY <1>1, <1>2, <1>4, <2>2
<1>7. r \in Seq(S) /\ Len(r) = 3 /\ \A i \in 1 .. 3 : r[i] = f[i]
  <2>1. u \in Seq(S)
    BY <1>3
  <2>2. /\ r \in Seq(S) /\ Len(r) = Len(u) + 1
        /\ \A i \in 1 .. Len(u) : r[i] = u[i]
        /\ r[Len(u) + 1] = c
    BY <1>5, <2>1, AppendProperties
  <2> HIDE DEF r
  <2> QED BY <1>3, <1>4, <2>2
<1> HIDE DEF l, r
<1>8. l = f /\ r = f
  BY <1>4, <1>6, <1>7, SeqEqual
<1> QED
  BY <1>8 DEF l, r, s, t, u, f

LEMMA FourNames ==
  ASSUME NEW a, NEW b, NEW c, NEW d
  PROVE  /\ <<a>> \o <<b, c, d>> = <<a, b, c, d>>
         /\ Append(<<a, b, c>>, d) = <<a, b, c, d>>
<1> DEFINE S == {a, b, c, d}
           s == <<a>>
           t == <<b, c, d>>
           u == <<a, b, c>>
           f == <<a, b, c, d>>
           l == s \o t
           r == Append(u, d)
<1>1. s \in Seq(S) /\ Len(s) = 1 /\ s[1] = a
  OBVIOUS
<1>2. t \in Seq(S) /\ Len(t) = 3 /\ t[1] = b /\ t[2] = c /\ t[3] = d
  OBVIOUS
<1>3. u \in Seq(S) /\ Len(u) = 3 /\ u[1] = a /\ u[2] = b /\ u[3] = c
  OBVIOUS
<1>4. f \in Seq(S) /\ Len(f) = 4 /\ f[1] = a /\ f[2] = b /\ f[3] = c /\ f[4] = d
  OBVIOUS
<1>5. d \in S
  OBVIOUS
<1> HIDE DEF S, s, t, u, f
<1>6. l \in Seq(S) /\ Len(l) = 4 /\ \A i \in 1 .. 4 : l[i] = f[i]
  <2>1. s \in Seq(S) /\ t \in Seq(S)
    BY <1>1, <1>2
  <2>2. /\ l \in Seq(S) /\ Len(l) = Len(s) + Len(t)
        /\ \A i \in 1 .. Len(s) + Len(t) :
             l[i] = IF i <= Len(s) THEN s[i] ELSE t[i - Len(s)]
    BY <2>1, ConcatProperties
  <2> HIDE DEF l
  <2> QED BY <1>1, <1>2, <1>4, <2>2
<1>7. r \in Seq(S) /\ Len(r) = 4 /\ \A i \in 1 .. 4 : r[i] = f[i]
  <2>1. u \in Seq(S)
    BY <1>3
  <2>2. /\ r \in Seq(S) /\ Len(r) = Len(u) + 1
        /\ \A i \in 1 .. Len(u) : r[i] = u[i]
        /\ r[Len(u) + 1] = d
    BY <1>5, <2>1, AppendProperties
  <2> HIDE DEF r
  <2> QED BY <1>3, <1>4, <2>2
<1> HIDE DEF l, r
<1>8. l = f /\ r = f
  BY <1>4, <1>6, <1>7, SeqEqual
<1> QED
  BY <1>8 DEF l, r, s, t, u, f

(* h is g with the vertices of new added, all of one type and below the      *)
(* compute node of that name.                                                *)
Gains(h, g, new, type, name) ==
  /\ WellFormed(h) /\ h.nodes[1] = g.nodes[1]
  /\ Range(h.nodes) = Range(g.nodes) \cup new
  /\ new \cap Range(g.nodes) = {}
  /\ \A v \in new : v.type = type /\ v.path[3] = name

IsBelow(node, subnet) == node.path = <<Root, subnet.name, node.name>>

Has(new, k) == IsFiniteSet(new) /\ Cardinality(new) = k

LEMMA ResourceAdded ==
  ASSUME NEW g, NEW h, NEW subnet, NEW node, NEW new, NEW k \in Nat,
         NEW type \in Resources, NEW index \in Nat, NEW size \in Nat,
         node \in Range(g.nodes), IsBelow(node, subnet),
         Gains(h, g, new, type, node.name), Has(new, k)
  PROVE  \E more : /\ Gains(MakeResource(h, type, subnet, node, index, size),
                            g, more, type, node.name)
                   /\ Has(more, k + 1)
<1> DEFINE name == <<type, index>>
           subpath == <<subnet.name, node.name, name>>
           made == makeNewNode(h, type, name, subpath, size)
           x == Newest(made)
           m == MakeResource(h, type, subnet, node, index, size)
           more == new \cup {x}
<1>1. /\ WellFormed(h) /\ h.nodes[1] = g.nodes[1]
      /\ Range(h.nodes) = Range(g.nodes) \cup new
      /\ new \cap Range(g.nodes) = {}
      /\ \A v \in new : v.type = type /\ v.path[3] = node.name
  BY DEF Gains
<1>2. name \in Names
  BY DEF BaseNames, Names, Resources
<1>3. /\ PathBelow(subpath, node, name)
      /\ Append(node.path, name)[3] = node.name
  <2> HIDE DEF name
  <2>1. node.path = <<Root, subnet.name, node.name>>
    BY DEF IsBelow
  <2>2. /\ <<Root>> \o <<subnet.name, node.name, name>>
             = <<Root, subnet.name, node.name, name>>
        /\ Append(<<Root, subnet.name, node.name>>, name)
             = <<Root, subnet.name, node.name, name>>
    BY FourNames
  <2>3. Append(node.path, name) = <<Root, subnet.name, node.name, name>>
    BY <2>1, <2>2, Zenon
  <2>4. getContainmentPath(subpath) = <<Root, subnet.name, node.name, name>>
    BY <2>2, Zenon DEF getContainmentPath
  <2> QED BY <2>3, <2>4 DEF PathBelow
<1>4. node \in Range(h.nodes)
  BY <1>1
<1>5. type \in Kinds
  BY DEF Kinds, Resources
<1>6. WellFormed(h)
  BY <1>1
<1> HIDE DEF name, subpath
<1>7. IsChild(MakeBidirectionalEdge(made, node, x), h, node, x, type, name)
  BY <1>2, <1>3, <1>4, <1>5, <1>6, MadeChild, Zenon
<1>8. m = MakeBidirectionalEdge(made, node, x)
  BY Zenon DEF MakeResource, name, subpath
<1> HIDE DEF made, x, m
<1>9. /\ x.type = type /\ x.path = Append(node.path, name) /\ x \notin Range(h.nodes)
      /\ WellFormed(m) /\ m.nodes[1] = h.nodes[1]
      /\ Range(m.nodes) = Range(h.nodes) \cup {x}
  BY <1>7, <1>8 DEF IsChild
<1>10. Gains(m, g, more, type, node.name)
  BY <1>1, <1>3, <1>9, Zenon DEF Gains
<1>11. Has(more, k + 1)
  <2>1. x \notin new
    BY <1>1, <1>9
  <2> QED BY <2>1, FS_AddElement DEF Has
<1> QED
  BY <1>10, <1>11, Zenon DEF m

(* The loops over a node's resources. *)
LEMMA ResourcesAdded ==
  ASSUME NEW g, WellFormed(g), NEW subnet, NEW node \in Range(g.nodes),
         IsBelow(node, subnet), NEW type \in Resources,
         NEW count \in Nat, NEW size \in Nat
  PROVE  \E new : /\ Gains(MakeResources(g, type, subnet, node, count, size),
                           g, new, type, node.name)
                  /\ Has(new, count)
<1> DEFINE f == ResourceLoop(g, type, subnet, node, count, size)
           S == {k \in Nat : k <= count =>
                   \E new : Gains(f[k], g, new, type, node.name) /\ Has(new, k)}
<1>1. /\ f[0] = g
      /\ \A k \in 1 .. count : f[k] = MakeResource(f[k - 1], type, subnet, node, k - 1, size)
  <2>1. f = [i \in 0 .. count |->
               IF i = 0 THEN g
               ELSE MakeResource(f[i - 1], type, subnet, node, i - 1, size)]
    BY ResourceLoopDefined
  <2> HIDE DEF f
  <2>2. \A i \in 0 .. count :
          f[i] = IF i = 0 THEN g
                 ELSE MakeResource(f[i - 1], type, subnet, node, i - 1, size)
    BY <2>1, Zenon
  <2> QED BY <2>2
<1> HIDE DEF f
<1>2. 0 \in S
  <2>1. Gains(g, g, {}, type, node.name)
    BY DEF Gains
  <2>2. Has({}, 0)
    BY FS_EmptySet DEF Has
  <2> QED BY <1>1, <2>1, <2>2
<1>3. ASSUME NEW k \in Nat, k \in S PROVE k + 1 \in S
  <2>1. SUFFICES ASSUME k + 1 <= count
                 PROVE  \E new : Gains(f[k + 1], g, new, type, node.name) /\ Has(new, k + 1)
    OBVIOUS
  <2>2. k <= count /\ k + 1 \in 1 .. count /\ (k + 1) - 1 = k
    BY <2>1
  <2>3. PICK new : Gains(f[k], g, new, type, node.name) /\ Has(new, k)
    BY <1>3, <2>2
  <2>4. f[k + 1] = MakeResource(f[k], type, subnet, node, k, size)
    BY <1>1, <2>2
  <2>5. \E more : /\ Gains(MakeResource(f[k], type, subnet, node, k, size),
                           g, more, type, node.name)
                  /\ Has(more, k + 1)
    BY <2>3, ResourceAdded
  <2> QED BY <2>4, <2>5, Zenon
<1>4. \A k \in Nat : k \in S
  <2> HIDE DEF S
  <2> QED BY <1>2, <1>3, SetInduction
<1>5. \E new : Gains(f[count], g, new, type, node.name) /\ Has(new, count)
  BY <1>4
<1> QED
  BY <1>5 DEF MakeResources, f

-----------------------------------------------------------------------------
(* A turn of the loop over the cluster's nodes. *)

LEMMA SubnetMade ==
  ASSUME NEW g, WellFormed(g), NEW zone \in BaseNames, NEW subnets \in Nat
  PROVE  IsChild(SubnetOf(g, zone, subnets).graph, g, g.nodes[1],
                 SubnetOf(g, zone, subnets).subnet, "subnet", <<zone, subnets>>)
<1> DEFINE name == <<zone, subnets>>
           subpath == <<name>>
           made == makeNewNode(g, "subnet", name, subpath, 1)
           x == Newest(made)
<1>1. SubnetOf(g, zone, subnets)
        = [graph |-> MakeBidirectionalEdge(made, made.nodes[1], x), subnet |-> x]
  <2>1. zone \notin DOMAIN subnetLookup
    BY DEF subnetLookup, Empty
  <2> QED BY <2>1, Zenon DEF SubnetOf, MakeSubnet
<1>2. name \in Names /\ "subnet" \in Kinds /\ 1 \in Nat
  BY DEF Names, Kinds
<1> HIDE DEF name
<1>3. made.nodes[1] = g.nodes[1]
  <2>1. /\ g = [nodes |-> g.nodes, edges |-> g.edges, elements |-> g.elements]
        /\ g.nodes \in Seq(Vertices) /\ Len(g.nodes) \in Nat \ {0}
    BY VertexFacts DEF WellFormed, GraphType
  <2> DEFINE y == NewVertex(g, "subnet", name, subpath, 1)
             ns == Append(g.nodes, y)
             el == g.elements + 1
  <2>2. made = [g EXCEPT !.nodes = ns, !.elements = el]
    BY DEF makeNewNode, NewVertex
  <2> HIDE DEF made, ns, el
  <2>3. made.nodes = ns
    BY <2>1, <2>2
  <2>4. ns[1] = g.nodes[1]
    <3> HIDE DEF y
    <3> QED BY <2>1 DEF ns
  <2> QED BY <2>3, <2>4
<1>4. PathBelow(subpath, g.nodes[1], name)
  <2>1. g.nodes[1].path = <<Root>>
    BY DEF WellFormed
  <2>2. <<Root>> \o <<name>> = <<Root, name>> /\ Append(<<Root>>, name) = <<Root, name>>
    BY TwoNames
  <2> QED BY <2>1, <2>2, Zenon DEF PathBelow, getContainmentPath
<1>5. g.nodes[1] \in Range(g.nodes)
  BY VertexFacts
<1> HIDE DEF subpath
<1>6. IsChild(MakeBidirectionalEdge(made, g.nodes[1], x), g, g.nodes[1], x, "subnet", name)
  BY <1>2, <1>4, <1>5, MadeChild, Zenon
<1> HIDE DEF made, x
<1> QED
  BY <1>1, <1>3, <1>6 DEF name

LEMMA NodeMade ==
  ASSUME NEW g, WellFormed(g), NEW subnet \in Range(g.nodes),
         subnet.path = <<Root, subnet.name>>, NEW name \in BaseNames, NEW index \in Nat
  PROVE  /\ IsChild(MakeBidirectionalEdge(MakeNode(g, name, subnet, index), subnet,
                      Newest(MakeNode(g, name, subnet, index))),
                    g, subnet, Newest(MakeNode(g, name, subnet, index)),
                    "node", <<name, index>>)
         /\ IsBelow(Newest(MakeNode(g, name, subnet, index)), subnet)
<1> DEFINE full == <<name, index>>
           subpath == <<subnet.name, full>>
           made == makeNewNode(g, "node", full, subpath, 1)
           x == Newest(made)
<1>1. MakeNode(g, name, subnet, index) = made
  BY Zenon DEF MakeNode
<1>2. full \in Names /\ "node" \in Kinds /\ 1 \in Nat
  BY DEF Names, Kinds
<1> HIDE DEF full
<1>3. /\ <<Root>> \o <<subnet.name, full>> = <<Root, subnet.name, full>>
      /\ Append(<<Root, subnet.name>>, full) = <<Root, subnet.name, full>>
  BY ThreeNames
<1>4. PathBelow(subpath, subnet, full)
  BY <1>3, Zenon DEF PathBelow, getContainmentPath
<1> HIDE DEF subpath
<1>5. IsChild(MakeBidirectionalEdge(made, subnet, x), g, subnet, x, "node", full)
  BY <1>2, <1>4, MadeChild, Zenon
<1> HIDE DEF made, x
<1>6. IsBelow(x, subnet)
  <2>1. x.name = full /\ x.path = Append(subnet.path, full)
    BY <1>5 DEF IsChild
  <2> QED BY <1>3, <2>1, Zenon DEF IsBelow
<1>7. Newest(MakeNode(g, name, subnet, index)) = x
  BY <1>1 DEF x
<1> QED
  BY <1>1, <1>5, <1>6, <1>7, Zenon DEF full

(* h is g with a subnet, below it a compute node of that name, and below     *)
(* this its resources.                                                       *)
HasNode(h, g, name, cpu, memory) ==
  /\ WellFormed(h)
  /\ \E subnet, node, gpus, cores, mems :
       /\ Range(h.nodes) = Range(g.nodes) \cup {subnet, node} \cup gpus \cup cores \cup mems
       /\ subnet.type = "subnet" /\ node.type = "node" /\ node.name = name
       /\ node \in Vertices
       /\ \A v \in gpus : v.type = "gpu"
       /\ \A v \in cores : v.type = "core" /\ v.path[3] = name
       /\ \A v \in mems : v.type = "memory" /\ v.path[3] = name
       /\ Has(cores, cpu) /\ Has(mems, memory)

LEMMA ComputeNodeAdded ==
  ASSUME NEW g, WellFormed(g), NEW node, node.name \in BaseNames, node.zone \in BaseNames,
         node.gpu \in Nat, NEW index \in Nat, NEW subnets \in Nat, NEW pods,
         NEW cpu \in Nat, cpu = Count(Available(node, pods).cpu),
         NEW memory \in Nat, memory = Count(Available(node, pods).memory)
  PROVE  HasNode(AddComputeNode(g, node, index, subnets, pods), g,
                 <<node.name, index>>, cpu, memory)
<1> DEFINE s == SubnetOf(g, node.zone, subnets)
           g1 == s.graph
           subnet == s.subnet
           made == MakeNode(g1, node.name, subnet, index)
           compute == Newest(made)
           g2 == MakeBidirectionalEdge(made, subnet, compute)
           g3 == MakeResources(g2, "gpu", subnet, compute, node.gpu, 1)
           g4 == MakeResources(g3, "core", subnet, compute, cpu, 1)
           g5 == MakeResources(g4, "memory", subnet, compute, memory, 1024)
           name == <<node.name, index>>
<1>1. AddComputeNode(g, node, index, subnets, pods) = g5
  BY ZenonT(30) DEF AddComputeNode
<1>2. IsChild(g1, g, g.nodes[1], subnet, "subnet", <<node.zone, subnets>>)
  BY SubnetMade, Zenon
<1> HIDE DEF s
<1>3. /\ WellFormed(g1) /\ Range(g1.nodes) = Range(g.nodes) \cup {subnet}
      /\ subnet.type = "subnet" /\ subnet.path = <<Root, subnet.name>>
  <2> HIDE DEF g1, subnet
  <2> DEFINE full == <<node.zone, subnets>>
  <2>1. IsChild(g1, g, g.nodes[1], subnet, "subnet", full)
    BY <1>2
  <2> HIDE DEF full
  <2>2. /\ WellFormed(g1) /\ Range(g1.nodes) = Range(g.nodes) \cup {subnet}
        /\ subnet.type = "subnet" /\ subnet.name = full
        /\ subnet.path = Append(g.nodes[1].path, full)
    BY <2>1, Zenon DEF IsChild
  <2>3. g.nodes[1].path = <<Root>>
    BY DEF WellFormed
  <2>4. Append(<<Root>>, full) = <<Root, full>>
    BY TwoNames, Zenon
  <2> QED BY <2>2, <2>3, <2>4, Zenon
<1> HIDE DEF g1, subnet
<1>4. /\ IsChild(g2, g1, subnet, compute, "node", name)
      /\ IsBelow(compute, subnet)
  <2>1. subnet \in Range(g1.nodes)
    BY <1>3
  <2> QED BY <1>3, <2>1, NodeMade, Zenon
<1> HIDE DEF made, compute, name
<1>5. /\ WellFormed(g2) /\ Range(g2.nodes) = Range(g1.nodes) \cup {compute}
      /\ compute.type = "node" /\ compute.name = name /\ compute \in Vertices
  <2> HIDE DEF g2
  <2> QED BY <1>4, Zenon DEF IsChild
<1> HIDE DEF g2
<1>6. PICK gpus : Gains(g3, g2, gpus, "gpu", compute.name)
  <2>1. compute \in Range(g2.nodes) /\ "gpu" \in Resources /\ 1 \in Nat
    BY <1>5 DEF Resources
  <2> QED BY <1>4, <1>5, <2>1, ResourcesAdded, Zenon
<1> HIDE DEF g3
<1>7. /\ WellFormed(g3) /\ Range(g3.nodes) = Range(g2.nodes) \cup gpus
      /\ \A v \in gpus : v.type = "gpu"
  BY <1>6, Zenon DEF Gains
<1>8. PICK cores : Gains(g4, g3, cores, "core", compute.name) /\ Has(cores, cpu)
  <2>1. compute \in Range(g3.nodes) /\ "core" \in Resources /\ 1 \in Nat
    BY <1>5, <1>7 DEF Resources
  <2> QED BY <1>4, <1>7, <2>1, ResourcesAdded, Zenon
<1> HIDE DEF g4
<1>9. /\ WellFormed(g4) /\ Range(g4.nodes) = Range(g3.nodes) \cup cores
      /\ \A v \in cores : v.type = "core" /\ v.path[3] = compute.name
  BY <1>8, Zenon DEF Gains
<1>10. PICK mems : Gains(g5, g4, mems, "memory", compute.name) /\ Has(mems, memory)
  <2> DEFINE size == 1024
  <2>1. compute \in Range(g4.nodes) /\ "memory" \in Resources /\ size \in Nat
    BY <1>5, <1>7, <1>9 DEF Resources
  <2>2. g5 = MakeResources(g4, "memory", subnet, compute, memory, size)
    OBVIOUS
  <2> HIDE DEF size, g5
  <2> QED BY <1>4, <1>9, <2>1, <2>2, ResourcesAdded, Zenon
<1> HIDE DEF g5
<1>11. /\ WellFormed(g5) /\ Range(g5.nodes) = Range(g4.nodes) \cup mems
       /\ \A v \in mems : v.type = "memory" /\ v.path[3] = compute.name
  BY <1>10, Zenon DEF Gains
<1>12. Range(g5.nodes)
         = Range(g.nodes) \cup {subnet, compute} \cup gpus \cup cores \cup mems
  BY <1>3, <1>5, <1>7, <1>9, <1>11
<1>13. HasNode(g5, g, name, cpu, memory)
  BY <1>3, <1>5, <1>7, <1>8, <1>9, <1>10, <1>11, <1>12, Zenon DEF HasNode
<1> QED
  BY <1>1, <1>13, Zenon DEF name

-----------------------------------------------------------------------------
(* The graph under construction, after Len(b.pods) of the nodes. *)

NodeName(k) == <<ClusterNodes[k].name, k - 1>>

Taken(k) == ~ Skipped(ClusterNodes[k])

(* Every resource is below one of the nodes that were added. *)
Placed(g, n) ==
  \A v \in Range(g.nodes) :
     v.type \in {"core", "memory"} => \E k \in 1 .. n : v.path[3] = NodeName(k)

(* Each node that takes pods was added once, and no other. *)
Listed(g, n) ==
  /\ \A v \in NodesOf(g) : \E k \in 1 .. n : Taken(k) /\ v.name = NodeName(k)
  /\ \A k \in 1 .. n : Taken(k) => \E v \in NodesOf(g) : v.name = NodeName(k)
  /\ \A v, w \in NodesOf(g) : v.name = w.name => v = w

(* The kth node was added with what these pods leave. *)
Filled(b, k) ==
  /\ b.pods[k] \in PodLists[ClusterNodes[k].name]
  /\ Cardinality(Offered(b.graph, k, "core"))
       = Count(Available(ClusterNodes[k], b.pods[k]).cpu)
  /\ Cardinality(Offered(b.graph, k, "memory"))
       = Count(Available(ClusterNodes[k], b.pods[k]).memory)

BuildInv(b) ==
  /\ b = [graph |-> b.graph, subnets |-> b.subnets, pods |-> b.pods]
  /\ WellFormed(b.graph)
  /\ b.pods \in Seq(Lists) /\ Len(b.pods) <= Len(ClusterNodes)
  /\ b.subnets \in 0 .. Len(b.pods)
  /\ Placed(b.graph, Len(b.pods)) /\ Listed(b.graph, Len(b.pods))
  /\ \A k \in 1 .. Len(b.pods) : IF Taken(k) THEN Filled(b, k) ELSE b.pods[k] = << >>

LEMMA ClusterFacts ==
  /\ Len(ClusterNodes) \in Nat \ {0} /\ DOMAIN ClusterNodes = 1 .. Len(ClusterNodes)
  /\ \A k \in 1 .. Len(ClusterNodes) :
       /\ IsClusterNode(ClusterNodes[k])
       /\ ClusterNodes[k].name \in BaseNames /\ ClusterNodes[k].zone \in BaseNames
       /\ \A pods \in PodLists[ClusterNodes[k].name] :
            IsList(pods) /\ \A i \in DOMAIN pods : IsPod(pods[i])
<1>1. /\ IsList(ClusterNodes) /\ ClusterNodes # << >>
      /\ \A i \in DOMAIN ClusterNodes :
           /\ IsClusterNode(ClusterNodes[i])
           /\ \A pods \in PodLists[ClusterNodes[i].name] :
                IsList(pods) /\ \A k \in DOMAIN pods : IsPod(pods[k])
  BY StartUpAssumption, Zenon
<1>2. Len(ClusterNodes) \in Nat \ {0} /\ DOMAIN ClusterNodes = 1 .. Len(ClusterNodes)
  BY <1>1, ListFacts, EmptySeq DEF IsList
<1>3. \A k \in 1 .. Len(ClusterNodes) :
         ClusterNodes[k].name \in BaseNames /\ ClusterNodes[k].zone \in BaseNames
  BY <1>2 DEF BaseNames
<1> QED
  BY <1>1, <1>2, <1>3, Zenon

LEMMA NameFacts ==
  ASSUME NEW k \in Nat, NEW j \in Nat
  PROVE  NodeName(k) = NodeName(j) => k = j
BY DEF NodeName

LEMMA EmptyBuild == BuildInv(NewBuild)
<1> DEFINE root == [id |-> 0, type |-> "cluster", name |-> <<"cluster", 1>>, size |-> 1,
                    path |-> <<Root>>]
           g == [nodes |-> <<root>>, edges |-> << >>, elements |-> 1]
<1>1. InitCluster = g
  <2>1. getContainmentPath(<< >>) = <<Root>>
    <3>1. <<Root>> \in Seq({Root})
      OBVIOUS
    <3> QED BY <3>1, ConcatEmptySeq DEF getContainmentPath
  <2>2. Append(<< >>, root) = <<root>>
    <3> HIDE DEF root
    <3> QED OBVIOUS
  <2>3. NewFluxJGF.elements = 0 /\ NewFluxJGF.nodes = << >>
    BY DEF NewFluxJGF
  <2>4. InitCluster = [NewFluxJGF EXCEPT !.nodes = <<root>>, !.elements = 1]
    <3> DEFINE name == <<"cluster", 1>>
    <3>1. [id |-> NewFluxJGF.elements, type |-> "cluster", name |-> name, size |-> 1,
           path |-> getContainmentPath(<< >>)] = root
      BY <2>1, <2>3
    <3> HIDE DEF name, root
    <3>2. 0 + 1 = 1
      OBVIOUS
    <3>3. InitCluster = makeNewNode(NewFluxJGF, "cluster", name, << >>, 1)
      BY DEF InitCluster, name
    <3> QED BY <2>2, <2>3, <3>1, <3>2, <3>3, Zenon DEF makeNewNode, NextIndex
  <2> HIDE DEF root
  <2> QED
    BY <2>4, Zenon DEF NewFluxJGF
<1>2. root \in Vertices
  <2>1. Root \in BaseNames \X Nat /\ <<"cluster", 1>> \in BaseNames \X Nat
    BY DEF Root, BaseNames
  <2>2. <<Root>> \in Seq(BaseNames \X Nat)
    BY <2>1
  <2> QED BY <2>1, <2>2 DEF Vertices
<1>3. root.type = "cluster" /\ root.id = 0 /\ root.path = <<Root>>
  OBVIOUS
<1> HIDE DEF root
<1>4. /\ g.nodes = <<root>> /\ g.edges = << >> /\ g.elements = 1
      /\ <<root>> \in Seq(Vertices) /\ Len(<<root>>) = 1 /\ <<root>>[1] = root
      /\ DOMAIN <<root>> = {1}
  BY <1>2
<1>5. Range(g.nodes) = {root} /\ Range(g.edges) = {}
  BY <1>4 DEF Range
<1>6. IsContainmentTree(g)
  <2>1. \A i \in DOMAIN g.nodes : g.nodes[i].id = i - 1
    BY <1>3, <1>4
  <2>2. Len(g.edges) = 2 * (Len(g.nodes) - 1)
    BY <1>4
  <2>3. Range(g.nodes) \ {g.nodes[1]} = {}
    BY <1>4, <1>5
  <2> HIDE DEF g
  <2> QED
    BY <2>1, <2>2, <2>3, Zenon DEF IsContainmentTree
<1>7. g \in GraphType
  BY <1>4 DEF GraphType
<1>8. WellFormed(g)
  BY <1>3, <1>4, <1>5, <1>6, <1>7 DEF WellFormed
<1>9. NodesOf(g) = {}
  BY <1>3, <1>5 DEF NodesOf
<1> HIDE DEF g
<1>10. NewBuild = [graph |-> g, subnets |-> 0, pods |-> << >>]
  BY <1>1 DEF NewBuild
<1>11. NewBuild.graph = g /\ NewBuild.subnets = 0 /\ NewBuild.pods = << >> /\ Len(<< >>) = 0
  BY <1>10
<1>12. Placed(g, 0) /\ Listed(g, 0)
  BY <1>3, <1>5, <1>9 DEF Placed, Listed
<1>13. NewBuild.pods \in Seq(Lists)
  BY <1>11
<1>14. Len(NewBuild.pods) = 0 /\ Placed(NewBuild.graph, 0) /\ Listed(NewBuild.graph, 0)
  BY <1>11, <1>12, Zenon
<1>15. NewBuild = [graph |-> NewBuild.graph, subnets |-> NewBuild.subnets,
                   pods |-> NewBuild.pods]
  BY <1>10, <1>11, Zenon
<1>16. Len(ClusterNodes) \in Nat
  BY ClusterFacts, Zenon
<1>17. 0 <= Len(ClusterNodes) /\ 0 \in 0 .. 0 /\ 1 .. 0 = {}
  BY <1>16
<1> QED
  BY <1>8, <1>11, <1>13, <1>14, <1>15, <1>17, Zenon DEF BuildInv

(* The units left, and that as many fit beside what is used. *)
LEMMA UnitsFit ==
  ASSUME NEW total \in Nat, NEW used \in Nat, NEW unit \in Nat \ {0}
  PROVE  /\ Count((total - used) \div unit) \in Nat
         /\ Fits(Count((total - used) \div unit), unit, used, total)
<1> DEFINE q == (total - used) \div unit
<1>1. /\ q \in Int
      /\ q * unit <= total - used /\ total - used < (q + 1) * unit
  OBVIOUS
<1> HIDE DEF q
<1>2. CASE used >= total
  <2>1. q <= 0
    <3>1. SUFFICES ASSUME q >= 1 PROVE FALSE
      BY <1>1
    <3>2. q * unit >= unit
      BY <1>1, <3>1
    <3> QED BY <1>1, <1>2, <3>2
  <2>2. Count(q) = 0
    BY <1>1, <2>1 DEF Count, Larger
  <2> QED BY <1>2, <2>2 DEF Fits, q
<1>3. CASE used < total
  <2>1. q >= 0
    <3>1. SUFFICES ASSUME q <= -1 PROVE FALSE
      BY <1>1
    <3>2. (q + 1) * unit <= 0
      BY <1>1, <3>1
    <3> QED BY <1>1, <1>3, <3>2
  <2>2. Count(q) = q /\ q \in Nat
    BY <1>1, <2>1 DEF Count, Larger
  <2>3. q * unit + used <= total /\ total < (q + 1) * unit + used
    <3> DEFINE low == q * unit
               high == (q + 1) * unit
    <3>1. low \in Int /\ high \in Int /\ low <= total - used /\ total - used < high
      BY <1>1
    <3> HIDE DEF low, high
    <3>2. low + used <= total /\ total < high + used
      BY <3>1
    <3> QED BY <3>2 DEF low, high
  <2>4. Fits(q, unit, used, total)
    BY <1>3, <2>3 DEF Fits
  <2> QED BY <2>2, <2>4 DEF q
<1> QED
  BY <1>2, <1>3

LEMMA NodeFits ==
  ASSUME NEW node, IsClusterNode(node), NEW pods, IsList(pods),
         \A i \in DOMAIN pods : IsPod(pods[i])
  PROVE  /\ Count(Available(node, pods).cpu) \in Nat
         /\ Count(Available(node, pods).memory) \in Nat
         /\ Fits(Count(Available(node, pods).cpu), Milli,
                 Sum([k \in DOMAIN pods |-> PeakDemand(pods[k], "cpu")]), node.cpu)
         /\ Fits(Count(Available(node, pods).memory), Gi,
                 Sum([k \in DOMAIN pods |-> PeakDemand(pods[k], "memory")]), node.memory)
<1> DEFINE cpu == Quantity(computeTotalRequests(pods), "cpu")
           mem == Quantity(computeTotalRequests(pods), "memory")
<1>1. /\ cpu = Sum([k \in DOMAIN pods |-> PeakDemand(pods[k], "cpu")]) /\ cpu \in Nat
      /\ mem = Sum([k \in DOMAIN pods |-> PeakDemand(pods[k], "memory")]) /\ mem \in Nat
  BY TotalRequestsIsSum
<1>2. node.cpu \in Nat /\ node.memory \in Nat /\ Gi \in Nat \ {0} /\ Milli \in Nat \ {0}
  BY GiAssumption DEF IsClusterNode, Milli
<1>3. /\ Available(node, pods).cpu = (node.cpu - cpu) \div Milli
      /\ Available(node, pods).memory = (node.memory - mem) \div Gi
  BY DEF Available, Milli
<1> HIDE DEF cpu, mem
<1>4. /\ Count((node.cpu - cpu) \div Milli) \in Nat
      /\ Fits(Count((node.cpu - cpu) \div Milli), Milli, cpu, node.cpu)
  BY <1>1, <1>2, UnitsFit, Zenon
<1>5. /\ Count((node.memory - mem) \div Gi) \in Nat
      /\ Fits(Count((node.memory - mem) \div Gi), Gi, mem, node.memory)
  BY <1>1, <1>2, UnitsFit, Zenon
<1> QED
  BY <1>1, <1>3, <1>4, <1>5, Zenon

LEMMA UnitsType ==
  ASSUME NEW node, IsClusterNode(node), NEW pods, IsList(pods),
         \A i \in DOMAIN pods : IsPod(pods[i])
  PROVE  /\ Count(Available(node, pods).cpu) \in Nat
         /\ Count(Available(node, pods).memory) \in Nat
BY NodeFits, Zenon

(* What another turn leaves of the list of pods. *)
LEMMA PodsAppended ==
  ASSUME NEW pods \in Seq(Lists), NEW new \in Lists, NEW more, more = Append(pods, new)
  PROVE  /\ more \in Seq(Lists) /\ Len(more) = Len(pods) + 1 /\ Len(pods) \in Nat
         /\ \A k \in 1 .. Len(pods) : more[k] = pods[k]
         /\ more[Len(pods) + 1] = new
         /\ \A k \in 1 .. Len(more) : k \in 1 .. Len(pods) \/ k = Len(pods) + 1
<1>1. /\ more \in Seq(Lists) /\ Len(more) = Len(pods) + 1
      /\ \A k \in 1 .. Len(pods) : more[k] = pods[k]
      /\ more[Len(pods) + 1] = new
  BY AppendProperties
<1>2. Len(pods) \in Nat
  BY LenProperties
<1> QED
  BY <1>1, <1>2

LEMMA NodeSkipped ==
  ASSUME NEW b, BuildInv(b), Len(b.pods) < Len(ClusterNodes),
         ~ Taken(Len(b.pods) + 1),
         NEW c, c = [b EXCEPT !.pods = Append(@, << >>)]
  PROVE  BuildInv(c) /\ Len(c.pods) = Len(b.pods) + 1
<1> DEFINE n == Len(b.pods)
<1>1. /\ b = [graph |-> b.graph, subnets |-> b.subnets, pods |-> b.pods]
      /\ WellFormed(b.graph) /\ b.pods \in Seq(Lists) /\ b.subnets \in 0 .. n
      /\ Placed(b.graph, n) /\ Listed(b.graph, n)
      /\ \A k \in 1 .. n : IF Taken(k) THEN Filled(b, k) ELSE b.pods[k] = << >>
  BY DEF BuildInv
<1>2. /\ c = [graph |-> c.graph, subnets |-> c.subnets, pods |-> c.pods]
      /\ c.graph = b.graph /\ c.subnets = b.subnets /\ c.pods = Append(b.pods, << >>)
  <2> DEFINE more == Append(b.pods, << >>)
  <2>1. c = [b EXCEPT !.pods = more]
    OBVIOUS
  <2> HIDE DEF more
  <2>2. c = [graph |-> b.graph, subnets |-> b.subnets, pods |-> more]
    BY <1>1, <2>1, Zenon
  <2> QED BY <2>2, Zenon DEF more
<1>3. /\ c.pods \in Seq(Lists) /\ Len(c.pods) = n + 1 /\ n \in Nat
      /\ \A k \in 1 .. n : c.pods[k] = b.pods[k]
      /\ c.pods[n + 1] = << >>
      /\ \A k \in 1 .. n + 1 : k \in 1 .. n \/ k = n + 1
  <2>1. b.pods \in Seq(Lists) /\ << >> \in Lists /\ c.pods = Append(b.pods, << >>)
    BY <1>1, <1>2 DEF Lists
  <2> QED BY <2>1, PodsAppended
<1>4. 1 .. n \subseteq 1 .. n + 1
  BY <1>3
<1>5. Placed(b.graph, n + 1)
  BY <1>1, <1>4, Zenon DEF Placed
<1>6. Listed(b.graph, n + 1)
  <2>1. /\ \A v \in NodesOf(b.graph) : \E k \in 1 .. n : Taken(k) /\ v.name = NodeName(k)
        /\ \A k \in 1 .. n : Taken(k) => \E v \in NodesOf(b.graph) : v.name = NodeName(k)
        /\ \A v, w \in NodesOf(b.graph) : v.name = w.name => v = w
    BY <1>1, Zenon DEF Listed
  <2>2. \A v \in NodesOf(b.graph) : \E k \in 1 .. n + 1 : Taken(k) /\ v.name = NodeName(k)
    BY <1>4, <2>1, Zenon
  <2>3. \A k \in 1 .. n + 1 : Taken(k) => \E v \in NodesOf(b.graph) : v.name = NodeName(k)
    <3>1. ASSUME NEW k \in 1 .. n + 1, Taken(k)
          PROVE  \E v \in NodesOf(b.graph) : v.name = NodeName(k)
      <4>1. k \in 1 .. n
        BY <1>3, <3>1
      <4> QED BY <2>1, <3>1, <4>1, Zenon
    <3> QED BY <3>1
  <2> QED BY <2>1, <2>2, <2>3, Zenon DEF Listed
<1>7. ASSUME NEW k \in 1 .. n + 1
      PROVE  IF Taken(k) THEN Filled(c, k) ELSE c.pods[k] = << >>
  <2>1. CASE k = n + 1
    BY <1>3, <2>1
  <2>2. CASE k \in 1 .. n
    BY <1>1, <1>2, <1>3, <2>2, Zenon DEF Filled
  <2> QED BY <1>3, <2>1, <2>2
<1>8. Len(c.pods) <= Len(ClusterNodes) /\ c.subnets \in 0 .. Len(c.pods)
  BY <1>1, <1>2, <1>3, ClusterFacts
<1> QED
  BY <1>1, <1>2, <1>3, <1>5, <1>6, <1>7, <1>8, Zenon DEF BuildInv

(* h offers what g does of the first n nodes, and this much of the next. *)
OffersMore(h, g, n, cpu, memory) ==
  /\ \A k \in 1 .. n : \A type \in {"core", "memory"} :
       Offered(h, k, type) = Offered(g, k, type)
  /\ Cardinality(Offered(h, n + 1, "core")) = cpu
  /\ Cardinality(Offered(h, n + 1, "memory")) = memory

LEMMA OfferedGrows ==
  ASSUME NEW b, BuildInv(b), NEW n \in Nat, n = Len(b.pods), NEW h,
         NEW cpu, NEW memory, HasNode(h, b.graph, NodeName(n + 1), cpu, memory)
  PROVE  OffersMore(h, b.graph, n, cpu, memory)
<1> DEFINE g == b.graph
<1>1. PICK subnet, node, gpus, cores, mems :
         /\ Range(h.nodes) = Range(g.nodes) \cup {subnet, node} \cup gpus \cup cores \cup mems
         /\ subnet.type = "subnet" /\ node.type = "node" /\ node.name = NodeName(n + 1)
         /\ \A v \in gpus : v.type = "gpu"
         /\ \A v \in cores : v.type = "core" /\ v.path[3] = NodeName(n + 1)
         /\ \A v \in mems : v.type = "memory" /\ v.path[3] = NodeName(n + 1)
         /\ Has(cores, cpu) /\ Has(mems, memory)
  BY Zenon DEF HasNode
<1>2. \A v \in Range(g.nodes) :
         v.type \in {"core", "memory"} => \E k \in 1 .. n : v.path[3] = NodeName(k)
  BY Zenon DEF BuildInv, Placed
<1>3. \A k \in 1 .. n : NodeName(k) # NodeName(n + 1)
  BY NameFacts
<1>4. \A k, type : Offered(h, k, type)
                     = {v \in Range(h.nodes) : v.type = type /\ v.path[3] = NodeName(k)}
  BY Zenon DEF Offered, NodeName
<1>5. \A k, type : Offered(g, k, type)
                     = {v \in Range(g.nodes) : v.type = type /\ v.path[3] = NodeName(k)}
  BY Zenon DEF Offered, NodeName
<1> HIDE DEF g
<1>6. ASSUME NEW k \in 1 .. n, NEW type \in {"core", "memory"}
      PROVE  Offered(h, k, type) = Offered(g, k, type)
  <2>1. ASSUME NEW v \in Range(h.nodes), v.type = type, v.path[3] = NodeName(k)
        PROVE  v \in Range(g.nodes)
    BY <1>1, <1>3, <2>1
  <2>2. Range(g.nodes) \subseteq Range(h.nodes)
    BY <1>1
  <2>3. Offered(h, k, type)
          = {v \in Range(h.nodes) : v.type = type /\ v.path[3] = NodeName(k)}
    BY <1>4, Zenon
  <2>4. Offered(g, k, type)
          = {v \in Range(g.nodes) : v.type = type /\ v.path[3] = NodeName(k)}
    BY <1>5, Zenon
  <2> QED BY <2>1, <2>2, <2>3, <2>4, Zenon
<1>7. Offered(h, n + 1, "core") = cores
  <2>1. ASSUME NEW v \in Range(h.nodes), v.type = "core", v.path[3] = NodeName(n + 1)
        PROVE  v \in cores
    <3>1. v \notin Range(g.nodes)
      BY <1>2, <1>3, <2>1
    <3> QED BY <1>1, <2>1, <3>1
  <2>2. \A v \in cores : /\ v \in Range(h.nodes) /\ v.type = "core"
                         /\ v.path[3] = NodeName(n + 1)
    BY <1>1
  <2>3. Offered(h, n + 1, "core")
          = {v \in Range(h.nodes) : v.type = "core" /\ v.path[3] = NodeName(n + 1)}
    BY <1>4, Zenon
  <2> QED BY <2>1, <2>2, <2>3, Zenon
<1>8. Offered(h, n + 1, "memory") = mems
  <2>1. ASSUME NEW v \in Range(h.nodes), v.type = "memory", v.path[3] = NodeName(n + 1)
        PROVE  v \in mems
    <3>1. v \notin Range(g.nodes)
      BY <1>2, <1>3, <2>1
    <3> QED BY <1>1, <2>1, <3>1
  <2>2. \A v \in mems : /\ v \in Range(h.nodes) /\ v.type = "memory"
                         /\ v.path[3] = NodeName(n + 1)
    BY <1>1
  <2>3. Offered(h, n + 1, "memory")
          = {v \in Range(h.nodes) : v.type = "memory" /\ v.path[3] = NodeName(n + 1)}
    BY <1>4, Zenon
  <2> QED BY <2>1, <2>2, <2>3, Zenon
<1> QED
  BY <1>1, <1>6, <1>7, <1>8 DEF Has, OffersMore, g

LEMMA NodesGrow ==
  ASSUME NEW g, NEW n \in Nat, Placed(g, n), Listed(g, n), Taken(n + 1), NEW h,
         NEW cpu, NEW memory, HasNode(h, g, NodeName(n + 1), cpu, memory)
  PROVE  Placed(h, n + 1) /\ Listed(h, n + 1)
<1>1. PICK subnet, node, gpus, cores, mems :
         /\ Range(h.nodes) = Range(g.nodes) \cup {subnet, node} \cup gpus \cup cores \cup mems
         /\ subnet.type = "subnet" /\ node.type = "node" /\ node.name = NodeName(n + 1)
         /\ \A v \in gpus : v.type = "gpu"
         /\ \A v \in cores : v.type = "core" /\ v.path[3] = NodeName(n + 1)
         /\ \A v \in mems : v.type = "memory" /\ v.path[3] = NodeName(n + 1)
  BY Zenon DEF HasNode
<1>2. /\ 1 .. n \subseteq 1 .. n + 1 /\ n + 1 \in 1 .. n + 1
      /\ \A k \in 1 .. n + 1 : k \in 1 .. n \/ k = n + 1
      /\ \A k \in 1 .. n : NodeName(k) # NodeName(n + 1)
  <2>1. \A k \in 1 .. n : k \in Nat /\ n + 1 \in Nat /\ k # n + 1
    OBVIOUS
  <2>2. \A k \in 1 .. n : NodeName(k) # NodeName(n + 1)
    BY <2>1, NameFacts
  <2> QED BY <2>2
<1>3. Placed(h, n + 1)
  <2>1. ASSUME NEW v \in Range(h.nodes), v.type \in {"core", "memory"}
        PROVE  \E k \in 1 .. n + 1 : v.path[3] = NodeName(k)
    <3>1. CASE v \in Range(g.nodes)
      BY <1>2, <2>1, <3>1, Zenon DEF Placed
    <3>2. CASE v \in cores \cup mems
      BY <1>1, <1>2, <3>2
    <3> QED BY <1>1, <2>1, <3>1, <3>2
  <2> QED BY <2>1 DEF Placed
<1>4. NodesOf(h) = NodesOf(g) \cup {node}
  <2>1. ASSUME NEW v \in Range(h.nodes), v.type = "node"
        PROVE  v \in Range(g.nodes) \/ v = node
    BY <1>1, <2>1
  <2>2. Range(g.nodes) \subseteq Range(h.nodes) /\ node \in Range(h.nodes)
    BY <1>1
  <2> QED BY <1>1, <2>1, <2>2, Zenon DEF NodesOf
<1>5. /\ \A v \in NodesOf(g) : \E k \in 1 .. n : Taken(k) /\ v.name = NodeName(k)
      /\ \A k \in 1 .. n : Taken(k) => \E v \in NodesOf(g) : v.name = NodeName(k)
      /\ \A v, w \in NodesOf(g) : v.name = w.name => v = w
  BY Zenon DEF Listed
<1>6. \A v \in NodesOf(g) : v.name # node.name
  <2>1. ASSUME NEW v \in NodesOf(g) PROVE v.name # NodeName(n + 1)
    <3>1. PICK k \in 1 .. n : v.name = NodeName(k)
      BY <1>5, Zenon
    <3> QED BY <1>2, <3>1, Zenon
  <2> QED BY <1>1, <2>1, Zenon
<1>7. \A v \in NodesOf(h) : \E k \in 1 .. n + 1 : Taken(k) /\ v.name = NodeName(k)
  <2>1. ASSUME NEW v \in NodesOf(h)
        PROVE  \E k \in 1 .. n + 1 : Taken(k) /\ v.name = NodeName(k)
    <3>1. CASE v = node
      BY <1>1, <1>2, <3>1, Zenon
    <3>2. CASE v \in NodesOf(g)
      BY <1>2, <1>5, <3>2, Zenon
    <3> QED BY <1>4, <3>1, <3>2
  <2> QED BY <2>1
<1>8. \A k \in 1 .. n + 1 : Taken(k) => \E v \in NodesOf(h) : v.name = NodeName(k)
  <2>1. ASSUME NEW k \in 1 .. n + 1, Taken(k)
        PROVE  \E v \in NodesOf(h) : v.name = NodeName(k)
    <3>1. CASE k = n + 1
      BY <1>1, <1>4, <3>1, Zenon
    <3>2. CASE k \in 1 .. n
      BY <1>4, <1>5, <2>1, <3>2, Zenon
    <3> QED BY <1>2, <3>1, <3>2
  <2> QED BY <2>1
<1>9. \A v, w \in NodesOf(h) : v.name = w.name => v = w
  BY <1>4, <1>5, <1>6, Zenon
<1>10. Listed(h, n + 1)
  BY <1>7, <1>8, <1>9 DEF Listed
<1> QED
  BY <1>3, <1>10

WithNode(b, n, pods) ==
  [graph |-> AddComputeNode(b.graph, ClusterNodes[n + 1], n, b.subnets, pods),
   subnets |-> b.subnets + 1, pods |-> Append(b.pods, pods)]

LEMMA NodeTaken ==
  ASSUME NEW b, BuildInv(b), NEW n \in Nat, n = Len(b.pods), n < Len(ClusterNodes),
         Taken(n + 1), NEW pods \in PodLists[ClusterNodes[n + 1].name],
         NEW c, c = WithNode(b, n, pods)
  PROVE  BuildInv(c) /\ Len(c.pods) = n + 1
<1> DEFINE node == ClusterNodes[n + 1]
           cpu == Count(Available(node, pods).cpu)
           memory == Count(Available(node, pods).memory)
<1>1. /\ WellFormed(b.graph) /\ b.pods \in Seq(Lists) /\ b.subnets \in 0 .. n
      /\ Placed(b.graph, n) /\ Listed(b.graph, n)
      /\ \A k \in 1 .. n : IF Taken(k) THEN Filled(b, k) ELSE b.pods[k] = << >>
  BY DEF BuildInv
<1>2. n + 1 \in 1 .. Len(ClusterNodes) /\ b.subnets \in Nat
  <2>1. Len(ClusterNodes) \in Nat
    BY ClusterFacts, Zenon
  <2>2. n + 1 \in 1 .. Len(ClusterNodes)
    BY <2>1
  <2>3. b.subnets \in 0 .. n
    BY <1>1, Zenon
  <2> QED BY <2>2, <2>3
<1>3. /\ IsClusterNode(node) /\ node.name \in BaseNames /\ node.zone \in BaseNames
      /\ node.gpu \in Nat
      /\ IsList(pods) /\ \A i \in DOMAIN pods : IsPod(pods[i])
  BY <1>2, ClusterFacts DEF IsClusterNode
<1>4. cpu \in Nat /\ memory \in Nat
  <2> HIDE DEF node
  <2> QED BY <1>3, UnitsType
<1>5. NodeName(n + 1) = <<node.name, n>>
  BY DEF NodeName
<1>6. HasNode(c.graph, b.graph, NodeName(n + 1), cpu, memory)
  <2> DEFINE h == AddComputeNode(b.graph, node, n, b.subnets, pods)
  <2>1. c.graph = h
    BY DEF WithNode
  <2>2. cpu = Count(Available(node, pods).cpu) /\ memory = Count(Available(node, pods).memory)
    OBVIOUS
  <2> HIDE DEF node, cpu, memory
  <2>3. HasNode(h, b.graph, <<node.name, n>>, cpu, memory)
    BY <1>1, <1>2, <1>3, <1>4, <2>2, ComputeNodeAdded, Zenon
  <2> HIDE DEF h
  <2> QED BY <1>5, <2>1, <2>3, Zenon
<1>7. /\ c = [graph |-> c.graph, subnets |-> c.subnets, pods |-> c.pods]
      /\ c.subnets = b.subnets + 1 /\ c.pods = Append(b.pods, pods)
  <2> DEFINE h == AddComputeNode(b.graph, node, n, b.subnets, pods)
             more == Append(b.pods, pods)
  <2>1. c = [graph |-> h, subnets |-> b.subnets + 1, pods |-> more]
    BY Zenon DEF WithNode
  <2> DEFINE next == b.subnets + 1
  <2> HIDE DEF h, more, next
  <2>2. c.graph = h /\ c.subnets = next /\ c.pods = more
    BY <2>1 DEF next
  <2>3. c = [graph |-> c.graph, subnets |-> c.subnets, pods |-> c.pods]
    BY <2>1, <2>2, Zenon DEF next
  <2> QED BY <2>2, <2>3, Zenon DEF more, next
<1>8. /\ c.pods \in Seq(Lists) /\ Len(c.pods) = n + 1
      /\ \A k \in 1 .. n : c.pods[k] = b.pods[k]
      /\ c.pods[n + 1] = pods
      /\ \A k \in 1 .. n + 1 : k \in 1 .. n \/ k = n + 1
  <2>1. pods \in Lists
    BY <1>2, ClusterFacts DEF Lists
  <2>2. b.pods \in Seq(Lists) /\ c.pods = Append(b.pods, pods)
    BY <1>1, <1>7
  <2> QED BY <2>1, <2>2, PodsAppended
<1>9. Placed(c.graph, n + 1) /\ Listed(c.graph, n + 1)
  <2> HIDE DEF cpu, memory
  <2> QED BY <1>1, <1>6, NodesGrow, Zenon
<1>10. /\ \A k \in 1 .. n : \A type \in {"core", "memory"} :
             Offered(c.graph, k, type) = Offered(b.graph, k, type)
       /\ Cardinality(Offered(c.graph, n + 1, "core")) = cpu
       /\ Cardinality(Offered(c.graph, n + 1, "memory")) = memory
  <2> HIDE DEF cpu, memory
  <2>1. OffersMore(c.graph, b.graph, n, cpu, memory)
    BY <1>6, OfferedGrows, Zenon
  <2> QED BY <2>1 DEF OffersMore
<1>11. ASSUME NEW k \in 1 .. n + 1
       PROVE  IF Taken(k) THEN Filled(c, k) ELSE c.pods[k] = << >>
  <2>1. CASE k = n + 1
    <3>1. Filled(c, n + 1)
      BY <1>8, <1>10, Zenon DEF Filled
    <3> QED BY <2>1, <3>1
  <2>2. CASE k \in 1 .. n
    <3>1. /\ Offered(c.graph, k, "core") = Offered(b.graph, k, "core")
          /\ Offered(c.graph, k, "memory") = Offered(b.graph, k, "memory")
      BY <1>10, <2>2
    <3>2. c.pods[k] = b.pods[k]
      BY <1>8, <2>2
    <3>3. Filled(b, k) => Filled(c, k)
      BY <3>1, <3>2, Zenon DEF Filled
    <3> QED BY <1>1, <2>2, <3>2, <3>3
  <2> QED BY <1>8, <2>1, <2>2
<1>12. Len(c.pods) <= Len(ClusterNodes) /\ c.subnets \in 0 .. Len(c.pods)
  <2>1. Len(c.pods) = n + 1 /\ c.subnets = b.subnets + 1 /\ b.subnets \in 0 .. n
    BY <1>1, <1>7, <1>8, Zenon
  <2>2. n + 1 <= Len(ClusterNodes)
    BY <1>2
  <2> QED BY <2>1, <2>2
<1>13. WellFormed(c.graph)
  BY <1>6, Zenon DEF HasNode
<1> QED
  BY <1>7, <1>8, <1>9, <1>11, <1>12, <1>13 DEF BuildInv

(* A turn of createInClusterJGF's loop keeps the invariant of the graph. *)
LEMMA TurnKeepsBuild ==
  ASSUME BuildInv(build), Len(build.pods) < Len(ClusterNodes),
         NEW c \in NodeAdded(Len(build.pods), ClusterNodes[Len(build.pods) + 1])
  PROVE  BuildInv(c) /\ Len(c.pods) = Len(build.pods) + 1
<1> DEFINE n == Len(build.pods)
<1>1. n \in Nat
  BY LenProperties DEF BuildInv
<1>2. CASE ~ Taken(n + 1)
  <2>1. c = [build EXCEPT !.pods = Append(@, << >>)]
    BY <1>2, Zenon DEF NodeAdded, Taken
  <2> QED BY <1>2, <2>1, NodeSkipped, Zenon
<1>3. CASE Taken(n + 1)
  <2>1. PICK pods \in PodLists[ClusterNodes[n + 1].name] :
           c = WithNode(build, n, pods)
    BY <1>3, Zenon DEF NodeAdded, Taken, WithNode
  <2> QED BY <1>1, <1>3, <2>1, NodeTaken, Zenon
<1> QED
  BY <1>2, <1>3

-----------------------------------------------------------------------------
(* The invariant of the start.  The loop over the nodes runs to its end      *)
(* before the graph is written, a manager past InitFluxion has its client    *)
(* and one that serves its queue: where the code goes on without either, a   *)
(* deferred call ends it first.                                              *)

Calls ==
  {"manager", "queue", "client", "nodes", "write", "init", "controller", "events",
   "checks", "serving", "stopped", "exited"}

Control ==
  /\ phase \in Calls
  /\ queue \in BOOLEAN /\ client \in BOOLEAN /\ informer \in BOOLEAN
  /\ phase \in {"manager", "queue", "client"} => build = NewBuild
  /\ phase = "nodes" => Len(build.pods) < Len(ClusterNodes)
  /\ phase \in {"write", "init"} => Len(build.pods) = Len(ClusterNodes)
  /\ phase \in {"controller", "events", "checks", "serving"} => client
  /\ phase = "serving" => queue

Counters == faults \in 0 .. MaxFaults /\ starts \in 1 .. MaxStarts

FluxionInv == (fluxion = NoGraph \/ fluxion \subseteq Vertices) /\ GraphIsComplete

StartUpInv == Control /\ BuildInv(build) /\ FluxionInv /\ Counters

LEMMA InitInv == Init => StartUpInv
<1> SUFFICES ASSUME Init PROVE StartUpInv
  OBVIOUS
<1>1. BuildInv(build)
  BY EmptyBuild DEF Init
<1>2. Control
  BY Zenon DEF Init, Control, Calls
<1>3. FluxionInv
  BY DEF Init, FluxionInv, GraphIsComplete
<1>4. Counters
  BY StartUpAssumption DEF Init, Counters
<1> QED
  BY <1>1, <1>2, <1>3, <1>4 DEF StartUpInv

LEMMA CountersStep ==
  ASSUME Counters, [Next]_vars
  PROVE  Counters'
<1>1. MaxFaults \in Nat /\ MaxStarts \in Nat \ {0}
  BY StartUpAssumption, Zenon
<1>2. faults' = faults \/ Fault
  BY Zenon DEF Next, vars, NewManager, NewQueue, NewClient, AddNode, WriteJGF, InitFluxion,
     SetupWithManager, SetupEvents, HealthChecks, Stop, Restart, FluxionRestart
<1>3. starts' = starts \/ (starts < MaxStarts /\ starts' = starts + 1)
  BY Zenon DEF Next, vars, NewManager, NewQueue, NewClient, AddNode, WriteJGF, InitFluxion,
     SetupWithManager, SetupEvents, HealthChecks, Stop, Restart, FluxionRestart
<1> QED
  BY <1>1, <1>2, <1>3 DEF Counters, Fault

LEMMA BuildStep ==
  ASSUME Control, BuildInv(build), [Next]_vars
  PROVE  BuildInv(build')
<1>1. \/ build' = build \/ build' = NewBuild
      \/ /\ phase = "nodes"
         /\ build' \in NodeAdded(Len(build.pods), ClusterNodes[Len(build.pods) + 1])
  BY Zenon DEF Next, vars, NewManager, NewQueue, NewClient, AddNode, WriteJGF, InitFluxion,
     SetupWithManager, SetupEvents, HealthChecks, Stop, Restart, FluxionRestart,
     ReturnToMain, Exit, Goto
<1>2. ASSUME phase = "nodes",
             build' \in NodeAdded(Len(build.pods), ClusterNodes[Len(build.pods) + 1])
      PROVE  BuildInv(build')
  <2>1. Len(build.pods) < Len(ClusterNodes)
    BY <1>2 DEF Control
  <2> QED BY <1>2, <2>1, TurnKeepsBuild, Zenon
<1> QED
  BY <1>1, <1>2, EmptyBuild, Zenon

LEMMA ControlStep ==
  ASSUME Control, BuildInv(build), [Next]_vars
  PROVE  Control'
<1>1. CASE Exit
  BY <1>1, Zenon DEF Exit, Control, Calls
<1>2. CASE NewManager
  BY <1>1, <1>2 DEF NewManager, Goto, Control, Calls
<1>3. CASE NewQueue
  BY <1>3, Zenon DEF NewQueue, Control, Calls
<1>4. CASE NewClient
  <2>1. Len(NewBuild.pods) < Len(ClusterNodes)
    BY ClusterFacts DEF NewBuild
  <2> QED BY <1>4, <2>1, Zenon DEF NewClient, Control, Calls
<1>5. CASE AddNode
  <2> DEFINE n == Len(build.pods)
  <2>1. n \in Nat /\ n < Len(ClusterNodes) /\ Len(ClusterNodes) \in Nat
    <3>1. n \in Nat
      BY LenProperties DEF BuildInv
    <3> QED BY <1>5, <3>1, ClusterFacts DEF AddNode, Control
  <2>2. CASE ReturnToMain
    BY <1>1, <2>2 DEF ReturnToMain, Goto, Control, Calls
  <2>3. CASE /\ build' \in NodeAdded(n, ClusterNodes[n + 1])
             /\ phase' = LoopPhase
             /\ UNCHANGED <<queue, client, informer, faults>>
    <3>1. Len(build'.pods) = n + 1
      BY <2>1, <2>3, TurnKeepsBuild, Zenon
    <3>2. CASE n + 1 = Len(ClusterNodes)
      <4>1. phase' = "write"
        BY <2>3, <3>2 DEF LoopPhase
      <4>2. Len(build'.pods) = Len(ClusterNodes)
        BY <3>1, <3>2
      <4> QED BY <2>3, <4>1, <4>2 DEF Control, Calls
    <3>3. CASE n + 1 # Len(ClusterNodes)
      <4>1. phase' = "nodes"
        BY <2>3, <3>3 DEF LoopPhase
      <4>2. Len(build'.pods) < Len(ClusterNodes)
        <5> DEFINE m == Len(ClusterNodes)
                   p == Len(build'.pods)
        <5>1. n \in Nat /\ m \in Nat /\ n < m /\ n + 1 # m /\ p = n + 1
          BY <2>1, <3>1, <3>3
        <5> HIDE DEF n, m, p
        <5>2. p < m
          BY <5>1
        <5> QED BY <5>2 DEF m, p
      <4> QED BY <2>3, <4>1, <4>2 DEF Control, Calls
    <3> QED BY <3>2, <3>3
  <2> QED BY <1>5, <2>2, <2>3 DEF AddNode
<1>6. CASE WriteJGF
  BY <1>1, <1>6 DEF WriteJGF, Goto, Control, Calls
<1>7. CASE InitFluxion
  BY <1>1, <1>7 DEF InitFluxion, ReturnToMain, Goto, Control, Calls
<1>8. CASE SetupWithManager
  BY <1>1, <1>8, Zenon DEF SetupWithManager, Goto, Control, Calls
<1>9. CASE SetupEvents
  BY <1>9, Zenon DEF SetupEvents, Control, Calls
<1>10. CASE HealthChecks
  BY <1>1, <1>10, Zenon DEF HealthChecks, Goto, Control, Calls
<1>11. CASE Stop
  BY <1>1, <1>11, Zenon DEF Stop, Control, Calls
<1>12. CASE Restart
  BY <1>12, Zenon DEF Restart, Control, Calls
<1>13. CASE FluxionRestart
  BY <1>13 DEF FluxionRestart, Control, Calls
<1>14. CASE UNCHANGED vars
  BY <1>14 DEF vars, Control, Calls
<1> QED
  BY <1>2, <1>3, <1>4, <1>5, <1>6, <1>7, <1>8, <1>9, <1>10, <1>11, <1>12, <1>13, <1>14
  DEF Next

(* A graph that is sent was finished: it lists each node of the cluster that *)
(* takes pods.                                                               *)
LEMMA FluxionStep ==
  ASSUME Control, BuildInv(build), FluxionInv, [Next]_vars
  PROVE  FluxionInv'
<1>1. \/ fluxion' = fluxion \/ fluxion' = NoGraph
      \/ phase = "init" /\ fluxion' = NodesOf(build.graph)
  BY Zenon DEF Next, vars, NewManager, NewQueue, NewClient, AddNode, WriteJGF, InitFluxion,
     SetupWithManager, SetupEvents, HealthChecks, Stop, Restart, FluxionRestart
<1>2. CASE fluxion' = fluxion
  BY <1>2, Zenon DEF FluxionInv, GraphIsComplete
<1>3. CASE fluxion' = NoGraph
  BY <1>3, Zenon DEF FluxionInv, GraphIsComplete
<1>4. CASE phase = "init" /\ fluxion' = NodesOf(build.graph)
  <2> DEFINE n == Len(ClusterNodes)
             F == NodesOf(build.graph)
             T == {k \in DOMAIN ClusterNodes : ~ Skipped(ClusterNodes[k])}
  <2>1. Len(build.pods) = n
    BY <1>4 DEF Control
  <2>2. Listed(build.graph, n) /\ WellFormed(build.graph)
    BY <2>1 DEF BuildInv
  <2>3. \A v \in F : v \in Vertices
    BY <2>2, VertexFacts DEF NodesOf
  <2>4. \A k : k \in T <=> k \in 1 .. n /\ Taken(k)
    BY ClusterFacts DEF Taken
  <2>5. /\ \A v \in F : \E k \in 1 .. n : Taken(k) /\ v.name = NodeName(k)
        /\ \A k \in 1 .. n : Taken(k) => \E v \in F : v.name = NodeName(k)
        /\ \A v, w \in F : v.name = w.name => v = w
    BY <2>2, Zenon DEF Listed
  <2> HIDE DEF F, T, n
  <2>6. {v.name : v \in F} = {NodeName(k) : k \in T}
    <3>1. ASSUME NEW v \in F PROVE v.name \in {NodeName(k) : k \in T}
      <4>1. PICK k \in 1 .. n : Taken(k) /\ v.name = NodeName(k)
        BY <2>5, Zenon
      <4> QED BY <2>4, <4>1, Zenon
    <3>2. ASSUME NEW k \in T PROVE NodeName(k) \in {v.name : v \in F}
      <4>1. k \in 1 .. n /\ Taken(k)
        BY <2>4, Zenon
      <4>2. PICK v \in F : v.name = NodeName(k)
        BY <2>5, <4>1, Zenon
      <4> QED BY <4>2, Zenon
    <3> QED BY <3>1, <3>2, Zenon
  <2>7. fluxion' = F
    BY <1>4 DEF F
  <2>8. /\ {v.name : v \in fluxion'} = {<<ClusterNodes[i].name, i - 1>> : i \in T}
        /\ \A v, w \in fluxion' : v.name = w.name => v = w
    BY <2>5, <2>6, <2>7, Zenon DEF NodeName
  <2>9. fluxion' \subseteq Vertices
    BY <2>3, <2>7
  <2> QED
    BY <2>8, <2>9, Zenon DEF FluxionInv, GraphIsComplete, T
<1> QED
  BY <1>1, <1>2, <1>3, <1>4

LEMMA StepInv == StartUpInv /\ [Next]_vars => StartUpInv'
<1> SUFFICES ASSUME StartUpInv, [Next]_vars PROVE StartUpInv'
  OBVIOUS
<1>1. Control /\ BuildInv(build) /\ FluxionInv /\ Counters
  BY DEF StartUpInv
<1>2. Control'
  BY <1>1, ControlStep
<1>3. BuildInv(build')
  BY <1>1, BuildStep
<1>4. FluxionInv'
  BY <1>1, FluxionStep
<1>5. Counters'
  BY <1>1, CountersStep
<1>6. BuildInv(build)'
  BY <1>3, Zenon
<1> QED
  BY <1>2, <1>4, <1>5, <1>6 DEF StartUpInv

LEMMA Invariance == Spec => []StartUpInv
BY InitInv, StepInv, PTL DEF Spec

(* Every reachable graph has its types, and its counter of ids counts its    *)
(* vertices.                                                                 *)
THEOREM StartUpTypeCorrect == Spec => []TypeOK
<1>1. StartUpInv => TypeOK
  <2> SUFFICES ASSUME StartUpInv PROVE TypeOK
    OBVIOUS
  <2>1. /\ build.graph.nodes \in Seq(Vertices) /\ build.graph.edges \in Seq(Nat \X Nat)
        /\ build.graph.elements = Len(build.graph.nodes)
        /\ build.pods \in Seq(Lists) /\ Len(build.pods) <= Len(ClusterNodes)
        /\ build.subnets \in 0 .. Len(build.pods)
    BY DEF StartUpInv, BuildInv, WellFormed, GraphType
  <2>2. {queue, client, informer} \subseteq BOOLEAN
    BY DEF StartUpInv, Control
  <2> QED
    BY <2>1, <2>2, Zenon DEF StartUpInv, Control, Calls, FluxionInv, Counters, TypeOK
<1> QED
  BY <1>1, Invariance, PTL

(* main gets as far as mgr.Start only with its queue and its client. *)
THEOREM ServingSafe == Spec => []ServingHasQueue
<1>1. StartUpInv => ServingHasQueue
  BY DEF StartUpInv, Control, ServingHasQueue
<1> QED
  BY <1>1, Invariance, PTL

(* For every cluster and every list of pods, the graph package builds a      *)
(* containment tree, at every point of its loop.                             *)
THEOREM GraphIsTree == Spec => []ContainmentTree
<1>1. StartUpInv => ContainmentTree
  BY DEF StartUpInv, BuildInv, WellFormed, ContainmentTree
<1> QED
  BY <1>1, Invariance, PTL

(* Fluxion is never given part of the cluster. *)
THEOREM FluxionHasAll == Spec => []GraphIsComplete
<1>1. StartUpInv => GraphIsComplete
  BY DEF StartUpInv, FluxionInv
<1> QED
  BY <1>1, Invariance, PTL

(* What Fluxion is offered of a node is what its pods leave at the height of *)
(* their demand, for every node and every list of pods.                      *)
THEOREM OfferIsRight == Spec => []OfferedFits
<1>1. StartUpInv => OfferedFits
  <2> SUFFICES ASSUME StartUpInv, NEW i \in DOMAIN build.pods, ~ Skipped(ClusterNodes[i])
               PROVE  /\ Fits(Cardinality(Offered(build.graph, i, "core")), 1000,
                              Sum([k \in DOMAIN build.pods[i] |->
                                     PeakDemand(build.pods[i][k], "cpu")]),
                              ClusterNodes[i].cpu)
                      /\ Fits(Cardinality(Offered(build.graph, i, "memory")), Gi,
                              Sum([k \in DOMAIN build.pods[i] |->
                                     PeakDemand(build.pods[i][k], "memory")]),
                              ClusterNodes[i].memory)
    BY Zenon DEF OfferedFits
  <2> DEFINE node == ClusterNodes[i]
             pods == build.pods[i]
  <2>1. /\ build.pods \in Seq(Lists) /\ Len(build.pods) <= Len(ClusterNodes)
        /\ \A k \in 1 .. Len(build.pods) : Taken(k) => Filled(build, k)
    BY DEF StartUpInv, BuildInv
  <2>2. i \in 1 .. Len(build.pods) /\ i \in 1 .. Len(ClusterNodes)
    <3>1. Len(build.pods) \in Nat /\ DOMAIN build.pods = 1 .. Len(build.pods)
      BY <2>1, LenProperties, Zenon
    <3>2. Len(ClusterNodes) \in Nat
      BY ClusterFacts, Zenon
    <3>3. Len(build.pods) <= Len(ClusterNodes)
      BY <2>1, Zenon
    <3> QED BY <3>1, <3>2, <3>3
  <2>3. Filled(build, i)
    BY <2>1, <2>2 DEF Taken
  <2>4. /\ pods \in PodLists[node.name]
        /\ Cardinality(Offered(build.graph, i, "core")) = Count(Available(node, pods).cpu)
        /\ Cardinality(Offered(build.graph, i, "memory"))
             = Count(Available(node, pods).memory)
    BY <2>3, Zenon DEF Filled
  <2>5. /\ IsClusterNode(node) /\ IsList(pods)
        /\ \A k \in DOMAIN pods : IsPod(pods[k])
    BY <2>2, <2>4, ClusterFacts, Zenon
  <2> HIDE DEF node, pods
  <2>6. /\ Fits(Count(Available(node, pods).cpu), Milli,
                Sum([k \in DOMAIN pods |-> PeakDemand(pods[k], "cpu")]), node.cpu)
        /\ Fits(Count(Available(node, pods).memory), Gi,
                Sum([k \in DOMAIN pods |-> PeakDemand(pods[k], "memory")]), node.memory)
    BY <2>5, NodeFits, Zenon
  <2>7. /\ Fits(Cardinality(Offered(build.graph, i, "core")), Milli,
                Sum([k \in DOMAIN build.pods[i] |-> PeakDemand(build.pods[i][k], "cpu")]),
                ClusterNodes[i].cpu)
        /\ Fits(Cardinality(Offered(build.graph, i, "memory")), Gi,
                Sum([k \in DOMAIN build.pods[i] |-> PeakDemand(build.pods[i][k], "memory")]),
                ClusterNodes[i].memory)
    BY <2>4, <2>6, Zenon DEF node, pods
  <2> QED
    BY <2>7 DEF Milli
<1> QED
  BY <1>1, Invariance, PTL

LEMMA ListedPodsArePods ==
  ASSUME StartUpInv, NEW pod \in ListedPods
  PROVE  IsPod(pod)
<1>1. PICK i \in DOMAIN build.pods : pod \in Range(build.pods[i])
  BY DEF ListedPods
<1>2. /\ build.pods \in Seq(Lists) /\ Len(build.pods) <= Len(ClusterNodes)
      /\ \A k \in 1 .. Len(build.pods) :
           IF Taken(k) THEN Filled(build, k) ELSE build.pods[k] = << >>
  BY DEF StartUpInv, BuildInv
<1>3. i \in 1 .. Len(build.pods) /\ i \in 1 .. Len(ClusterNodes)
  BY <1>1, <1>2, LenProperties, ClusterFacts
<1>4. build.pods[i] # << >>
  BY <1>1 DEF Range
<1>5. build.pods[i] \in PodLists[ClusterNodes[i].name]
  BY <1>2, <1>3, <1>4 DEF Filled
<1>6. \A k \in DOMAIN build.pods[i] : IsPod(build.pods[i][k])
  BY <1>3, <1>5, ClusterFacts, Zenon
<1> QED
  BY <1>1, <1>6, Zenon DEF Range

(* podRequests stays within podLimits where each container does. *)
THEOREM LimitsHold == Spec => []RequestsWithinLimits
<1>1. StartUpInv => RequestsWithinLimits
  BY ListedPodsArePods, PodWithinLimits, Zenon DEF RequestsWithinLimits
<1> QED
  BY <1>1, Invariance, PTL

(* The jobspec of every pod asks for its containers' cores, rounded up for   *)
(* each and within an int32, and the graph takes off more for the pod only   *)
(* by its overhead, its init containers and a resize.                        *)
THEOREM JobspecIsRight == Spec => []JobspecCoversPod
<1>1. StartUpInv => JobspecCoversPod
  <2> SUFFICES ASSUME StartUpInv, NEW pod \in ListedPods,
                      RoundedDemand(pod, "cpu") < Int32Limit
               PROVE  LET cores == GeneratePodResources(pod.containers)
                          own == OwnDemand(pod, "cpu")
                      IN /\ own <= 1000 * cores
                         /\ cores = 1 \/ 1000 * cores < own + 1000 * Len(pod.containers)
                         /\ Quantity(podRequests(pod), "cpu")
                              <= 1000 * cores + Extras(pod, "cpu")
    BY Zenon DEF JobspecCoversPod
  <2>1. IsPod(pod)
    BY ListedPodsArePods
  <2> QED
    BY <2>1, PodCovered
<1> QED
  BY <1>1, Invariance, PTL
=============================================================================
