------------------------------- MODULE MCStartUp -------------------------------
(* A small cluster: the control plane, two workers of one zone and a         *)
(* cordoned node.  The pods of the first worker are all the pods of up to    *)
(* two containers and two init containers below; the second's are few.       *)
EXTENDS StartUp

CONSTANTS zone

Millicores(milli) == [name \in {"cpu"} |-> milli]

Container(requests, limits, always) ==
  [requests |-> requests, limits |-> limits, status |-> NoStatus,
   always |-> always]

Small == Container(Millicores(400), Millicores(1000), FALSE)
Large == Container([cpu |-> 1300, memory |-> 3], [cpu |-> 1300, memory |-> 3], FALSE)
Resized == [Small EXCEPT !.status = Millicores(900)]

Sidecars == {[c EXCEPT !.always = TRUE] : c \in {Small, Large}}

Pod(containers, init, overhead, infeasible) ==
  [containers |-> containers, init |-> init, overhead |-> overhead,
   infeasible |-> infeasible]

Pods ==
  {Pod(containers, init, overhead, FALSE) :
     containers \in {<<Small>>, <<Large>>, <<Small, Large>>},
     init \in UNION {[1 .. n -> {Large} \cup Sidecars] : n \in 0 .. 2},
     overhead \in {Empty, Millicores(250)}}

(* One core more than the instance's int32 holds. *)
Wide == Pod(<<Large, Large>>, << >>, Empty, FALSE)

MCPodLists ==
  [name \in {"control", "w1", "w2", "cordoned"} |->
     IF name = "w1" THEN {<<p>> : p \in Pods \cup {Wide}}
     ELSE {<< >>,
           <<Pod(<<Resized>>, << >>, Empty, FALSE), Pod(<<Large>>, << >>, Empty, FALSE)>>,
           <<Pod(<<Resized, Small>>, << >>, Empty, TRUE)>>}]

Node(name, control, cordoned, cpu, gpu) ==
  [name |-> name, zone |-> zone, controlPlane |-> control,
   unschedulable |-> cordoned, cpu |-> cpu, memory |-> 7, gpu |-> gpu]

MCClusterNodes ==
  <<Node("control", TRUE, FALSE, 4000, 0), Node("w1", FALSE, FALSE, 4900, 1),
    Node("cordoned", FALSE, TRUE, 4000, 0), Node("w2", FALSE, FALSE, 2000, 0)>>
=============================================================================
