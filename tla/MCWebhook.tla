------------------------------- MODULE MCWebhook -------------------------------
(* A pod, a Job with a pod, a Deployment with its ReplicaSet and two pods, a *)
(* ReplicaSet of a user and a StatefulSet with a pod each.  The objects of    *)
(* different users' objects share no state, so one of these is followed at a *)
(* time.                                                                     *)
EXTENDS Webhook

CONSTANTS p, j, jp, d, r, dp, dq, t, tp, s, sp

MCKind ==
  [o \in Objects |->
     CASE o \in {p, jp, dp, dq, tp, sp} -> "pod"
       [] o = j -> "job"
       [] o = d -> "deployment"
       [] o \in {r, t} -> "replicaset"
       [] o = s -> "statefulset"]

MCOwner ==
  [o \in Objects |->
     CASE o \in {p, j, d, t, s} -> None
       [] o = jp -> j
       [] o = r -> d
       [] o \in {dp, dq} -> r
       [] o = tp -> t
       [] o = sp -> s]

InUse(o) ==
  Exists(o) \/ request[o] # Idle \/ o \in fluxjobs \cup cached \cup queue

OneAtATime ==
  \A x, y \in Objects : InUse(x) /\ InUse(y) => Root[x] = Root[y]
=============================================================================
