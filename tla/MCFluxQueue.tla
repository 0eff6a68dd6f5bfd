----------------------------- MODULE MCFluxQueue -----------------------------
(* Small instances of FluxQueue: a pod and a job that share their name (and  *)
(* so their row of pending_queue) and a pod of another name.                 *)
EXTENDS FluxQueue, TLC

CONSTANTS aPod, aJob, bPod, a, b

MCNames == {a, b}
MCNameOf == [f \in FluxJobs |-> IF f = bPod THEN b ELSE a]

(* The two FluxJobs of one name differ in nothing else. *)
MCSymmetry == Permutations({aPod, aJob})
=============================================================================
