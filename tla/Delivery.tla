------------------------------- MODULE Delivery -------------------------------
(***************************************************************************)
(* What the producer side promises: FluxJobs are submitted, numbered as    *)
(* they come; the queue accepts them, in any order and not necessarily     *)
(* all; and whatever it has accepted goes to Fluxion's queue together.     *)
(* What was accepted stays accepted, what was sent stays sent, and nothing *)
(* is sent that was not accepted.                                          *)
(***************************************************************************)
EXTENDS Naturals

VARIABLES
  submitted,  \* the number of FluxJobs submitted
  accepted,   \* those in the queue's hands
  sent        \* those handed over

Init ==
  /\ submitted = 0
  /\ accepted = {}
  /\ sent = {}

Submit ==
  /\ submitted' = submitted + 1
  /\ UNCHANGED <<accepted, sent>>

Accept(u) ==
  /\ accepted' = accepted \cup {u}
  /\ UNCHANGED <<submitted, sent>>

Send ==
  /\ sent' = accepted
  /\ UNCHANGED <<submitted, accepted>>

Next ==
  \/ Submit
  \/ \E u \in 1 .. submitted : Accept(u)
  \/ Send

Spec == Init /\ [][Next]_<<submitted, accepted, sent>>
=============================================================================
