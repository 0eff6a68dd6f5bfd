------------------------------ MODULE MCWorkers ------------------------------
(* Small instances of Workers.  Sizes are given as the objects that ask for  *)
(* two nodes and for three (more than any instance has); others ask for one. *)
EXTENDS Workers, TLC

CONSTANTS Wide, TooWide, Twice

MCSize ==
  [o \in Objects |-> IF o \in TooWide THEN 3 ELSE IF o \in Wide THEN 2 ELSE 1]

(* Objects whose job is sent to river a second time, as after a restart      *)
(* between InsertMany and the deletion of the rows.                          *)
MCCopies == [o \in Objects |-> IF o \in Twice THEN 2 ELSE 1]

(* No node is special. *)
MCSymmetry == Permutations(Slots)
=============================================================================
