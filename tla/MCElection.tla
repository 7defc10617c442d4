----------------------------- MODULE MCElection -----------------------------
(***************************************************************************)
(* Instances of Election for TLC.                                          *)
(***************************************************************************)
EXTENDS Election

CONSTANTS a, b, v, yes, no

(***************************************************************************)
(* A voter changes her mind; the later vote has the smaller message id.    *)
(***************************************************************************)
Ballots ==
  {[id |-> 2, voter |-> v, option |-> yes, time |-> 1],
   [id |-> 1, voter |-> v, option |-> no, time |-> 2]}

=============================================================================
