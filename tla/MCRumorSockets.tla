--------------------------- MODULE MCRumorSockets ---------------------------
(***************************************************************************)
(* Instances of RumorSockets for TLC: a few sockets, of which some or none *)
(* bring the challenge of a federation.                                    *)
(***************************************************************************)
EXTENDS RumorSockets, TLC

CONSTANTS a, b, c, d, none, r1, r2

Symmetry == Permutations({b, c, d}) \cup Permutations({r1, r2})

=============================================================================
