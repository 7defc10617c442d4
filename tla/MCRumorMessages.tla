--------------------------- MODULE MCRumorMessages ---------------------------
(***************************************************************************)
(* Instances of RumorMessages for TLC: three servers in a line,            *)
(* or three around a fourth, and messages that depend on each other.       *)
(***************************************************************************)
EXTENDS RumorMessages, TLC

CONSTANTS a, b, c, d, lao, call, vote

Line == (a :> {c}) @@ (b :> {c}) @@ (c :> {a, b})
Star == (a :> {c}) @@ (b :> {c}) @@ (d :> {c}) @@ (c :> {a, b, d})

(***************************************************************************)
(* A roll call needs the LAO, a vote needs the roll call.                  *)
(***************************************************************************)
Needs == (lao :> {}) @@ (call :> {lao}) @@ (vote :> {call})
Paths == (lao :> 1) @@ (call :> 2) @@ (vote :> 2)
EachItsServer == (lao :> {a}) @@ (call :> {c}) @@ (vote :> {b})

=============================================================================
