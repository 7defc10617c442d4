--------------------------- MODULE MCRumorGossip ---------------------------
(***************************************************************************)
(* Instances of RumorGossip for TLC: networks of two and three servers,    *)
(* and how many rumors each of them may send.                              *)
(***************************************************************************)
EXTENDS RumorGossip, TLC

CONSTANTS a, b, c

(***************************************************************************)
(* a dials b; so does c.                                                   *)
(***************************************************************************)
Pair == (a :> {b}) @@ (b :> {})
Line == (a :> {b}) @@ (b :> {}) @@ (c :> {b})

(***************************************************************************)
(* Two rumors of one server, that may overtake each other; one rumor of    *)
(* each of two servers, of which one may depend on the other.              *)
(***************************************************************************)
BTwo == (a :> 0) @@ (b :> 2)
OneEach == (a :> 1) @@ (b :> 1) @@ (c :> 0)

=============================================================================
