------------------------ MODULE MCServerConnections -------------------------
(***************************************************************************)
(* Instances of ServerConnections for TLC: two or three addresses.         *)
(***************************************************************************)
EXTENDS ServerConnections

CONSTANTS a, b, c

=============================================================================
