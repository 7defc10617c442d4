---------------------------- MODULE MCHubPipeline ----------------------------
(***************************************************************************)
(* Instances of HubPipeline for TLC: a client and another server.          *)
(***************************************************************************)
EXTENDS HubPipeline

CONSTANTS c, p

=============================================================================
