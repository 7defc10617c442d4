---------------------------- MODULE MCFe1Network ----------------------------
(* One client of two servers, of which the opened LAO lists one.  The       *)
(* behaviours with two connections have few events, those with one          *)
(* connection have more.                                                    *)
EXTENDS Fe1Network

MCLimits == {[connections |-> 2, events |-> 2], [connections |-> 1, events |-> 4]}
=============================================================================
