------------------------------ MODULE MCFanout ------------------------------
(***************************************************************************)
(* Fanout with two clients.                                                 *)
(***************************************************************************)
EXTENDS Fanout, TLC

CONSTANTS c1, c2

TwoClients == {c1, c2}
=============================================================================
