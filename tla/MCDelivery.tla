----------------------------- MODULE MCDelivery -----------------------------
(***************************************************************************)
(* Delivery with two chains whose slots are decided.                         *)
(***************************************************************************)
EXTENDS Delivery

CONSTANTS n1, n2

Chains == {n1, n2}
=============================================================================
