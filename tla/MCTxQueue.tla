----------------------------- MODULE MCTxQueue -----------------------------
(***************************************************************************)
(* TxQueue with sizes for which two or three transactions fill the queue.     *)
(***************************************************************************)
EXTENDS TxQueue

CONSTANTS a, b, c, d

All == {a, b, c, d}

\* d is too large, the others are not.
Sizes == [t \in All |-> CASE t = a -> 0 [] t = b -> 2 [] t = c -> 4 [] t = d -> 9]
=============================================================================
