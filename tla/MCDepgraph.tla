----------------------------- MODULE MCDepgraph -----------------------------
(***************************************************************************)
(* Depgraph with three blocks, each on all before it.                         *)
(***************************************************************************)
EXTENDS Depgraph, TLC

CONSTANTS r, a, x

\* A block that waits for its neighbour as well as for the block that both need.
Ladder == {r, a, x}
LadderDeps == r :> {} @@ a :> {r} @@ x :> {r, a}

\* A store whose keys come in this order.
Keys == [S \in SUBSET Block |-> SelectSeq(<<x, r, a>>, LAMBDA c : c \in S)]
=============================================================================
