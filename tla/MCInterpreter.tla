--------------------------- MODULE MCInterpreter ---------------------------
(***************************************************************************)
(* Four nodes (f = 1) and a position in the first block of every chain.     *)
(***************************************************************************)
EXTENDS InterpreterInvariant, TLC

CONSTANTS n1, n2, n3, n4, FireBlocks

FourNodes == {n1, n2, n3, n4}
FourChains == {<<n, 1>> : n \in Node}
ForkedProposer == FourChains \cup {<<n1, 2>>}

FirstBlock == [c \in Chain |-> 1]

\* The proposer appends one block, or one on each fork, and the others a few.
Blocks(k) == [c \in Chain |-> IF NodeOf(c) = n1 THEN 1 ELSE k]
ThreeBlocks == Blocks(3)
FourBlocks == Blocks(4)

-----------------------------------------------------------------------------
\* Restrictions of the interleavings, where all of them are too many.

\* The chains take turns, and each block refers to everything that is available, as
\* genBlocks makes it do, or, as if its node were cut off, to nothing.  Timeouts fire
\* in the blocks of FireBlocks.
Order == <<n1, n2, n3, n4>>
Rank(c) == CHOOSE i \in DOMAIN Order : Order[i] = NodeOf(c)
Behind(c, k) == Len(blocks[c]) < k /\ Len(blocks[c]) < MaxBlocks[c]
InTurn ==
    work = NoWork =>
        LET c == work'.chain
            k == Len(blocks[c])
        IN  /\ \A d \in Chain : ~Behind(d, IF Rank(d) < Rank(c) THEN k + 1 ELSE k)
            /\ work'.s.view # state[c].view => k + 1 \in FireBlocks
EagerOrAlone ==
    (work # NoWork /\ work' = NoWork) =>
        \/ work.past = LastPast(blocks[work.chain])
        \/ \A d \in Chain : ~CanLoad(work, d, blocks[d])

TurnSpec == Init /\ [][Next /\ InTurn /\ EagerOrAlone]_vars
=============================================================================
