---------------------------- MODULE MCLockstep ----------------------------
(***************************************************************************)
(* The interpreter on four nodes that append a block per round, in lock     *)
(* step as the timers of genBlocks make them do, with the rounds of the     *)
(* timeouts as the code computes them.  The position is in round 1, so the  *)
(* timeout of view 0 fires in round 11 (tval = 10: no block is referred to  *)
(* later than a round after it was made, or by a minority only) and the     *)
(* timeout of a view entered in round r in round r + 15.  A block refers to *)
(* all the blocks that have reached its node: Reached(c, k, d) is the last  *)
(* round of chain d that the block of round k of chain c may refer to.      *)
(***************************************************************************)
EXTENDS Interpreter, TLC

CONSTANTS n1, n2, n3, n4, FireRounds, Reached(_, _, _)

FourNodes == {n1, n2, n3, n4}
FourChains == {<<n, 1>> : n \in Node}
WithoutProposer == FourChains \ {<<n1, 1>>}

FirstBlock == [c \in Chain |-> 1]
FifteenRounds == [c \in Chain |-> 15]
LongSilence == [c \in Chain |-> IF NodeOf(c) = n1 THEN 4 ELSE 30]

Order == <<n1, n2, n3, n4>>
Rank(c) == CHOOSE i \in DOMAIN Order : Order[i] = NodeOf(c)
Round(c) == Len(blocks[c]) + 1
Behind(c, k) == Len(blocks[c]) < k /\ Len(blocks[c]) < MaxBlocks[c]

\* Whose turn it is, and in which rounds timeouts fire.
OpenInTurn ==
    work = NoWork =>
        LET c == work'.chain
        IN  /\ \A d \in Chain : ~Behind(d, IF Rank(d) < Rank(c) THEN Round(c) ELSE Round(c) - 1)
            /\ work'.s.view # state[c].view <=> CanTimeOut(state[c]) /\ Round(c) \in FireRounds

ReachedBy(d) == work.past[d] < Reached(work.chain, Round(work.chain), d)

\* A block refers to the blocks that have reached its node, and to all of them.
LoadReached ==
    work # NoWork /\ work'.past # work.past /\ work' # NoWork =>
        \E d \in Chain : work'.past[d] # work.past[d] /\ ReachedBy(d)
CloseWithAll ==
    work # NoWork /\ work' = NoWork =>
        \A d \in Chain : ReachedBy(d) => ~CanLoad(work, d, blocks[d])

LockstepNext == Next /\ OpenInTurn /\ LoadReached /\ CloseWithAll
LockstepSpec == Init /\ [][LockstepNext]_vars

\* The timer of genBlocks makes every node append its next block, and Graph.run
\* takes every entry of its channel.
FairLockstepSpec == LockstepSpec /\ WF_vars(LockstepNext)

-----------------------------------------------------------------------------
\* All blocks of a round reach every node in the next round.
NextRound(c, k, d) == k - 1

\* The proposer decides alone: no block of it but the first gets through, and n4 and
\* the other two do not hear each other until the timeouts of view 0 have fired.  Once
\* view 1 has begun all are cut off until it times out.
ThenCutOff(c, k, d) ==
    CASE NodeOf(d) = n1 -> IF k = 1 THEN 0 ELSE 1
      [] NodeOf(c) = n1 -> k - 1
      [] n4 \in {NodeOf(c), NodeOf(d)} /\ k < 12 -> 0
      [] k \in 13 .. 27 -> 11
      [] OTHER -> k - 1

-----------------------------------------------------------------------------
\* When one node of four is silent and the others hear each other, every chain
\* decides: a block of the proposer in view 0, or no block once the timeout of
\* view 0 has led all of them to view 1 (the whole of processMessage).
EveryChainDecides == <>(\A c \in Chain : state[c].final # {})
=============================================================================
