---------------------------- MODULE Interpreter ----------------------------
(***************************************************************************)
(* The interpretation of a growing block graph at one position, one step    *)
(* per message.  The chains append blocks in any order and a block may      *)
(* refer to any blocks whose past is in, so every delay of the network and  *)
(* every stop of a node is covered.  A block is interpreted in one go by    *)
(* the goroutine of Graph.run: from OpenBlock to CloseBlock no other chain  *)
(* moves.                                                                   *)
(***************************************************************************)
EXTENDS InterpreterRules

VARIABLES
    state,    \* statess: the state of a chain after its last block
    blocks,   \* the blocks of a chain: their output and their past
    work      \* the block being interpreted, or NoWork

vars == <<state, blocks, work>>

Init ==
    /\ state = [c \in Chain |-> InitState]
    /\ blocks = [c \in Chain |-> <<>>]
    /\ work = NoWork

AtSlot(c) == Len(blocks[c]) + 1 = SlotBlock[c]

OpenBlock(c) ==
    /\ work = NoWork
    /\ Len(blocks[c]) < MaxBlocks[c]
    /\ \E t \in BOOLEAN :
          /\ t => CanTimeOut(state[c])
          /\ work' = StartWork(c, state[c], LastPast(blocks[c]), AtSlot(c), t)
    /\ UNCHANGED <<state, blocks>>

ProcessMessage ==
    /\ work.queue # <<>>
    /\ ~work.fatal
    /\ work' = StepMessage(work)
    /\ UNCHANGED <<state, blocks>>

ProcessPrev ==
    /\ work.stage = "own"
    /\ work.queue = <<>>
    /\ ~work.fatal
    /\ work' = LoadPrev(work, blocks[work.chain])
    /\ UNCHANGED <<state, blocks>>

ProcessDep(d) ==
    /\ work.stage = "deps"
    /\ work.queue = <<>>
    /\ ~work.fatal
    /\ CanLoad(work, d, blocks[d])
    /\ work' = LoadDep(work, d, blocks[d][work.past[d] + 1])
    /\ UNCHANGED <<state, blocks>>

CloseBlock ==
    /\ work.stage = "deps"
    /\ work.queue = <<>>
    /\ ~work.fatal
    /\ state' = [state EXCEPT ![work.chain] = work.s]
    /\ blocks' = [blocks EXCEPT ![work.chain] = Append(@, Closed(work))]
    /\ work' = NoWork

Next ==
    \/ \E c \in Chain : OpenBlock(c)
    \/ ProcessMessage
    \/ ProcessPrev
    \/ \E d \in Chain : ProcessDep(d)
    \/ CloseBlock

Spec == Init /\ [][Next]_vars

-----------------------------------------------------------------------------
\* Every variable has its type: the state of a chain and of the block at work, the
\* messages of the blocks and their pasts.
TypeOK ==
    /\ state \in [Chain -> State]
    /\ blocks \in [Chain -> Seq(Block)]
    /\ work \in Work
    /\ work = NoWork \/ (work.chain \in Chain /\ work.stage \in {"own", "deps"})

\* The state of a chain, while one of its blocks is interpreted too.
Current(c) == IF work.chain = c THEN work.s ELSE state[c]

\* Chains of nodes that do not fork their chain.
Correct == {c \in Chain : NodeOf(c) \notin Faulty}

\* The nodes with a commit for h in view v in one of their blocks.
Committed(h, v) ==
    {n \in Node : \E c \in Chain : NodeOf(c) = n /\
        \E k \in DOMAIN blocks[c] : \E i \in DOMAIN blocks[c][k].out :
            blocks[c][k].out[i] = Commit(h, v, n)}

\* Whatever the views they decide in, no two chains decide two different blocks for
\* a position: an equivocating proposer cannot get both its blocks decided (Commit
\* case of processMessage, quorum2f1, and the carrying of hashes by ViewChange).
OneBlock ==
    \A c, d \in Chain : \A h \in state[c].final, k \in state[d].final :
        h = k \/ h = NoHash \/ k = NoHash

\* The decisions of all chains on a position are equal: what the Commit case of
\* processMessage states in a comment ("assert value == m.hash") and Graph.deliver
\* checks ("Mismatching block hash for delivery").
Agreement ==
    \A c, d \in Chain : \A h \in state[c].final, k \in state[d].final : h = k

\* The hashes that a quorum of view changes carries are never two different
\* blocks, so the interpreter never stops with "Got multiple hashes in a view
\* change" (ViewChange case of processMessage).
NoFatal == ~work.fatal

\* In one view at most one hash is committed by a quorum of nodes, although from
\* view 1 on each chain may count a different node as a preparer without its
\* message (PrePrepare case of processMessage, b.setPrepare(sender)).
OneQuorumPerView ==
    work = NoWork => \A v \in View : \A h, k \in Hash :
        /\ Cardinality(Committed(h, v)) >= quorum2f1
        /\ Cardinality(Committed(k, v)) >= quorum2f1
        => h = k

\* A hash that a quorum committed in view 0 is the one that every chain
\* pre-prepares in view 1 (timeouts in process, ViewChange and NewView cases of
\* processMessage): the decision of view 0 survives the change to view 1.
DecisionCarried ==
    work = NoWork => \A h, k \in Hash : \A c \in Correct :
        /\ Cardinality(Committed(h, 0)) >= quorum2f1
        /\ <<1, k>> \in state[c].prePrepared
        => h = k

\* A chain works on a message of a later view only after the new view message that
\* starts that view, as two comments of processMessage assert ("assert m.view == 0
\* || (nid, xround, xv, "HNV") in state").
HNVFirst ==
    \A c \in Correct :
        /\ \A t \in Current(c).prePrepared : t[1] = 0 \/ t[1] \in Current(c).hnv
        /\ \A t \in Current(c).prepares : t[2] = 0 \/ t[2] \in Current(c).hnv

\* A chain commits to a hash only when that hash is the prepared one of the view,
\* the one a later view change will carry ("assert s.data[p] == m.hash" in the
\* Prepare case of processMessage).
CommitIsPrepared ==
    \A c \in Correct : \A t \in state[c].commits :
        t[3] = NodeOf(c) => <<t[2], t[1]>> \in state[c].prepared

\* The test for a prepare quorum is an equality, made only when a prepare comes in;
\* a chain that holds a quorum of prepares in its view has still committed.
PrepareNotMissed ==
    \A c \in Correct : \A h \in Hash :
        Cardinality(Bits(state[c].prepares, h, state[c].view)) >= quorum2f1
            => <<h, state[c].view, NodeOf(c)>> \in state[c].commits

\* The same test for a commit quorum decides in view 0, where the messages of a block
\* come after those of its past: a chain that holds a quorum of commits of view 0 has
\* decided, also when it has left that view (Commit case of processMessage).
FirstViewDecides ==
    \A c \in Correct : \A h \in Hash :
        Cardinality(Bits(state[c].commits, h, 0)) >= quorum2f1 => state[c].final # {}
=============================================================================
