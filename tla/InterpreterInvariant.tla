------------------------ MODULE InterpreterInvariant ------------------------
(***************************************************************************)
(* Why at most one block is decided for a position.  A node votes for a     *)
(* hash by pre-preparing it in view 0; the proposer votes for its           *)
(* proposals.  A hash with a quorum of votes is Good, and so is the empty   *)
(* hash.  Everything that is prepared, committed, carried into another view *)
(* or decided is Good, because a hash gets into later views only by having  *)
(* been prepared; and of two Good blocks a correct node would have voted    *)
(* for both.                                                                *)
(***************************************************************************)
EXTENDS Interpreter

\* The setting in which the protocol promises anything: n = 3f + 1 nodes, at most f
\* of them fork their chain.
Resilient == Cardinality(Node) = 3 * f + 1 /\ Cardinality(Faulty) <= f

IsProposal(h) == \E d \in Chain : NodeOf(d) = Proposer /\ HashOf(d) = h

Votes ==
    [h \in Hash |-> {n \in Node :
        \/ n = Proposer /\ IsProposal(h)
        \/ \E c \in Chain : NodeOf(c) = n /\ <<0, h>> \in Current(c).prePrepared}]

Good(V, h) == h = NoHash \/ Cardinality(V[h]) >= quorum2f1

\* A message m in a block of node n.
GoodMessage(V, m, n) ==
    /\ m.kind = "PrePrepare" /\ m.view = 0 => IsProposal(m.hash) /\ n = Proposer
    /\ m.kind = "Prepare" /\ m.view = 0 => m.sender \in V[m.hash]
    /\ m.kind \in {"Commit", "ViewChange", "NewView"} \/ m.view # 0 => Good(V, m.hash)
    /\ m.kind \in {"ViewChange", "NewView"} => m.view # 0

GoodMessages(V, q, n) == \A i \in 1 .. Len(q) : GoodMessage(V, q[i], n)

GoodState(V, s) ==
    /\ \A h \in Hash, n \in Node : <<h, 0, n>> \in s.prepares => n \in V[h]
    /\ \A h \in Hash : <<0, h>> \in s.prePrepared => IsProposal(h)
    /\ \A h, k \in Hash : <<0, h>> \in s.prePrepared /\ <<0, k>> \in s.prePrepared => h = k
    /\ \A v \in View, h \in Hash : <<v, h>> \in s.prepared => Good(V, h)
    /\ \A v \in View, n \in Node, h \in Hash : <<v, n, h>> \in s.viewChanged => Good(V, h)
    /\ \A h \in s.final : Good(V, h)

\* The inductive invariant: all states of chains and all messages of blocks are Good,
\* those of the block being interpreted included (processMessage).
SafetyInv ==
    /\ TypeOK
    /\ \A c \in Chain : GoodState(Votes, state[c])
    /\ GoodState(Votes, work.s)
    /\ \A c \in Chain : \A k \in 1 .. Len(blocks[c]) :
           GoodMessages(Votes, blocks[c][k].out, NodeOf(c))
    /\ GoodMessages(Votes, work.queue, work.sender)
    /\ work # NoWork => GoodMessages(Votes, work.out, NodeOf(work.chain))
    /\ work.stage = "own" => work.sender = NodeOf(work.chain)
    /\ ~work.fatal
=============================================================================
