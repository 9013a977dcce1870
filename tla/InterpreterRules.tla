-------------------------- MODULE InterpreterRules --------------------------
(***************************************************************************)
(* The rules of the consensus interpreter (blockmania/graph.go), for ONE    *)
(* position (node, round) of the block graph: what a chain of blocks does   *)
(* with a consensus message about that position.                            *)
(*                                                                         *)
(* No node sends a consensus message.  Every node appends blocks to its own *)
(* chain, a block refers to blocks of other chains, and the interpreter     *)
(* replays PBFT over that graph: the state of a chain after a block is the  *)
(* state after the previous block (state.clone), advanced by the messages   *)
(* that the blocks it refers to output.  The state of a block is a function *)
(* of its causal past, so it is enough to keep one state per chain.         *)
(*                                                                         *)
(* The data of two positions never meet, so a single position is kept, and  *)
(* a message is reduced to what differs at a position: kind, hash, view and *)
(* sender.                                                                  *)
(***************************************************************************)
EXTENDS Integers, Sequences, FiniteSets

CONSTANTS
    Node,       \* graph.peers
    Chain,      \* <<node, k>>: the k-th fork of the chain of that node
    Proposer,   \* the node of the position
    SlotBlock,  \* SlotBlock[c]: which block of c has the round of the position
    MaxBlocks,  \* bound: MaxBlocks[c] blocks are appended to chain c
    MaxView     \* bound: the last view a timeout may lead to

ASSUME ConstantsAssumption ==
    /\ IsFiniteSet(Node)
    /\ Chain \subseteq Node \X (Nat \ {0})
    /\ Proposer \in Node
    /\ SlotBlock \in [Chain -> Nat \ {0}]
    /\ MaxBlocks \in [Chain -> Nat]
    /\ MaxView \in Nat

NodeOf(c) == c[1]

\* A chain of the proposer proposes its own block; its forks propose different
\* blocks, so the number of the fork stands for the hash of the block.
HashOf(c) == c[2]

\* The empty hash of a position that is decided to hold no block.
NoHash == 0

NoChain == <<>>

Hash == {NoHash} \cup {HashOf(c) : c \in Chain}
View == 0 .. MaxView

\* A node whose chain forks is faulty.
Faulty == {n \in Node : \E c, d \in Chain : NodeOf(c) = n /\ NodeOf(d) = n /\ c # d}

f == (Cardinality(Node) - 1) \div 3
quorum2f == 2 * f
quorum2f1 == 2 * f + 1

-----------------------------------------------------------------------------
\* blockmania/messages

PrePrepare(h, v) == [kind |-> "PrePrepare", hash |-> h, view |-> v]
Prepare(h, v, n) == [kind |-> "Prepare", hash |-> h, view |-> v, sender |-> n]
Commit(h, v, n) == [kind |-> "Commit", hash |-> h, view |-> v, sender |-> n]
ViewChange(h, v, n) == [kind |-> "ViewChange", hash |-> h, view |-> v, sender |-> n]
NewView(h, v, n) == [kind |-> "NewView", hash |-> h, view |-> v, sender |-> n]

Message ==
    [kind : {"PrePrepare"}, hash : Hash, view : View]
    \cup [kind : {"Prepare", "Commit", "ViewChange", "NewView"},
          hash : Hash, view : View, sender : Node]

\* blockmania/state.go and blockmania/states, at the position.
State ==
    [view : View,                               \* data[View]
     prePrepared : SUBSET (View \X Hash),       \* data[PrePrepared]
     prepared : SUBSET (View \X Hash),          \* data[Prepared]
     viewChanged : SUBSET (View \X Node \X Hash), \* data[ViewChanged], by sender
     hnv : SUBSET View,                         \* data[HNV]
     prepares : SUBSET (Hash \X View \X Node),  \* the bitsets: prepare bits
     commits : SUBSET (Hash \X View \X Node),   \* the bitsets: commit bits
     final : SUBSET Hash,                       \* final, at most one hash
     timeouts : SUBSET View]                    \* timeouts, by their view

InitState ==
    [view |-> 0, prePrepared |-> {}, prepared |-> {}, viewChanged |-> {}, hnv |-> {},
     prepares |-> {}, commits |-> {}, final |-> {}, timeouts |-> {}]

-----------------------------------------------------------------------------
\* processMessage: a case of the switch takes a message m from sender into the
\* state s of the node receiver.  It returns the new state, the response (none or
\* one message) and whether log.Fatal was called.  The test for a Final entry in
\* data, with which the code begins, never succeeds: nothing stores one.

Result(s, responses) == [s |-> s, responses |-> responses, fatal |-> FALSE]

Bits(bits, h, v) == {n \in Node : <<h, v, n>> \in bits}
\* The number of bits is compared for equality.
MoreThanQuorum(bits, h, v) == Cardinality(Bits(bits, h, v)) > quorum2f1
HasQuorum(bits, h, v) == Cardinality(Bits(bits, h, v)) = quorum2f1

\* An entry of data under a key that has the view in it.
HasEntry(data, v) == \E h \in Hash : <<v, h>> \in data

\* The first hash is kept.
SetPreparedOnce(data, v, h) == IF data # {} THEN data ELSE {<<v, h>>}
SetPrepared(data, v, h) == IF HasEntry(data, v) THEN data ELSE data \cup {<<v, h>>}

onPrePrepare(s, sender, receiver, m) ==
    IF s.view # m.view \/ HasEntry(s.prePrepared, m.view)
    THEN Result(s, <<>>)
    ELSE Result([s EXCEPT
                   !.prepares = @ \cup {<<m.hash, m.view, sender>>, <<m.hash, m.view, receiver>>},
                   !.prePrepared = @ \cup {<<m.view, m.hash>>}],
                <<Prepare(m.hash, m.view, receiver)>>)

\* A prepare of a later view is only remembered.  The quorum is tested for
\* equality, and only when a prepare arrives in the current view.
onPrepare(s, receiver, m) ==
    LET bits == s.prepares \cup {<<m.hash, m.view, m.sender>>}
        counted == [s EXCEPT !.prepares = bits]
    IN  IF s.view > m.view
        THEN Result(s, <<>>)
        ELSE IF \/ s.view < m.view
                \/ ~HasQuorum(bits, m.hash, m.view)
                \/ <<m.hash, m.view, receiver>> \in s.commits
        THEN Result(counted, <<>>)
        ELSE Result([counted EXCEPT
                       !.commits = @ \cup {<<m.hash, m.view, receiver>>},
                       !.prepared = SetPrepared(@, m.view, m.hash)],
                    <<Commit(m.hash, m.view, receiver)>>)

\* A commit counts in its own view and in any later one; the first quorum decides.
onCommit(s, m) ==
    LET bits == s.commits \cup {<<m.hash, m.view, m.sender>>}
    IN  IF s.view < m.view
        THEN Result(s, <<>>)
        ELSE Result([s EXCEPT
                       !.commits = bits,
                       !.final = IF HasQuorum(bits, m.hash, m.view) /\ @ = {}
                                 THEN {m.hash} ELSE @],
                    <<>>)

\* View changes are collected under the view the receiver is in, whatever view
\* they ask for.
Senders(vcs, v) == {n \in Node : \E h \in Hash : <<v, n, h>> \in vcs}
Hashes(vcs, v) == {h \in Hash \ {NoHash} : \E n \in Node : <<v, n, h>> \in vcs}

onViewChange(s, receiver, m) ==
    LET vcs == {t \in s.viewChanged : ~(t[1] = s.view /\ t[2] = m.sender)}
               \cup {<<s.view, m.sender, m.hash>>}
        hashes == Hashes(vcs, s.view)
        hash == IF hashes = {} THEN NoHash ELSE CHOOSE h \in hashes : TRUE
    IN  IF s.view > m.view
        THEN Result(s, <<>>)
        ELSE IF Cardinality(Senders(vcs, s.view)) # quorum2f1
        THEN Result([s EXCEPT !.viewChanged = vcs], <<>>)
        ELSE [s |-> [s EXCEPT !.viewChanged = vcs, !.view = m.view],
              responses |-> <<NewView(hash, m.view, receiver)>>,
              fatal |-> \E h1, h2 \in hashes : h1 # h2]

\* The first new view message for a view is followed, whoever sent it.
onNewView(s, m) ==
    IF s.view > m.view \/ m.view \in s.hnv
    THEN Result(s, <<>>)
    ELSE Result([s EXCEPT !.view = m.view,
                          !.timeouts = @ \cup {m.view},
                          !.hnv = @ \cup {m.view}],
                <<PrePrepare(m.hash, m.view)>>)

processMessage(s, sender, receiver, m) ==
    CASE m.kind = "PrePrepare" -> onPrePrepare(s, sender, receiver, m)
      [] m.kind = "Prepare"    -> onPrepare(s, receiver, m)
      [] m.kind = "Commit"     -> onCommit(s, m)
      [] m.kind = "ViewChange" -> onViewChange(s, receiver, m)
      [] m.kind = "NewView"    -> onNewView(s, m)

-----------------------------------------------------------------------------
\* process: the block being interpreted, with the clone of the chain's state it
\* works on, the messages of one dependency still to process (followed by their
\* responses), the messages processed and output so far, and the blocks of each
\* chain in its past.

Block == [out : Seq(Message), past : [Chain -> Nat]]

Work ==
    [chain : Chain \cup {NoChain}, stage : {"idle", "own", "deps"}, s : State, sender : Node,
     queue : Seq(Message), processed : SUBSET Message, out : Seq(Message),
     past : [Chain -> Nat], fatal : BOOLEAN]

NoWork ==
    [chain |-> NoChain, stage |-> "idle", s |-> InitState, sender |-> Proposer,
     queue |-> <<>>, processed |-> {}, out |-> <<>>, past |-> [c \in Chain |-> 0],
     fatal |-> FALSE]

\* The messages a block of chain c starts with: its own pre-prepare if it is the
\* block of the position, then the view change of a timeout that fires.
OwnPrePrepare(c, atSlot) ==
    IF atSlot /\ NodeOf(c) = Proposer THEN <<PrePrepare(HashOf(c), 0)>> ELSE <<>>

\* The hash carried into the next view: the one prepared in the view that timed
\* out, and no other.
NothingPrepared(s) == NoHash
PreparedHash(s) ==
    IF HasEntry(s.prepared, s.view)
    THEN CHOOSE h \in Hash : <<s.view, h>> \in s.prepared
    ELSE NoHash

\* A timeout fires as many rounds after it was set as the delays observed so far
\* make it wait, so it may fire in any later block.  A timeout whose view has
\* passed does nothing.
CanTimeOut(s) == s.view \in s.timeouts /\ s.view < MaxView

\* A block of chain c with state s and past blocks is opened; t says whether the
\* timeout of the current view fires in it.
StartWork(c, s, past, atSlot, t) ==
    LET msgs == OwnPrePrepare(c, atSlot)
                \o (IF t THEN <<ViewChange(PreparedHash(s), s.view + 1, NodeOf(c))>> ELSE <<>>)
    IN  [NoWork EXCEPT
           !.chain = c, !.stage = "own", !.sender = NodeOf(c), !.queue = msgs, !.out = msgs,
           !.past = past,
           !.s = [s EXCEPT
                    !.view = IF t THEN @ + 1 ELSE @,
                    !.timeouts = (IF t THEN @ \ {s.view} ELSE @)
                                 \cup (IF atSlot THEN {0} ELSE {})]]

\* deps[0] is the previous block of the chain: its messages are processed again.
LoadPrev(w, chainBlocks) ==
    [w EXCEPT !.stage = "deps",
              !.queue = IF chainBlocks = <<>> THEN <<>>
                        ELSE chainBlocks[Len(chainBlocks)].out]

\* The next block of chain d becomes a dependency.
LoadDep(w, d, block) ==
    [w EXCEPT !.sender = NodeOf(d), !.queue = block.out, !.past[d] = @ + 1]

\* The depgraph lets a block of chain d in when everything in its past is in;
\* blocks of the node itself are not looked at, and never referred to.
CanLoadAny(w, d, dBlocks) == NodeOf(d) # NodeOf(w.chain) /\ w.past[d] < Len(dBlocks)
CanLoad(w, d, dBlocks) ==
    LET k == w.past[d] + 1
    IN  /\ NodeOf(d) # NodeOf(w.chain)
        /\ k <= Len(dBlocks)
        /\ \A e \in Chain \ {d} : NodeOf(e) # NodeOf(w.chain) => dBlocks[k].past[e] <= w.past[e]

\* processMessages: one turn of its loops.  The responses are processed after the
\* messages of the dependency, and a message is processed once per block.
StepMessage(w) ==
    LET m == Head(w.queue)
        r == processMessage(w.s, w.sender, NodeOf(w.chain), m)
    IN  IF m \in w.processed
        THEN [w EXCEPT !.queue = Tail(@)]
        ELSE [w EXCEPT !.s = r.s,
                       !.queue = Tail(@) \o r.responses,
                       !.processed = @ \cup {m},
                       !.out = @ \o r.responses,
                       !.fatal = r.fatal]

\* The blocks in the past of the last block of a chain.
LastPast(chainBlocks) ==
    IF chainBlocks = <<>> THEN [c \in Chain |-> 0] ELSE chainBlocks[Len(chainBlocks)].past

\* The block once interpreted, as the blocks that refer to it see it.
Closed(w) == [out |-> w.out, past |-> [w.past EXCEPT ![w.chain] = @ + 1]]
=============================================================================
