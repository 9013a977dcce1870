------------------------------ MODULE Depgraph ------------------------------
(***************************************************************************)
(* How the blocks that a node receives get into its own blocks              *)
(* (broadcast/depgraph.go, with processBlock and genBlocks of broadcast.go  *)
(* and the inclusion keys of store.go).  Handlers store a received block    *)
(* and queue it; the goroutine depgraph.process lets a block through when   *)
(* all it refers to is in; genBlocks takes what came through into the next  *)
(* own block, which it saves in one transaction.  A crash loses everything  *)
(* but the store.                                                           *)
(***************************************************************************)
EXTENDS Integers, Sequences, FiniteSets, Functions

CONSTANTS
    Block,      \* the blocks of the other nodes
    Deps,       \* Deps[b]: the previous block and the references of b, without
                \* those to blocks of this node
    KeyOrder,   \* KeyOrder[S]: the blocks of S in the order of their keys in the store
    RefLimit,   \* how many references fit into a block (refSizeLimit)
    CacheLimit, \* how many entries pruning leaves in icache
    MaxIn,      \* bound: received blocks on their way to depgraph.process
    MaxCrashes  \* bound: crashes

ASSUME DepgraphAssumption ==
    /\ Deps \in [Block -> SUBSET Block]
    /\ KeyOrder \in [SUBSET Block -> Seq(Block)]
    /\ \A S \in SUBSET Block : Range(KeyOrder[S]) = S
    /\ RefLimit \in Nat \ {0}
    /\ CacheLimit \in Nat
    /\ MaxIn \in Nat
    /\ MaxCrashes \in Nat

VARIABLES
    notIncluded, \* store: blocks stored and not in an own block
    log,         \* store: the references of the own blocks, first to last
    adding,      \* handlers between setBlock and depgraph.add
    in,          \* depgraph.in
    await,       \* depgraph.await
    pending,     \* depgraph.pending
    icache,      \* depgraph.icache
    tcache,      \* depgraph.tcache: the ids it maps to true
    blocks,      \* depgraph.blocks
    proc,        \* the loop over reverse dependencies in depgraph.process
    refs,        \* genBlocks: the references of the block it makes
    saved,       \* genBlocks: references saved and still to leave tcache
    crashes

store == <<notIncluded, log>>
graph == <<await, pending, icache, tcache, blocks>>
vars == <<store, adding, in, graph, proc, refs, saved, crashes>>

\* The blocks that the store holds as included.
included == Range(log)

\* queue holds the blocks let through whose reverse dependencies are to be looked
\* at, its head those in todo; first tells that the head came from in.
Idle == [queue |-> <<>>, todo |-> <<>>, seen |-> {}, first |-> FALSE]

NoWaiting == [b \in Block |-> <<>>]
NoCache == [b \in Block |-> "absent"]

Init ==
    /\ notIncluded = {}
    /\ log = <<>>
    /\ adding = {}
    /\ in = <<>>
    /\ await = NoWaiting
    /\ pending = {}
    /\ icache = NoCache
    /\ tcache = {}
    /\ blocks = <<>>
    /\ proc = Idle
    /\ refs = <<>>
    /\ saved = <<>>
    /\ crashes = 0

-----------------------------------------------------------------------------
\* processBlock of the service: the block is stored, unless it is there already,
\* and then handed to the depgraph.  A block may be received any number of times.
Unlisted(b) == notIncluded
Listed(b) == IF b \in included THEN notIncluded ELSE notIncluded \cup {b}

setBlock(b) ==
    /\ b \notin adding
    /\ Len(in) + Cardinality(adding) < MaxIn
    /\ notIncluded' = Listed(b)
    /\ adding' = adding \cup {b}
    /\ UNCHANGED <<log, in, graph, proc, refs, saved, crashes>>

add(b) ==
    /\ b \in adding
    /\ adding' = adding \ {b}
    /\ in' = Append(in, b)
    /\ UNCHANGED <<store, graph, proc, refs, saved, crashes>>

-----------------------------------------------------------------------------
\* depgraph.isIncluded: the caches, then the store; the answer of the store is
\* cached.  Only depgraph.process asks, and only it adds to tcache; genBlocks
\* takes a block out of tcache once the store has it.
inCache(b, cache) == cache[b] = "true" \/ (cache[b] = "absent" /\ b \in included)
isIncluded(b, cache) ==
    b \in tcache \/ cache[b] = "true" \/ (cache[b] = "absent" /\ b \in included)

Cached(S, cache) ==
    [b \in Block |-> IF b \in S \ tcache /\ cache[b] = "absent"
                     THEN IF b \in included THEN "true" ELSE "false"
                     ELSE cache[b]]

Unseen(b, cache) == {d \in Deps[b] : ~isIncluded(d, cache) /\ d \notin pending}
Missing(b, cache) == {d \in Deps[b] : ~isIncluded(d, cache)}

\* depgraph.processBlock, with the caches it finds; Through tells what it returns.
Through(b, cache) == isIncluded(b, cache) \/ Missing(b, cache) = {}

addPending(b, deps) ==
    /\ pending' = pending \cup {b}
    /\ await' = [d \in Block |-> IF d \in deps /\ b \notin Range(await[d])
                                 THEN Append(await[d], b) ELSE await[d]]

processBlock(b, cache) ==
    \/ /\ isIncluded(b, cache)
       /\ icache' = Cached({b}, cache)
       /\ UNCHANGED <<await, pending, tcache, blocks>>
    \/ /\ ~isIncluded(b, cache)
       /\ Missing(b, cache) # {}
       /\ icache' = Cached({b} \cup Deps[b], cache)
       /\ addPending(b, Missing(b, cache))
       /\ UNCHANGED <<tcache, blocks>>
    \/ /\ ~isIncluded(b, cache)
       /\ Missing(b, cache) = {}
       /\ icache' = [Cached({b} \cup Deps[b], cache) EXCEPT ![b] = "true"]
       /\ tcache' = tcache \cup {b}
       /\ blocks' = Append(blocks, b)
       /\ UNCHANGED <<await, pending>>

\* The cache as it is, or pruned to any CacheLimit of its entries.
Present(cache) == {b \in Block : cache[b] # "absent"}
Pruned ==
    {icache} \cup {[b \in Block |-> IF b \in S THEN icache[b] ELSE "absent"] :
                      S \in {T \in SUBSET Present(icache) : /\ Cardinality(T) = CacheLimit
                                                            /\ T # Present(icache)}}

\* depgraph.process: the next block of in.
process ==
    /\ proc = Idle
    /\ in # <<>>
    /\ in' = Tail(in)
    /\ \E cache \in Pruned :
          LET b == Head(in)
          IN  /\ processBlock(b, cache)
              /\ proc' = IF Through(b, cache)
                         THEN [queue |-> <<b>>, todo |-> await[b], seen |-> {b}, first |-> TRUE]
                         ELSE Idle
    /\ UNCHANGED <<store, adding, refs, saved, crashes>>

\* The blocks not to be tried again, after b was tried.
SeenKept(b) == IF Through(b, icache) THEN proc.seen ELSE proc.seen \cup {b}
SeenAfter(b) == IF Through(b, icache) THEN {} ELSE proc.seen \cup {b}

\* depgraph.process: the next reverse dependency of the head of the queue.
processRevdep ==
    /\ proc.todo # <<>>
    /\ LET b == Head(proc.todo)
       IN  \/ /\ b \in proc.seen
              /\ proc' = [proc EXCEPT !.todo = Tail(@)]
              /\ UNCHANGED graph
           \/ /\ b \notin proc.seen
              /\ b \in pending
              /\ processBlock(b, icache)
              /\ proc' = [proc EXCEPT !.todo = Tail(@), !.seen = SeenAfter(b),
                                      !.queue = IF Through(b, icache) THEN Append(@, b) ELSE @]
    /\ UNCHANGED <<store, adding, in, refs, saved, crashes>>

\* depgraph.process: the head of the queue is done.
AwaitKept(b) == await
AwaitWithout(b) == [await EXCEPT ![b] = <<>>]

processNext ==
    /\ proc.queue # <<>>
    /\ proc.todo = <<>>
    /\ LET b == Head(proc.queue)
           rest == Tail(proc.queue)
       IN  /\ await' = AwaitWithout(b)
           /\ pending' = IF proc.first THEN pending ELSE pending \ {b}
           /\ proc' = IF rest = <<>> THEN Idle
                      ELSE [proc EXCEPT !.queue = rest, !.todo = await'[Head(rest)], !.first = FALSE]
    /\ UNCHANGED <<store, adding, in, icache, tcache, blocks, refs, saved, crashes>>

-----------------------------------------------------------------------------
\* genBlocks: a block is made of what fits of depgraph.blocks, saved with its
\* references, and then taken out of tcache.  A block without references changes
\* nothing here.
getBlocks ==
    /\ refs = <<>>
    /\ saved = <<>>
    /\ blocks # <<>>
    /\ LET idx == IF Len(blocks) < RefLimit THEN Len(blocks) ELSE RefLimit
       IN  /\ refs' = SubSeq(blocks, 1, idx)
           /\ blocks' = SubSeq(blocks, idx + 1, Len(blocks))
    /\ UNCHANGED <<store, adding, in, await, pending, icache, tcache, proc, saved, crashes>>

setOwnBlock ==
    /\ refs # <<>>
    /\ log' = log \o refs
    /\ notIncluded' = notIncluded \ Range(refs)
    /\ saved' = refs
    /\ refs' = <<>>
    /\ UNCHANGED <<adding, in, graph, proc, crashes>>

actuallyIncluded ==
    /\ saved # <<>>
    /\ tcache' = tcache \ {Head(saved)}
    /\ saved' = Tail(saved)
    /\ UNCHANGED <<store, adding, in, await, pending, icache, blocks, proc, refs, crashes>>

-----------------------------------------------------------------------------
\* The blocks that are in no own block, as the store lists them.
getNotIncluded == KeyOrder[notIncluded]

\* The node stops anywhere and starts again: loadState makes an empty depgraph and
\* replayGraphChanges adds the blocks that are in no own block.
Restart ==
    /\ crashes < MaxCrashes
    /\ crashes' = crashes + 1
    /\ adding' = {}
    /\ in' = getNotIncluded
    /\ await' = NoWaiting
    /\ pending' = {}
    /\ icache' = NoCache
    /\ tcache' = {}
    /\ blocks' = <<>>
    /\ proc' = Idle
    /\ refs' = <<>>
    /\ saved' = <<>>
    /\ UNCHANGED store

Handler == \E b \in Block : setBlock(b) \/ add(b)
Process == process \/ processRevdep \/ processNext
GenBlocks == getBlocks \/ setOwnBlock \/ actuallyIncluded

Next == Handler \/ Process \/ GenBlocks \/ Restart

Spec == Init /\ [][Next]_vars

\* Handlers that have stored a block go on, and the two goroutines run.
FairSpec ==
    /\ Spec
    /\ \A b \in Block : WF_vars(add(b))
    /\ WF_vars(Process)
    /\ WF_vars(GenBlocks)

-----------------------------------------------------------------------------
\* The variables have the types of the fields of depgraph and of what the store keeps.
TypeOK ==
    /\ notIncluded \in SUBSET Block
    /\ log \in Seq(Block)
    /\ adding \in SUBSET Block
    /\ in \in Seq(Block)
    /\ await \in [Block -> Seq(Block)]
    /\ pending \in SUBSET Block
    /\ icache \in [Block -> {"absent", "false", "true"}]
    /\ tcache \in SUBSET Block
    /\ blocks \in Seq(Block)
    /\ proc \in [queue : Seq(Block), todo : Seq(Block), seen : SUBSET Block, first : BOOLEAN]
    /\ refs \in Seq(Block)
    /\ saved \in Seq(Block)
    /\ crashes \in 0 .. MaxCrashes

\* Everything let through, in order: in own blocks, in the block being made, and
\* waiting for the next one.
Order == log \o refs \o blocks

\* The caches and the store together always tell depgraph.isIncluded exactly
\* which blocks were let through, whatever pruning dropped and however far
\* genBlocks is between taking a block out of depgraph.blocks, saving it and
\* taking it out of tcache.
CacheTruth == \A b \in Block : isIncluded(b, icache) <=> b \in Range(Order)

\* Through pruning, blocks received again and crashes, no block gets into two own
\* blocks, or twice into one: a reference in genBlocks is never one that
\* setOwnBlock has saved before.
IncludedOnce == \A i, j \in 1 .. Len(Order) : Order[i] = Order[j] => i = j

\* The references of own blocks are in causal order: what a block refers to comes
\* before it, in an earlier own block or earlier in the same one, also across a
\* restart that replays the blocks in the order of their keys.
CausalOrder ==
    \A i \in 1 .. Len(Order) : \A d \in Deps[Order[i]] : \E j \in 1 .. i - 1 : Order[j] = d

\* depgraph.process finds every reverse dependency it looks up in pending: the
\* entry is deleted only when no await list holds the block any more.
PendingFound ==
    proc.todo # <<>> /\ Head(proc.todo) \notin proc.seen => Head(proc.todo) \in pending

\* No wake-up is lost: when depgraph.process waits for its next block, each
\* block that is held back still lacks a block and is on the list of every block
\* it lacks, although the loop tries a block again only after a success.
NoLostWakeup ==
    proc = Idle =>
        \A b \in pending : ~isIncluded(b, icache) =>
            /\ Missing(b, icache) # {}
            /\ \A d \in Missing(b, icache) : b \in Range(await[d])

\* The store's list of blocks to replay is complete: a block that is held back,
\* queued or let through is in an own block or on the list, so a crash loses none.
NothingForgotten ==
    adding \cup Range(in) \cup pending \cup Range(Order) \subseteq included \cup notIncluded

\* What the caches and genBlocks keep between two steps so that CacheTruth,
\* IncludedOnce and CausalOrder hold: tcache covers what is let through and not
\* saved, icache never disagrees with it, and what is saved leaves tcache only.
InclusionInv ==
    /\ TypeOK
    /\ Range(refs) \cup Range(blocks) \subseteq tcache
    /\ tcache \subseteq Range(Order)
    /\ \A b \in Block : icache[b] = "true" => b \in Range(Order)
    /\ \A b \in Block : icache[b] = "false" => b \notin Range(Order)
    /\ Range(saved) \subseteq included
    /\ saved # <<>> => refs = <<>>
    /\ IncludedOnce
    /\ CausalOrder

\* What the loop of depgraph.process keeps between two steps so that PendingFound
\* and NoLostWakeup hold: a block on a list is pending; the blocks let through
\* whose lists are not empty are in the queue, each behind those on whose lists it
\* is; and a block that lacks nothing any more is still to be tried.
WakeInv ==
    /\ \A b \in pending : \A d \in Deps[b] :
          b \notin Range(Order) /\ d \notin Range(Order) => b \in Range(await[d])
    /\ \A d \in Block : \A b \in Range(await[d]) : b \in pending /\ d \in Deps[b]
    /\ \A d \in Range(Order) :
          Range(await[d]) # {} => \E i \in 1 .. Len(proc.queue) : proc.queue[i] = d
    /\ \A i \in 1 .. Len(proc.queue) : proc.queue[i] \in Range(Order)
    /\ Range(proc.todo) # {} => /\ Len(proc.queue) > 0
                                /\ Range(proc.todo) \subseteq Range(await[proc.queue[1]])
    /\ \A i \in 1 .. Len(proc.queue) : \A d \in Block :
          proc.queue[i] \in Range(await[d]) => \E j \in 1 .. i - 1 : proc.queue[j] = d
    /\ \A b \in proc.seen \ Range(Order) : ~(Deps[b] \subseteq Range(Order))
    /\ \A b \in pending \ Range(Order) :
          \/ ~(Deps[b] \subseteq Range(Order))
          \/ b \in Range(proc.todo)
          \/ \E i \in 2 .. Len(proc.queue) : /\ proc.queue[i] # proc.queue[1]
                                             /\ b \in Range(await[proc.queue[i]])
    /\ proc.queue = <<>> => proc = Idle

\* The stored blocks all of whose ancestors are stored.
Stored == notIncluded \cup included
Complete == {b \in Stored : \E S \in SUBSET Stored : b \in S /\ \A c \in S : Deps[c] \subseteq S}

\* Each stored block whose ancestors are all stored gets into an own block, also
\* when the node crashes on the way.
EveryBlockIncluded == \A b \in Block : b \in Complete ~> b \in included
=============================================================================
