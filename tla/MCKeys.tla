------------------------------- MODULE MCKeys -------------------------------
(***************************************************************************)
(* What the store relies on in its keys and values, evaluated at the edges  *)
(* of the encoding: where a byte carries, where a small number becomes a    *)
(* large one and where a large one gets another digit.                      *)
(***************************************************************************)
EXTENDS Keys

Edges == {0, 255, 65025, maxSmall, maxSmall + 255, maxSmall + 255 * 253, maxSmall + 255 * 253 * 253}
Around == UNION {{e - 1, e, e + 1, e + 254} : e \in Edges} \ {-1}

\* A number is read back as it was written, and the order of the bytes is the order of
\* the numbers (Encode and Decode of internal/lexinum).
ASSUME NumbersReadBack == \A v \in Around : Decode(Encode(v)) = v
ASSUME NumbersInOrder == \A v, w \in Around : v < w <=> Less(Encode(v), Encode(w))

Hashes == {<<0, 7>>, <<7, 0, 0>>, <<255>>}
Few == {1, 255, maxSmall - 1, maxSmall, maxSmall + 255 * 253}
IDs == [Node : Few, Round : Few, Hash : Hashes]

\* A block's node, round and hash are read back from its key, with whatever bytes the hash
\* has (blockKey, decodeBlockID and decodeBlockRound of store.go).
ASSUME KeysReadBack ==
    \A id \in IDs : decodeBlockID(encodeBlockID(id)) = id /\ decodeBlockRound(blockKey(id)) = id.Round

\* An iterator that getMissing starts goes over the later blocks of the node and no others
\* (getMissing of store.go).
ASSUME ScansFindLater ==
    \A id \in IDs, node \in Few, since \in Around :
      Scanned(blockKey(id), seek(node, since), prefix(node)) <=> id.Node = node /\ id.Round > since

SomeIDs == [Node : {1}, Round : {1, maxSmall}, Hash : {<<0, 7>>}]
Lists == UNION {[1 .. k -> SomeIDs] : k \in 0 .. 2}
Graphs ==
    {[Block |-> b, Prev |-> p, Deps |-> [i \in 1 .. k |-> [Block |-> b, Prev |-> q, Deps |-> l]]] :
        b \in SomeIDs, p, q \in SomeIDs \cup {NoID}, l \in Lists, k \in 0 .. 2}

\* A block is read back from the block graph with all that it refers to (encodeBlockGraph
\* and getBlockGraphs of store.go).
ASSUME GraphsReadBack ==
    \A g \in Graphs : decodeBlockGraph(blockGraphKey(g.Block), encodeBlockGraph(g)) = g
=============================================================================
