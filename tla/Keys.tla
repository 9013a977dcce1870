-------------------------------- MODULE Keys --------------------------------
(***************************************************************************)
(* How the store finds things again: numbers are encoded so that the order *)
(* of the bytes is the order of the numbers (internal/lexinum), keys are    *)
(* put together from them with a zero byte after each (broadcast/store.go), *)
(* and badger iterates over keys in the order of their bytes.  The value    *)
(* under a key of the block graph is the block with what it refers to, each *)
(* part with its length before it.                                          *)
(*                                                                         *)
(* A byte string is a sequence of 0 .. 255.  A length, which takes two or   *)
(* four bytes, is one element here: no byte of it is looked at.             *)
(***************************************************************************)
EXTENDS Integers, Sequences
LOCAL INSTANCE SequencesExt

Byte == 0 .. 255
maxSmall == 127 * 255 * 255  \* 8258175
SmallValue == {v \in Nat : v < maxSmall}

-----------------------------------------------------------------------------
\* internal/lexinum.

pow(a, b) == a ^ b

\* How many digits to the base 253 the code counts; 0 has one, and none is written.
digits(lead) == CHOOSE n \in 1 .. 8 : lead \div pow(253, n) = 0
                                      /\ \A m \in 1 .. n - 1 : lead \div pow(253, m) > 0
chars(lead, n) ==
    IF lead = 0 THEN <<>> ELSE [k \in 1 .. n |-> ((lead \div pow(253, n - k)) % 253) + 2]

EncodeSmall(v) == <<128 + (v \div 255) \div 255, ((v \div 255) % 255) + 1, (v % 255) + 1>>

EncodeLarge(v) ==
    LET lead == (v - maxSmall) \div 255
        rem == (v - maxSmall) % 255
        n == digits(lead)
    IN  <<255, n + 1>> \o chars(lead, n) \o (IF rem > 0 THEN <<1, rem>> ELSE <<>>)

Encode(v) == IF v < maxSmall THEN EncodeSmall(v) ELSE EncodeLarge(v)

DecodeSmall(d) == ((d[1] - 128) * 255 + (d[2] - 1)) * 255 + (d[3] - 1)

\* The digits end at the byte 1, which the remainder follows, or with the data.
DecodeLarge(d) ==
    LET ones == {k \in 3 .. Len(d) : d[k] = 1}
        last == IF ones = {} THEN Len(d) ELSE (CHOOSE k \in ones : \A j \in ones : k <= j) - 1
        rem == IF ones = {} THEN 0 ELSE d[last + 2]
        lead == FoldLeft(LAMBDA v, char : v * 253 + (char - 2), 0, SubSeq(d, 3, last))
    IN  lead * 255 + rem + maxSmall

Decode(d) == IF d[1] = 255 THEN DecodeLarge(d) ELSE DecodeSmall(d)

\* External: bytes.Compare, the order in which badger's iterators go.
Less(a, b) ==
    \E k \in 1 .. Len(b) :
      /\ k <= Len(a) + 1
      /\ \A j \in 1 .. k - 1 : a[j] = b[j]
      /\ k <= Len(a) => a[k] < b[k]

-----------------------------------------------------------------------------
\* The keys of broadcast/store.go.

BlockID == [Node : Nat, Round : Nat, Hash : Seq(Byte)]

encodeBlockID(id) == Encode(id.Node) \o <<0>> \o Encode(id.Round) \o <<0>> \o id.Hash

\* One function for each of the prefixes; they differ in nothing else.
blockPrefix == 1
blockGraphPrefix == 2
includedPrefix == 3
interpretedPrefix == 4
notIncludedPrefix == 9
ownBlockPrefix == 10
blockKey(id) == <<blockPrefix>> \o encodeBlockID(id)
blockGraphKey(id) == <<blockGraphPrefix>> \o encodeBlockID(id)
includedKey(id) == <<includedPrefix>> \o encodeBlockID(id)
notIncludedKey(id) == <<notIncludedPrefix>> \o encodeBlockID(id)
interpretedKey(round) == <<interpretedPrefix>> \o Encode(round)
ownBlockKey(round) == <<ownBlockPrefix>> \o Encode(round)

\* Where getMissing seeks, and what it gives to ValidForPrefix.
prefix(node) == <<blockPrefix>> \o Encode(node) \o <<0>>
seek(node, since) == prefix(node) \o Encode(since + 1)

\* External: the keys that an iterator of badger goes over.
ValidForPrefix(key, p) == Len(p) <= Len(key) /\ \A k \in 1 .. Len(p) : key[k] = p[k]
Scanned(key, start, p) == ~Less(key, start) /\ ValidForPrefix(key, p)

\* The first zero from a position on.
ZeroFrom(d, from) ==
    CHOOSE k \in from .. Len(d) : d[k] = 0 /\ \A j \in from .. k - 1 : d[j] # 0

decodeBlockID(d) ==
    LET i == ZeroFrom(d, 1)
        k == ZeroFrom(d, i + 1)
    IN  [Node |-> Decode(SubSeq(d, 1, i - 1)), Round |-> Decode(SubSeq(d, i + 1, k - 1)),
         Hash |-> SubSeq(d, k + 1, Len(d))]

decodeBlockRound(d) ==
    LET i == ZeroFrom(d, 2)
        k == ZeroFrom(d, i + 1)
    IN  Decode(SubSeq(d, i + 1, k - 1))

-----------------------------------------------------------------------------
\* The values under the keys of the block graph.

NoID == [Node |-> 0, Round |-> 0, Hash |-> <<>>]
Valid(id) == id.Hash # <<>>

sized(id) == <<Len(encodeBlockID(id))>> \o encodeBlockID(id)
optional(id) == IF Valid(id) THEN sized(id) ELSE <<0>>
encodeDep(dep) ==
    sized(dep.Block) \o optional(dep.Prev)
    \o <<Len(dep.Deps)>> \o FlattenSeq([j \in 1 .. Len(dep.Deps) |-> sized(dep.Deps[j])])

encodeBlockGraph(block) ==
    optional(block.Prev)
    \o <<Len(block.Deps)>> \o FlattenSeq([i \in 1 .. Len(block.Deps) |-> encodeDep(block.Deps[i])])

\* A reader takes the data and an index, and gives what it has read and the index after it.
readID(d, idx) ==
    [val |-> IF d[idx] = 0 THEN NoID ELSE decodeBlockID(SubSeq(d, idx + 1, idx + d[idx])),
     idx |-> idx + 1 + d[idx]]

readLinks(d, idx) ==
    FoldLeft(LAMBDA got, j : LET link == readID(d, got.idx)
                             IN  [val |-> Append(got.val, link.val), idx |-> link.idx],
             [val |-> <<>>, idx |-> idx + 1], [j \in 1 .. d[idx] |-> j])

readDep(d, idx) ==
    LET id == readID(d, idx)
        prev == readID(d, id.idx)
        links == readLinks(d, prev.idx)
    IN  [val |-> [Block |-> id.val, Prev |-> prev.val, Deps |-> links.val], idx |-> links.idx]

readDeps(d, idx) ==
    FoldLeft(LAMBDA got, i : LET dep == readDep(d, got.idx)
                             IN  [val |-> Append(got.val, dep.val), idx |-> dep.idx],
             [val |-> <<>>, idx |-> idx + 1], [i \in 1 .. d[idx] |-> i])

\* What getBlockGraphs makes of a key and its value.
decodeBlockGraph(key, val) ==
    LET prev == readID(val, 1)
    IN  [Block |-> decodeBlockID(Tail(key)), Prev |-> prev.val,
         Deps |-> readDeps(val, prev.idx).val]
=============================================================================
