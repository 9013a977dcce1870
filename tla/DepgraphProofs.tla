--------------------------- MODULE DepgraphProofs ---------------------------
(***************************************************************************)
(* Proofs about Depgraph, for every set of blocks, every reference relation, *)
(* every order of the keys and every limit.                                  *)
(***************************************************************************)
EXTENDS Depgraph, SequenceTheorems, TLAPS

Once(s) == \A i, j \in 1 .. Len(s) : s[i] = s[j] => i = j
Causal(s) == \A i \in 1 .. Len(s) : \A d \in Deps[s[i]] : \E j \in 1 .. i - 1 : s[j] = d

-----------------------------------------------------------------------------
(* Sequences *)

\* The elements of a sequence after an Append.
LEMMA RangeAppend ==
    ASSUME NEW S, NEW s \in Seq(S), NEW e \in S
    PROVE  /\ Append(s, e) \in Seq(S)
           /\ Range(Append(s, e)) = Range(s) \cup {e}
  <1>1. Append(s, e) \in Seq(S)
    OBVIOUS
  <1>2. Range(s) \cup {e} \subseteq Range(Append(s, e))
    <2>1. ASSUME NEW i \in 1 .. Len(s)
          PROVE  s[i] = Append(s, e)[i] /\ i \in 1 .. Len(Append(s, e))
      OBVIOUS
    <2>2. e = Append(s, e)[Len(s) + 1] /\ Len(s) + 1 \in 1 .. Len(Append(s, e))
      OBVIOUS
    <2>3. DOMAIN s = 1 .. Len(s) /\ DOMAIN Append(s, e) = 1 .. Len(Append(s, e))
      OBVIOUS
    <2> QED
      BY <2>1, <2>2, <2>3 DEF Range
  <1>3. Range(Append(s, e)) \subseteq Range(s) \cup {e}
    BY DEF Range
  <1> QED
    BY <1>1, <1>2, <1>3

\* The elements of a concatenation.
LEMMA RangeConcat ==
    ASSUME NEW S, NEW s \in Seq(S), NEW t \in Seq(S)
    PROVE  /\ s \o t \in Seq(S)
           /\ Range(s \o t) = Range(s) \cup Range(t)
  BY RangeConcatenation, ConcatProperties

\* A member of a sequence's range is at one of its positions.
LEMMA RangeMember ==
    ASSUME NEW S, NEW s \in Seq(S)
    PROVE  /\ Range(s) \subseteq S
           /\ \A e : e \in Range(s) <=> \E i \in 1 .. Len(s) : s[i] = e
  BY DEF Range

\* The elements of the head and the tail of a sequence.
LEMMA RangeTail ==
    ASSUME NEW S, NEW s \in Seq(S), s # <<>>
    PROVE  /\ Tail(s) \in Seq(S)
           /\ Head(s) \in S
           /\ Range(s) = {Head(s)} \cup Range(Tail(s))
           /\ Len(Tail(s)) = Len(s) - 1
           /\ \A i \in 1 .. Len(s) - 1 : Tail(s)[i] = s[i + 1]
           /\ Head(s) = s[1]
           /\ Len(s) >= 1
  <1>1. /\ Tail(s) \in Seq(S) /\ Head(s) \in S /\ Len(Tail(s)) = Len(s) - 1
        /\ \A i \in 1 .. Len(s) - 1 : Tail(s)[i] = s[i + 1]
        /\ Head(s) = s[1] /\ Len(s) >= 1
    OBVIOUS
  <1>2. Range(s) \subseteq {Head(s)} \cup Range(Tail(s))
    <2> SUFFICES ASSUME NEW i \in 1 .. Len(s) PROVE s[i] = Head(s) \/ s[i] \in Range(Tail(s))
      BY RangeMember
    <2>1. i # 1 => i - 1 \in 1 .. Len(Tail(s)) /\ Tail(s)[i - 1] = s[i]
      BY <1>1
    <2>2. i # 1 => s[i] \in Range(Tail(s))
      BY <2>1, <1>1, RangeMember
    <2> QED
      BY <2>2, <1>1
  <1>3. Head(s) \in Range(s)
    BY <1>1, RangeMember
  <1>4. Range(Tail(s)) \subseteq Range(s)
    <2> SUFFICES ASSUME NEW e \in Range(Tail(s)) PROVE e \in Range(s)
      OBVIOUS
    <2>0. Tail(s) \in Seq(S)
      BY <1>1
    <2>1. PICK i \in 1 .. Len(Tail(s)) : Tail(s)[i] = e
      BY <2>0, RangeMember, Zenon
    <2>2. i + 1 \in 1 .. Len(s) /\ s[i + 1] = e
      BY <2>1, <1>1
    <2> QED
      BY <2>2, RangeMember
  <1> QED
    BY <1>1, <1>2, <1>3, <1>4

\* The empty sequence has no elements.
LEMMA RangeEmpty == Range(<<>>) = {}
  BY DEF Range

\* Cutting a sequence in two takes nothing away.
LEMMA SplitConcat ==
    ASSUME NEW S, NEW t \in Seq(S), NEW k \in 0 .. Len(t)
    PROVE  /\ SubSeq(t, 1, k) \in Seq(S)
           /\ SubSeq(t, k + 1, Len(t)) \in Seq(S)
           /\ SubSeq(t, 1, k) \o SubSeq(t, k + 1, Len(t)) = t
  <1> DEFINE u == SubSeq(t, 1, k)
             v == SubSeq(t, k + 1, Len(t))
  <1>1. u \in Seq(S) /\ v \in Seq(S)
    OBVIOUS
  <1>2. Len(t) \in Nat /\ 1 \in 1 .. Len(t) + 1 /\ k \in 1 - 1 .. Len(t) /\ Len(t) \in k .. Len(t)
    OBVIOUS
  <1>3. u \o v = SubSeq(t, 1, Len(t))
    BY <1>2, ConcatAdjacentSubSeq, Zenon
  <1>4. SubSeq(t, 1, Len(t)) = t
    OBVIOUS
  <1> QED
    BY <1>1, <1>3, <1>4

\* A block that is new, and whose references are all there, may come next.
LEMMA AppendKeeps ==
    ASSUME NEW s \in Seq(Block), NEW b \in Block, Once(s), Causal(s),
           b \notin Range(s), Deps[b] \subseteq Range(s)
    PROVE  Once(Append(s, b)) /\ Causal(Append(s, b))
  <1> DEFINE t == Append(s, b)
  <1>1. /\ t \in Seq(Block) /\ Len(t) = Len(s) + 1 /\ t[Len(s) + 1] = b
        /\ \A i \in 1 .. Len(s) : t[i] = s[i]
    OBVIOUS
  <1>2. \A i \in 1 .. Len(s) : s[i] # b
    BY RangeMember
  <1> HIDE DEF t
  <1>3. Once(t)
    BY <1>1, <1>2 DEF Once
  <1>4. ASSUME NEW i \in 1 .. Len(t), NEW d \in Deps[t[i]]
        PROVE  \E j \in 1 .. i - 1 : t[j] = d
    <2>1. CASE i \in 1 .. Len(s)
      <3>1. PICK j \in 1 .. i - 1 : s[j] = d
        BY <2>1, <1>1, <1>4 DEF Causal
      <3> QED
        BY <3>1, <2>1, <1>1
    <2>2. CASE i = Len(s) + 1
      <3>1. d \in Range(s)
        BY <2>2, <1>1, <1>4
      <3>2. PICK j \in 1 .. Len(s) : s[j] = d
        BY <3>1, RangeMember
      <3> QED
        BY <3>2, <2>2, <1>1
    <2> QED
      BY <2>1, <2>2, <1>1
  <1> QED
    BY <1>3, <1>4 DEF Causal, t

\* What is saved is a good order by itself.
LEMMA PrefixKeeps ==
    ASSUME NEW s \in Seq(Block), NEW t \in Seq(Block), Once(s \o t), Causal(s \o t)
    PROVE  /\ Once(s)
           /\ Causal(s)
           /\ Range(s) \cap Range(t) = {}
  <1> DEFINE u == s \o t
  <1>1. /\ u \in Seq(Block) /\ Len(u) = Len(s) + Len(t)
        /\ \A i \in 1 .. Len(s) : u[i] = s[i]
        /\ \A i \in 1 .. Len(t) : u[Len(s) + i] = t[i]
        /\ Len(s) \in Nat /\ Len(t) \in Nat
    OBVIOUS
  <1>2. Once(u) /\ Causal(u)
    OBVIOUS
  <1> HIDE DEF u
  <1>3. Once(s)
    BY <1>1, <1>2 DEF Once
  <1>4. ASSUME NEW i \in 1 .. Len(s), NEW d \in Deps[s[i]]
        PROVE  \E j \in 1 .. i - 1 : s[j] = d
    <2>1. PICK j \in 1 .. i - 1 : u[j] = d
      BY <1>1, <1>2, <1>4 DEF Causal
    <2>2. j \in 1 .. Len(s)
      BY <1>1, <1>4
    <2>3. s[j] = d
      BY <2>1, <2>2, <1>1
    <2> QED
      BY <2>3
  <1>5. ASSUME NEW e, e \in Range(s), e \in Range(t) PROVE FALSE
    <2>1. PICK i \in 1 .. Len(s) : s[i] = e
      BY <1>5, RangeMember
    <2>2. PICK j \in 1 .. Len(t) : t[j] = e
      BY <1>5, RangeMember
    <2>3. i \in 1 .. Len(u) /\ Len(s) + j \in 1 .. Len(u) /\ u[i] = u[Len(s) + j]
      BY <2>1, <2>2, <1>1
    <2>4. i = Len(s) + j
      BY <2>3, <1>2 DEF Once
    <2> QED
      BY <2>4, <1>1
  <1> QED
    BY <1>3, <1>4, <1>5 DEF Causal

-----------------------------------------------------------------------------
(* Types *)

\* depgraph.processBlock keeps the types.
LEMMA ProcessBlockType ==
    ASSUME TypeOK, NEW b \in Block, NEW cache \in [Block -> {"absent", "false", "true"}],
           processBlock(b, cache)
    PROVE  /\ await' \in [Block -> Seq(Block)]
           /\ pending' \in SUBSET Block
           /\ icache' \in [Block -> {"absent", "false", "true"}]
           /\ tcache' \in SUBSET Block
           /\ blocks' \in Seq(Block)
  <1>1. \A S : Cached(S, cache) \in [Block -> {"absent", "false", "true"}]
    BY DEF Cached
  <1>2. CASE UNCHANGED <<await, pending, tcache, blocks>> /\ icache' = Cached({b}, cache)
    BY <1>1, <1>2 DEF TypeOK
  <1>3. CASE /\ icache' = Cached({b} \cup Deps[b], cache)
             /\ addPending(b, Missing(b, cache))
             /\ UNCHANGED <<tcache, blocks>>
    <2>1. \A d \in Block : Append(await[d], b) \in Seq(Block)
      BY DEF TypeOK
    <2> QED
      BY <1>1, <1>3, <2>1 DEF TypeOK, addPending
  <1>4. CASE /\ icache' = [Cached({b} \cup Deps[b], cache) EXCEPT ![b] = "true"]
             /\ tcache' = tcache \cup {b}
             /\ blocks' = Append(blocks, b)
             /\ UNCHANGED <<await, pending>>
    BY <1>1, <1>4, RangeAppend DEF TypeOK
  <1> QED
    BY <1>2, <1>3, <1>4 DEF processBlock

\* A pruned cache is a cache whose entries are all entries of icache.
LEMMA PrunedCache ==
    ASSUME TypeOK, NEW cache \in Pruned
    PROVE  /\ cache \in [Block -> {"absent", "false", "true"}]
           /\ \A b \in Block : cache[b] = "absent" \/ cache[b] = icache[b]
  BY DEF Pruned, Present, TypeOK

\* The state keeps its types, whatever happens.
LEMMA TypeStep == TypeOK /\ [Next]_vars => TypeOK'
  <1> SUFFICES ASSUME TypeOK, [Next]_vars PROVE TypeOK'
    OBVIOUS
  <1> USE DepgraphAssumption
  <1>1. ASSUME NEW b \in Block, setBlock(b) PROVE TypeOK'
    BY <1>1 DEF TypeOK, setBlock, Listed, graph
  <1>2. ASSUME NEW b \in Block, add(b) PROVE TypeOK'
    <2>1. in' \in Seq(Block)
      BY <1>2, RangeAppend DEF TypeOK, add
    <2> QED
      BY <1>2, <2>1 DEF TypeOK, add, store, graph
  <1>3. CASE process
    <2>1. PICK cache \in Pruned :
             /\ processBlock(Head(in), cache)
             /\ proc' = IF Through(Head(in), cache)
                        THEN [queue |-> <<Head(in)>>, todo |-> await[Head(in)],
                              seen |-> {Head(in)}, first |-> TRUE]
                        ELSE Idle
      BY <1>3 DEF process
    <2>2. Head(in) \in Block /\ in' \in Seq(Block)
      BY <1>3, RangeTail DEF process, TypeOK
    <2>3. /\ await' \in [Block -> Seq(Block)]
          /\ pending' \in SUBSET Block
          /\ icache' \in [Block -> {"absent", "false", "true"}]
          /\ tcache' \in SUBSET Block
          /\ blocks' \in Seq(Block)
      BY <2>1, <2>2, PrunedCache, ProcessBlockType
    <2>4. <<Head(in)>> \in Seq(Block) /\ await[Head(in)] \in Seq(Block) /\ <<>> \in Seq(Block)
      BY <2>2 DEF TypeOK
    <2>5. proc' \in [queue : Seq(Block), todo : Seq(Block), seen : SUBSET Block, first : BOOLEAN]
      BY <2>1, <2>2, <2>4 DEF Idle
    <2> QED
      BY <1>3, <2>2, <2>3, <2>5 DEF process, TypeOK, store
  <1>4. CASE processRevdep
    <2> DEFINE b == Head(proc.todo)
    <2>1. b \in Block /\ Tail(proc.todo) \in Seq(Block)
      BY <1>4, RangeTail DEF processRevdep, TypeOK
    <2>2. /\ await' \in [Block -> Seq(Block)]
          /\ pending' \in SUBSET Block
          /\ icache' \in [Block -> {"absent", "false", "true"}]
          /\ tcache' \in SUBSET Block
          /\ blocks' \in Seq(Block)
      <3>1. CASE UNCHANGED graph
        BY <3>1 DEF TypeOK, graph
      <3>2. CASE processBlock(b, icache)
        BY <3>2, <2>1, ProcessBlockType DEF TypeOK
      <3> QED
        BY <1>4, <3>1, <3>2 DEF processRevdep
    <2>3. proc' \in [queue : Seq(Block), todo : Seq(Block), seen : SUBSET Block, first : BOOLEAN]
      <3>1. CASE proc' = [proc EXCEPT !.todo = Tail(@)]
        BY <3>1, <2>1 DEF TypeOK
      <3>2. CASE proc' = [proc EXCEPT !.todo = Tail(@), !.seen = SeenAfter(b),
                                      !.queue = IF Through(b, icache) THEN Append(@, b) ELSE @]
        <4>1. Append(proc.queue, b) \in Seq(Block)
          BY <2>1, RangeAppend DEF TypeOK
        <4>2. SeenAfter(b) \in SUBSET Block
          BY <2>1 DEF SeenAfter, TypeOK
        <4> HIDE DEF b
        <4> QED
          BY <3>2, <4>1, <4>2, <2>1 DEF TypeOK
      <3> QED
        BY <1>4, <3>1, <3>2 DEF processRevdep
    <2> QED
      BY <1>4, <2>2, <2>3 DEF processRevdep, TypeOK, store
  <1>5. CASE processNext
    <2>1. Head(proc.queue) \in Block /\ Tail(proc.queue) \in Seq(Block) /\ <<>> \in Seq(Block)
      BY <1>5, RangeTail DEF processNext, TypeOK
    <2>2. await' \in [Block -> Seq(Block)] /\ pending' \in SUBSET Block
      BY <1>5, <2>1 DEF processNext, AwaitWithout, TypeOK
    <2>3. Tail(proc.queue) # <<>> => Head(Tail(proc.queue)) \in Block
      BY <2>1, RangeTail
    <2>4. proc' \in [queue : Seq(Block), todo : Seq(Block), seen : SUBSET Block, first : BOOLEAN]
      BY <1>5, <2>1, <2>2, <2>3 DEF processNext, TypeOK, Idle
    <2> QED
      BY <1>5, <2>2, <2>4 DEF processNext, TypeOK, store
  <1>6. CASE getBlocks
    <2> DEFINE idx == IF Len(blocks) < RefLimit THEN Len(blocks) ELSE RefLimit
    <2>1. idx \in 0 .. Len(blocks)
      BY DEF TypeOK
    <2>2. SubSeq(blocks, 1, idx) \in Seq(Block) /\ SubSeq(blocks, idx + 1, Len(blocks)) \in Seq(Block)
      BY <2>1 DEF TypeOK
    <2> QED
      BY <1>6, <2>2 DEF getBlocks, TypeOK, store
  <1>7. CASE setOwnBlock
    <2>1. log \o refs \in Seq(Block)
      BY RangeConcat DEF TypeOK
    <2> QED
      BY <1>7, <2>1 DEF setOwnBlock, TypeOK, graph
  <1>8. CASE actuallyIncluded
    <2>1. Tail(saved) \in Seq(Block)
      BY <1>8, RangeTail DEF actuallyIncluded, TypeOK
    <2> QED
      BY <1>8, <2>1 DEF actuallyIncluded, TypeOK, store
  <1>9. CASE Restart
    <2>1. crashes' \in 0 .. MaxCrashes
      BY <1>9 DEF Restart, getNotIncluded, TypeOK
    <2>2. in' \in Seq(Block)
      BY <1>9 DEF Restart, getNotIncluded, TypeOK
    <2>3. <<>> \in Seq(Block)
      OBVIOUS
    <2> QED
      BY <1>9, <2>1, <2>2, <2>3 DEF Restart, getNotIncluded, TypeOK, store, NoWaiting, NoCache, Idle
  <1>10. CASE UNCHANGED vars
    BY <1>10 DEF TypeOK, vars, store, graph
  <1> QED
    BY <1>1, <1>2, <1>3, <1>4, <1>5, <1>6, <1>7, <1>8, <1>9, <1>10
       DEF Next, Handler, Process, GenBlocks

-----------------------------------------------------------------------------
(* Inclusion *)

\* What is let through is what is saved, taken or waiting.
LEMMA RangeOrder ==
    ASSUME TypeOK
    PROVE  /\ Order \in Seq(Block)
           /\ Range(Order) = Range(log) \cup Range(refs) \cup Range(blocks)
           /\ Range(Order) \subseteq Block
  <1> DEFINE s == log \o refs
  <1>1. s \in Seq(Block) /\ Range(s) = Range(log) \cup Range(refs)
    BY RangeConcat DEF TypeOK
  <1>2. blocks \in Seq(Block)
    BY DEF TypeOK
  <1> HIDE DEF s
  <1>3. s \o blocks \in Seq(Block) /\ Range(s \o blocks) = Range(s) \cup Range(blocks)
    BY <1>1, <1>2, RangeConcat
  <1>4. Range(s \o blocks) \subseteq Block
    BY <1>3, RangeMember
  <1> QED
    BY <1>1, <1>3, <1>4 DEF Order, s

\* depgraph.isIncluded answers right from any pruned cache.
LEMMA Truth ==
    ASSUME InclusionInv, NEW cache \in [Block -> {"absent", "false", "true"}],
           \A b \in Block : cache[b] = "absent" \/ cache[b] = icache[b],
           NEW b \in Block
    PROVE  isIncluded(b, cache) <=> b \in Range(Order)
  <1>1. Range(Order) = Range(log) \cup Range(refs) \cup Range(blocks)
    BY RangeOrder DEF InclusionInv
  <1>2. /\ Range(refs) \cup Range(blocks) \subseteq tcache
        /\ tcache \subseteq Range(Order)
        /\ icache[b] = "true" => b \in Range(Order)
        /\ icache[b] = "false" => b \notin Range(Order)
    BY DEF InclusionInv
  <1>3. cache[b] \in {"absent", "false", "true"} /\ (cache[b] = "absent" \/ cache[b] = icache[b])
    OBVIOUS
  <1>4. CASE b \in tcache
    BY <1>4, <1>2 DEF isIncluded
  <1>5. CASE b \notin tcache
    <2>1. b \in Range(Order) <=> b \in included
      BY <1>1, <1>2, <1>5 DEF included
    <2> QED
      BY <2>1, <1>2, <1>3, <1>5 DEF isIncluded
  <1> QED
    BY <1>4, <1>5

\* What depgraph.processBlock does, in terms of what was let through.
LEMMA ProcessBlockEffect ==
    ASSUME InclusionInv, NEW b \in Block, NEW cache \in [Block -> {"absent", "false", "true"}],
           \A c \in Block : cache[c] = "absent" \/ cache[c] = icache[c],
           processBlock(b, cache), UNCHANGED <<log, refs>>
    PROVE  /\ Through(b, cache) <=> b \in Range(Order) \/ Deps[b] \subseteq Range(Order)
           /\ \/ /\ b \in Range(Order)
                 /\ Order' = Order
                 /\ UNCHANGED <<await, pending, tcache, blocks>>
              \/ /\ b \notin Range(Order)
                 /\ ~(Deps[b] \subseteq Range(Order))
                 /\ Order' = Order
                 /\ addPending(b, Deps[b] \ Range(Order))
                 /\ UNCHANGED <<tcache, blocks>>
              \/ /\ b \notin Range(Order)
                 /\ Deps[b] \subseteq Range(Order)
                 /\ Order' = Append(Order, b)
                 /\ tcache' = tcache \cup {b}
                 /\ blocks' = Append(blocks, b)
                 /\ UNCHANGED <<await, pending>>
           /\ \A c \in Block : /\ icache'[c] = "true" => c \in Range(Order)'
                               /\ icache'[c] = "false" => c \notin Range(Order)'
  <1> USE DepgraphAssumption
  <1>1. TypeOK /\ Order \in Seq(Block)
    BY RangeOrder DEF InclusionInv
  <1>2. \A c \in Block : isIncluded(c, cache) <=> c \in Range(Order)
    BY Truth
  <1>3. Missing(b, cache) = Deps[b] \ Range(Order)
    BY <1>2 DEF Missing
  <1>4. Through(b, cache) <=> b \in Range(Order) \/ Deps[b] \subseteq Range(Order)
    BY <1>2, <1>3 DEF Through
  <1>5. ASSUME NEW S, NEW c \in Block
        PROVE  /\ Cached(S, cache)[c] = "true" => c \in Range(Order)
               /\ Cached(S, cache)[c] = "false" => c \notin Range(Order)
    <2>1. CASE c \in S \ tcache /\ cache[c] = "absent"
      <3>1. Range(Order) = Range(log) \cup Range(refs) \cup Range(blocks)
        BY <1>1, RangeOrder
      <3> QED
        BY <2>1, <3>1 DEF Cached, InclusionInv, included
    <2>2. CASE ~(c \in S \ tcache /\ cache[c] = "absent")
      BY <2>2 DEF Cached, InclusionInv
    <2> QED
      BY <2>1, <2>2
  <1>6. ASSUME blocks' = Append(blocks, b)
        PROVE  Order' = Append(Order, b) /\ Range(Order)' = Range(Order) \cup {b}
    <2>1. Order' = (log \o refs) \o Append(blocks, b)
      BY <1>6 DEF Order
    <2>2. log \o refs \in Seq(Block) /\ blocks \in Seq(Block)
      BY RangeConcat DEF InclusionInv, TypeOK
    <2>3. (log \o refs) \o Append(blocks, b) = Append((log \o refs) \o blocks, b)
      BY <2>2
    <2>4. Order' = Append(Order, b)
      BY <2>1, <2>3 DEF Order
    <2> QED
      BY <2>4, <1>1, RangeAppend
  <1>7. CASE /\ isIncluded(b, cache)
             /\ icache' = Cached({b}, cache)
             /\ UNCHANGED <<await, pending, tcache, blocks>>
    <2>1. Order' = Order
      BY <1>7 DEF Order
    <2> QED
      BY <1>7, <2>1, <1>2, <1>4, <1>5
  <1>8. CASE /\ ~isIncluded(b, cache)
             /\ Missing(b, cache) # {}
             /\ icache' = Cached({b} \cup Deps[b], cache)
             /\ addPending(b, Missing(b, cache))
             /\ UNCHANGED <<tcache, blocks>>
    <2>1. Order' = Order
      BY <1>8 DEF Order
    <2> QED
      BY <1>8, <2>1, <1>2, <1>3, <1>4, <1>5
  <1>9. CASE /\ ~isIncluded(b, cache)
             /\ Missing(b, cache) = {}
             /\ icache' = [Cached({b} \cup Deps[b], cache) EXCEPT ![b] = "true"]
             /\ tcache' = tcache \cup {b}
             /\ blocks' = Append(blocks, b)
             /\ UNCHANGED <<await, pending>>
    <2>1. ASSUME NEW c \in Block
          PROVE  /\ icache'[c] = "true" => c \in Range(Order)'
                 /\ icache'[c] = "false" => c \notin Range(Order)'
      <3>1. Cached({b} \cup Deps[b], cache) \in [Block -> {"absent", "false", "true"}]
        BY DEF Cached
      <3>2. icache'[c] = IF c = b THEN "true" ELSE Cached({b} \cup Deps[b], cache)[c]
        BY <1>9, <3>1
      <3> QED
        BY <3>2, <1>5, <1>6, <1>9
    <2> QED
      BY <1>9, <2>1, <1>2, <1>3, <1>4, <1>6
  <1> QED
    BY <1>7, <1>8, <1>9 DEF processBlock

\* InclusionInv, when Order and the caches move as processBlock moves them.
LEMMA ProcessBlockInclusion ==
    ASSUME InclusionInv, TypeOK', NEW b \in Block,
           NEW cache \in [Block -> {"absent", "false", "true"}],
           \A c \in Block : cache[c] = "absent" \/ cache[c] = icache[c],
           processBlock(b, cache), UNCHANGED <<log, refs, saved>>
    PROVE  InclusionInv'
  <1>1. TypeOK /\ Order \in Seq(Block) /\ blocks \in Seq(Block) /\ Once(Order) /\ Causal(Order)
    BY RangeOrder DEF InclusionInv, TypeOK, IncludedOnce, CausalOrder, Once, Causal
  <1>2. \A c \in Block : /\ icache'[c] = "true" => c \in Range(Order)'
                         /\ icache'[c] = "false" => c \notin Range(Order)'
    BY ProcessBlockEffect
  <1>3. CASE Order' = Order /\ UNCHANGED <<tcache, blocks>>
    BY <1>2, <1>3 DEF InclusionInv, IncludedOnce, CausalOrder, included
  <1>4. CASE /\ b \notin Range(Order)
             /\ Deps[b] \subseteq Range(Order)
             /\ Order' = Append(Order, b)
             /\ tcache' = tcache \cup {b}
             /\ blocks' = Append(blocks, b)
    <2>1. Range(Order)' = Range(Order) \cup {b} /\ Range(blocks)' = Range(blocks) \cup {b}
      BY <1>1, <1>4, RangeAppend
    <2>2. Once(Order)' /\ Causal(Order)'
      BY <1>1, <1>4, AppendKeeps
    <2>3. IncludedOnce' /\ CausalOrder'
      BY <2>2 DEF IncludedOnce, CausalOrder, Once, Causal
    <2> QED
      BY <1>2, <1>4, <2>1, <2>3 DEF InclusionInv, included
  <1> QED
    BY <1>3, <1>4, ProcessBlockEffect

\* getBlocks moves references from the queue to the block being made.
LEMMA OrderTaken ==
    ASSUME TypeOK, getBlocks
    PROVE  /\ Order' = Order
           /\ Range(blocks) = Range(refs)' \cup Range(blocks)'
  <1> DEFINE idx == IF Len(blocks) < RefLimit THEN Len(blocks) ELSE RefLimit
  <1>1. idx \in 0 .. Len(blocks) /\ blocks \in Seq(Block) /\ log \in Seq(Block)
    BY DepgraphAssumption DEF TypeOK
  <1>2. /\ refs = <<>>
        /\ refs' = SubSeq(blocks, 1, idx)
        /\ blocks' = SubSeq(blocks, idx + 1, Len(blocks))
        /\ UNCHANGED log
    BY DEF getBlocks, store
  <1> HIDE DEF idx
  <1> DEFINE u == SubSeq(blocks, 1, idx)
             v == SubSeq(blocks, idx + 1, Len(blocks))
  <1>3. u \in Seq(Block) /\ v \in Seq(Block)
    BY <1>1, SplitConcat
  <1>4. u \o v = blocks
    BY <1>1, SplitConcat
  <1>6. refs' = u /\ blocks' = v
    BY <1>2
  <1> HIDE DEF u, v
  <1>a. (log \o u) \o v = log \o (u \o v)
    BY <1>1, <1>3
  <1>5. (log \o u) \o v = log \o blocks
    BY <1>4, <1>a
  <1>7. Range(u \o v) = Range(u) \cup Range(v)
    BY <1>3, RangeConcat
  <1>8. Order = log \o blocks
    BY <1>1, <1>2 DEF Order
  <1>9. Order' = (log \o u) \o v
    BY <1>2, <1>6 DEF Order
  <1> QED
    BY <1>3, <1>6, <1>7, <1>8, <1>9, <1>4, <1>5

\* setOwnBlock moves the references of the block being made to the saved ones.
LEMMA OrderSaved ==
    ASSUME TypeOK, setOwnBlock
    PROVE  /\ Order' = Order
           /\ Range(refs)' = {}
           /\ Range(log)' = Range(log) \cup Range(refs)
  <1>1. log' = log \o refs /\ refs' = <<>> /\ blocks' = blocks
    BY DEF setOwnBlock, graph
  <1>2. log \in Seq(Block) /\ refs \in Seq(Block) /\ blocks \in Seq(Block)
    BY DEF TypeOK
  <1>3. log \o refs \in Seq(Block) /\ Range(log \o refs) = Range(log) \cup Range(refs)
    BY <1>2, RangeConcat
  <1>4. Order' = Order
    BY <1>1, <1>2, <1>3, ConcatEmptySeq DEF Order
  <1> QED
    BY <1>1, <1>3, <1>4, RangeEmpty

\* Every step keeps InclusionInv.
LEMMA InclusionStep == InclusionInv /\ [Next]_vars => InclusionInv'
  <1> SUFFICES ASSUME InclusionInv, [Next]_vars PROVE InclusionInv'
    OBVIOUS
  <1>1. TypeOK /\ TypeOK'
    BY TypeStep DEF InclusionInv
  <1>2. /\ Order \in Seq(Block)
        /\ Range(Order) = Range(log) \cup Range(refs) \cup Range(blocks)
        /\ Once(Order) /\ Causal(Order)
    BY <1>1, RangeOrder DEF InclusionInv, IncludedOnce, CausalOrder, Once, Causal
  <1>3. CASE UNCHANGED <<log, refs, blocks, saved, tcache, icache>>
    <2>1. Order' = Order
      BY <1>3 DEF Order
    <2> QED
      BY <1>1, <1>3, <2>1 DEF InclusionInv, IncludedOnce, CausalOrder, included
  <1>4. CASE process
    <2>1. PICK cache \in Pruned : processBlock(Head(in), cache)
      BY <1>4 DEF process
    <2>2. Head(in) \in Block
      BY <1>4, <1>1, RangeTail DEF process, TypeOK
    <2>3. UNCHANGED <<log, refs, saved>>
      BY <1>4 DEF process, store
    <2> QED
      BY <1>1, <2>1, <2>2, <2>3, PrunedCache, ProcessBlockInclusion
  <1>5. CASE processRevdep
    <2>1. CASE processBlock(Head(proc.todo), icache)
      <3>1. Head(proc.todo) \in Block
        BY <1>5, <1>1, RangeTail DEF processRevdep, TypeOK
      <3>2. UNCHANGED <<log, refs, saved>>
        BY <1>5 DEF processRevdep, store
      <3>3. icache \in [Block -> {"absent", "false", "true"}]
        BY <1>1 DEF TypeOK
      <3> QED
        BY <1>1, <2>1, <3>1, <3>2, <3>3, ProcessBlockInclusion
    <2>2. CASE UNCHANGED graph
      BY <1>3, <1>5, <2>2 DEF processRevdep, graph, store
    <2> QED
      BY <1>5, <2>1, <2>2 DEF processRevdep
  <1>6. CASE getBlocks
    <2>1. /\ Order' = Order
          /\ Range(blocks) = Range(refs)' \cup Range(blocks)'
      BY <1>1, <1>6, OrderTaken
    <2>2. refs = <<>> /\ saved = <<>> /\ UNCHANGED <<log, saved, tcache, icache>>
      BY <1>6 DEF getBlocks, store
    <2> QED
      BY <1>1, <2>1, <2>2, RangeEmpty DEF InclusionInv, IncludedOnce, CausalOrder, included
  <1>7. CASE setOwnBlock
    <2>1. Order' = Order /\ Range(refs)' = {} /\ Range(log)' = Range(log) \cup Range(refs)
      BY <1>1, <1>7, OrderSaved
    <2>2. saved' = refs /\ refs' = <<>> /\ UNCHANGED <<blocks, tcache, icache>>
      BY <1>7 DEF setOwnBlock, graph
    <2> QED
      BY <1>1, <2>1, <2>2 DEF InclusionInv, IncludedOnce, CausalOrder, included
  <1>8. CASE actuallyIncluded
    <2>1. /\ saved # <<>> /\ tcache' = tcache \ {Head(saved)} /\ saved' = Tail(saved)
          /\ UNCHANGED <<log, refs, blocks, icache>>
      BY <1>8 DEF actuallyIncluded, store
    <2>2. Range(saved) = {Head(saved)} \cup Range(Tail(saved))
      BY <1>1, <2>1, RangeTail DEF TypeOK
    <2>3. refs = <<>> /\ Head(saved) \in Range(log)
      BY <2>1, <2>2 DEF InclusionInv, included
    <2>4. Range(log) \cap Range(blocks) = {}
      <3>1. log \in Seq(Block) /\ blocks \in Seq(Block)
        BY <1>1 DEF TypeOK
      <3>2. Order = log \o blocks
        BY <2>3, <3>1 DEF Order
      <3> QED
        BY <1>2, <3>1, <3>2, PrefixKeeps
    <2>5. Order' = Order
      BY <2>1 DEF Order
    <2> QED
      BY <1>1, <2>1, <2>2, <2>3, <2>4, <2>5, RangeEmpty
         DEF InclusionInv, IncludedOnce, CausalOrder, included
  <1>9. CASE Restart
    <2>1. /\ icache' = NoCache /\ tcache' = {} /\ blocks' = <<>> /\ refs' = <<>> /\ saved' = <<>>
          /\ UNCHANGED log
      BY <1>9 DEF Restart, getNotIncluded, store
    <2>2. log \in Seq(Block) /\ refs \in Seq(Block) /\ blocks \in Seq(Block)
      BY <1>1 DEF TypeOK
    <2>3. Order' = log
      BY <2>1, <2>2 DEF Order
    <2>4. Order = log \o (refs \o blocks) /\ refs \o blocks \in Seq(Block)
      BY <2>2, ConcatAssociative DEF Order
    <2>5. Once(log) /\ Causal(log)
      BY <1>2, <2>2, <2>4, PrefixKeeps
    <2>6. IncludedOnce' /\ CausalOrder'
      BY <2>3, <2>5 DEF IncludedOnce, CausalOrder, Once, Causal
    <2>7. \A c \in Block : icache'[c] = "absent"
      BY <2>1 DEF NoCache
    <2> QED
      BY <1>1, <2>1, <2>6, <2>7, RangeEmpty DEF InclusionInv
  <1> QED
    BY <1>3, <1>4, <1>5, <1>6, <1>7, <1>8, <1>9
       DEF Next, Handler, Process, GenBlocks, vars, setBlock, add, processNext, store, graph

-----------------------------------------------------------------------------
(* Theorems about inclusion *)

\* The caches, the saved references and the queues of depgraph.go stay in step.
THEOREM InclusionInvariant == Spec => []InclusionInv
  <1>1. Init => InclusionInv
    <2> SUFFICES ASSUME Init PROVE InclusionInv
      OBVIOUS
    <2>1. TypeOK
      BY DepgraphAssumption DEF Init, TypeOK, NoWaiting, NoCache, Idle
    <2>2. Order = <<>> /\ Len(Order) = 0
      BY DEF Init, Order
    <2>3. \A b \in Block : icache[b] = "absent"
      BY DEF Init, NoCache
    <2> QED
      BY <2>1, <2>2, <2>3, RangeEmpty DEF Init, InclusionInv, IncludedOnce, CausalOrder
  <1> QED
    BY <1>1, InclusionStep, PTL DEF Spec

\* Whatever is pruned, received again or lost in a crash, depgraph.isIncluded
\* answers exactly which blocks were let through.
THEOREM CachesTellTheTruth == Spec => []CacheTruth
  <1>1. InclusionInv => CacheTruth
    BY Truth DEF InclusionInv, TypeOK, CacheTruth
  <1> QED
    BY <1>1, InclusionInvariant, PTL

\* No block is referred to twice by the own blocks of a node.
THEOREM NoDoubleInclusion == Spec => []IncludedOnce
  <1>1. InclusionInv => IncludedOnce
    BY DEF InclusionInv
  <1> QED
    BY <1>1, InclusionInvariant, PTL

\* Own blocks refer to the blocks of others in causal order.
THEOREM CausallyOrdered == Spec => []CausalOrder
  <1>1. InclusionInv => CausalOrder
    BY DEF InclusionInv
  <1> QED
    BY <1>1, InclusionInvariant, PTL

\* depgraph.processBlock brings in no block but the one it is called with.
LEMMA ProcessBlockOrigin ==
    ASSUME TypeOK, NEW b \in Block, NEW cache, processBlock(b, cache), UNCHANGED <<log, refs>>, TypeOK'
    PROVE  pending' \subseteq pending \cup {b} /\ Range(Order)' \subseteq Range(Order) \cup {b}
  <1>1. pending' \subseteq pending \cup {b}
    BY DEF processBlock, addPending
  <1>2. Range(Order) = Range(log) \cup Range(refs) \cup Range(blocks)
    BY RangeOrder
  <1>3. (log \o refs) \o blocks' \in Seq(Block) /\ log \o refs \in Seq(Block)
    BY RangeConcat DEF TypeOK
  <1>4. Range(Order)' = Range(log \o refs) \cup Range(blocks')
    <2> DEFINE s == log \o refs
               t == blocks'
    <2>1. s \in Seq(Block) /\ t \in Seq(Block) /\ Order' = s \o t
      BY <1>3 DEF TypeOK, Order
    <2> HIDE DEF s, t
    <2>2. Range(s \o t) = Range(s) \cup Range(t)
      BY <2>1, RangeConcat
    <2> QED
      BY <2>1, <2>2 DEF s, t
  <1>5. Range(log \o refs) = Range(log) \cup Range(refs)
    BY RangeConcat DEF TypeOK
  <1>6. Range(blocks') \subseteq Range(blocks) \cup {b}
    <2>1. Range(Append(blocks, b)) = Range(blocks) \cup {b}
      BY RangeAppend DEF TypeOK
    <2> QED
      BY <2>1 DEF processBlock
  <1> QED
    BY <1>1, <1>2, <1>4, <1>5, <1>6

\* A crash loses no block that the node has seen: what is on its way through the
\* depgraph is in an own block or among those that a restart replays.
THEOREM NothingIsForgotten == Spec => []NothingForgotten
  <1> DEFINE Way == adding \cup Range(in) \cup pending \cup Range(Order)
  <1>1. Init => NothingForgotten
    BY RangeEmpty DEF Init, NothingForgotten, Order
  <1>2. InclusionInv /\ NothingForgotten /\ [Next]_vars => NothingForgotten'
    <2> SUFFICES ASSUME InclusionInv, NothingForgotten, [Next]_vars PROVE NothingForgotten'
      OBVIOUS
    <2>1. TypeOK /\ TypeOK'
      BY TypeStep DEF InclusionInv
    <2>2. Way \subseteq Range(log) \cup notIncluded
      BY DEF NothingForgotten, included
    <2>3. ASSUME Way' \subseteq Way, UNCHANGED <<log, notIncluded>> PROVE NothingForgotten'
      BY <2>2, <2>3 DEF NothingForgotten, included
    <2>4. ASSUME NEW b \in Block, setBlock(b) PROVE NothingForgotten'
      <3>1. Order' = Order
        BY <2>4 DEF setBlock, Order, graph
      <3> QED
        BY <2>2, <2>4, <3>1 DEF setBlock, Listed, graph, NothingForgotten, included
    <2>5. ASSUME NEW b \in Block, add(b) PROVE NothingForgotten'
      <3>1. Order' = Order
        BY <2>5 DEF add, Order, graph, store
      <3>2. Range(in') = Range(in) \cup {b} /\ b \in adding
        BY <2>1, <2>5, RangeAppend DEF TypeOK, add
      <3> QED
        BY <2>3, <2>5, <3>1, <3>2 DEF add, graph, store
    <2>6. CASE process
      <3>1. PICK cache : processBlock(Head(in), cache)
        BY <2>6 DEF process
      <3>2. Range(in) = {Head(in)} \cup Range(in') /\ Head(in) \in Block
        BY <2>1, <2>6, RangeTail DEF process, TypeOK
      <3>3. UNCHANGED <<adding, log, notIncluded, refs>>
        BY <2>6 DEF process, store
      <3>4. /\ pending' \subseteq pending \cup {Head(in)}
            /\ Range(Order)' \subseteq Range(Order) \cup {Head(in)}
        BY <2>1, <3>1, <3>2, <3>3, ProcessBlockOrigin
      <3> QED
        BY <2>3, <3>2, <3>3, <3>4
    <2>7. CASE processRevdep
      <3>1. UNCHANGED <<adding, in, log, notIncluded, refs>>
        BY <2>7 DEF processRevdep, store
      <3>2. CASE UNCHANGED graph
        <4>1. Order' = Order
          BY <3>1, <3>2 DEF Order, graph
        <4> QED
          BY <2>3, <3>1, <3>2, <4>1 DEF graph
      <3>3. CASE Head(proc.todo) \in pending /\ processBlock(Head(proc.todo), icache)
        <4>1. Head(proc.todo) \in Block
          BY <2>1, <3>3 DEF TypeOK
        <4>2. /\ pending' \subseteq pending \cup {Head(proc.todo)}
              /\ Range(Order)' \subseteq Range(Order) \cup {Head(proc.todo)}
          BY <2>1, <3>1, <3>3, <4>1, ProcessBlockOrigin
        <4> QED
          BY <2>3, <3>1, <3>3, <4>2
      <3> QED
        BY <2>7, <3>2, <3>3 DEF processRevdep
    <2>8. CASE processNext
      <3>1. Order' = Order
        BY <2>8 DEF processNext, Order, store
      <3> QED
        BY <2>3, <2>8, <3>1 DEF processNext, store
    <2>9. CASE getBlocks
      <3>1. Order' = Order
        BY <2>1, <2>9, OrderTaken
      <3> QED
        BY <2>3, <2>9, <3>1 DEF getBlocks, store
    <2>10. CASE setOwnBlock
      <3>1. Order' = Order /\ Range(log)' = Range(log) \cup Range(refs)
        BY <2>1, <2>10, OrderSaved
      <3> QED
        BY <2>2, <2>10, <3>1 DEF setOwnBlock, graph, NothingForgotten, included
    <2>11. CASE actuallyIncluded
      <3>1. Order' = Order
        BY <2>11 DEF actuallyIncluded, Order, store
      <3> QED
        BY <2>3, <2>11, <3>1 DEF actuallyIncluded, store
    <2>12. CASE Restart
      <3>1. Order' = log
        BY <2>1, <2>12 DEF Restart, getNotIncluded, Order, TypeOK, store
      <3>2. Range(in') = notIncluded
        BY <2>1, <2>12, DepgraphAssumption DEF Restart, getNotIncluded, TypeOK
      <3> QED
        BY <2>12, <3>1, <3>2 DEF Restart, getNotIncluded, NothingForgotten, included, store
    <2>13. CASE UNCHANGED vars
      <3>1. Order' = Order
        BY <2>13 DEF vars, Order, store, graph
      <3> QED
        BY <2>3, <2>13, <3>1 DEF vars, store, graph
    <2> QED
      BY <2>4, <2>5, <2>6, <2>7, <2>8, <2>9, <2>10, <2>11, <2>12, <2>13
         DEF Next, Handler, Process, GenBlocks
  <1> QED
    BY <1>1, <1>2, InclusionInvariant, PTL DEF Spec
=============================================================================
