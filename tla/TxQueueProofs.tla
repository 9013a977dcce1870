--------------------------- MODULE TxQueueProofs ---------------------------
(***************************************************************************)
(* Proofs that the count of a block is right and that AddTransaction writes   *)
(* within the buffer, for every number of calls and every size.              *)
(***************************************************************************)
EXTENDS TxQueue, SequenceTheorems, TLAPS

Made == [count : Nat, txs : Seq(Tx)]

\* Storing a block whose count is right keeps the counts of the stored blocks right.
LEMMA StoreBlock ==
    ASSUME NEW bs \in Seq(Made), NEW b \in Made,
           b.count = Len(b.txs),
           \A k \in 1 .. Len(bs) : bs[k].count = Len(bs[k].txs)
    PROVE  /\ Append(bs, b) \in Seq(Made)
           /\ \A k \in 1 .. Len(Append(bs, b)) :
                  Append(bs, b)[k].count = Len(Append(bs, b)[k].txs)
<1>1. /\ Append(bs, b) \in Seq(Made)
      /\ Len(Append(bs, b)) = Len(bs) + 1
      /\ \A k \in 1 .. Len(bs) : Append(bs, b)[k] = bs[k]
      /\ Append(bs, b)[Len(bs) + 1] = b
    BY AppendProperties
<1>2. Len(bs) \in Nat
    BY LenProperties
<1>3. ASSUME NEW k \in 1 .. Len(bs) + 1
      PROVE  Append(bs, b)[k].count = Len(Append(bs, b)[k].txs)
    <2>1. CASE k \in 1 .. Len(bs)
        BY <1>1, <2>1
    <2>2. CASE k = Len(bs) + 1
        BY <1>1, <2>2
    <2> QED
        BY <1>2, <2>1, <2>2
<1> QED
    BY <1>1, <1>3

\* The queue, the block in the making and the stored blocks agree on their counts, and
\* the queue fits into its buffer, in every state of the program (AddTransaction
\* against genBlocks, with crashes).
THEOREM QueueInvariant == Spec => []QueueInv
<1>1. Init => QueueInv
    <2> SUFFICES ASSUME Init PROVE QueueInv
        OBVIOUS
    <2>1. <<>> \in Seq(Tx) /\ <<>> \in Seq(Made) /\ Len(<<>>) = 0
        BY EmptySeq
    <2>2. data \in Made /\ data.count = Len(data.txs)
        BY <2>1 DEF Init, NoBlock, Made
    <2>3. CountMatches
        BY <2>1 DEF Init, CountMatches
    <2> QED
        BY <2>1, <2>2, <2>3, TxQueueAssumption DEF Init, QueueInv, BufferFits, Made
<1>2. QueueInv /\ [Next]_vars => QueueInv'
    <2> SUFFICES ASSUME QueueInv, [Next]_vars PROVE QueueInv'
        OBVIOUS
    <2>0. /\ queue \in Seq(Tx) /\ txCount = Len(queue)
          /\ data \in Made /\ data.count = Len(data.txs)
          /\ blocks \in Seq(Made) /\ CountMatches
          /\ txIdx \in Nat /\ txIdx <= txSizeLimit
        BY DEF QueueInv, BufferFits, Made
    <2>e. <<>> \in Seq(Tx) /\ Len(<<>>) = 0 /\ NoBlock \in Made /\ NoBlock.count = Len(NoBlock.txs)
        <3>1. <<>> \in Seq(Tx) /\ Len(<<>>) = 0
            BY EmptySeq
        <3> QED
            BY <3>1 DEF NoBlock, Made
    <2>a. ASSUME UNCHANGED <<buffer, data, blocks>> PROVE QueueInv'
        BY <2>0, <2>a DEF buffer, QueueInv, BufferFits, CountMatches, Made
    <2>b. ASSUME UNCHANGED <<buffer, producer>> PROVE QueueInv'
        BY <2>a, <2>b DEF producer
    <2>1. ASSUME NEW t \in Tx, append(t) PROVE QueueInv'
        <3>1. /\ queue' = Append(queue, t) /\ txCount' = txCount + 1
              /\ txIdx' = txIdx + Header + size[t]
              /\ txIdx + size[t] + Room <= txSizeLimit
              /\ UNCHANGED <<data, blocks>>
            BY <2>1 DEF append, Fits, producer
        <3>2. queue' \in Seq(Tx) /\ Len(queue') = Len(queue) + 1
            BY <2>0, <3>1, AppendProperties
        <3>3. /\ size[t] \in Nat /\ Header \in Nat /\ Room \in Nat /\ Header <= Room
              /\ txSizeLimit \in Nat
            BY TxQueueAssumption
        <3>4. txIdx' \in Nat /\ txIdx' <= txSizeLimit
            BY <2>0, <3>1, <3>3
        <3>5. CountMatches'
            BY <2>0, <3>1 DEF CountMatches
        <3> QED
            BY <2>0, <3>1, <3>2, <3>4, <3>5 DEF QueueInv, BufferFits, Made
    <2>2. CASE take
        <3>1. /\ queue' = <<>> /\ txCount' = 0 /\ txIdx' = 0 /\ blocks' = blocks
              /\ data' = [count |-> txCount, txs |-> queue]
            BY <2>2 DEF take, DataAfter, CountAfter
        <3>2. data' \in Made /\ data'.count = Len(data'.txs)
            <4>1. txCount \in Nat
                BY <2>0, LenProperties
            <4> QED
                BY <2>0, <3>1, <4>1 DEF Made
        <3>3. CountMatches'
            BY <2>0, <3>1 DEF CountMatches
        <3> QED
            BY <2>0, <2>e, <3>1, <3>2, <3>3, TxQueueAssumption DEF QueueInv, BufferFits, Made
    <2>3. CASE setOwnBlock
        <3>1. /\ data' = NoBlock /\ UNCHANGED <<queue, txCount, txIdx>>
              /\ blocks' = blocks \/ blocks' = Append(blocks, data)
            BY <2>3 DEF setOwnBlock, buffer
        <3>2. CASE blocks' = blocks
            BY <2>0, <2>e, <3>1, <3>2 DEF QueueInv, BufferFits, CountMatches, Made
        <3>3. CASE blocks' = Append(blocks, data)
            <4>1. \A k \in 1 .. Len(blocks) : blocks[k].count = Len(blocks[k].txs)
                BY <2>0 DEF CountMatches
            <4>2. /\ Append(blocks, data) \in Seq(Made)
                  /\ \A k \in 1 .. Len(Append(blocks, data)) :
                         Append(blocks, data)[k].count = Len(Append(blocks, data)[k].txs)
                BY <2>0, <4>1, StoreBlock
            <4>3. blocks' \in Seq(Made) /\ CountMatches'
                BY <3>3, <4>2 DEF CountMatches
            <4> QED
                BY <2>0, <2>e, <3>1, <4>3 DEF QueueInv, BufferFits, Made
        <3> QED
            BY <3>1, <3>2, <3>3
    <2>4. CASE Restart
        <3>1. queue' = <<>> /\ txCount' = 0 /\ txIdx' = 0 /\ data' = NoBlock /\ blocks' = blocks
            BY <2>4 DEF Restart
        <3>2. CountMatches'
            BY <2>0, <3>1 DEF CountMatches
        <3> QED
            BY <2>0, <2>e, <3>1, <3>2, TxQueueAssumption DEF QueueInv, BufferFits, Made
    <2>5. CASE \E t \in Tx : tooLarge(t) \/ checkCount(t) \/ noRoom(t) \/ awake(t)
        BY <2>b, <2>5 DEF tooLarge, checkCount, noRoom, awake
    <2>6. CASE late \/ inTime \/ newSignal \/ closeSignal
        BY <2>a, <2>6 DEF late, inTime, setRate, newSignal, closeSignal
    <2>7. CASE UNCHANGED vars
        BY <2>b, <2>7 DEF vars
    <2> QED
        BY <2>1, <2>2, <2>3, <2>4, <2>5, <2>6, <2>7 DEF Next, AddTransaction, genBlocks
<1> QED
    BY <1>1, <1>2, PTL DEF Spec

\* Every stored block says how many transactions it has, so TxIterator reads exactly
\* the data that AddTransaction wrote.
THEOREM CountsMatch == Spec => []CountMatches
<1>1. QueueInv => CountMatches
    BY DEF QueueInv
<1> QED
    BY <1>1, QueueInvariant, PTL

\* AddTransaction never writes beyond the end of s.txData.
THEOREM WritesFit == Spec => []BufferFits
<1>1. QueueInv => BufferFits
    BY DEF QueueInv
<1> QED
    BY <1>1, QueueInvariant, PTL
=============================================================================
