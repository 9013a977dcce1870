--------------------------- MODULE DeliveryProofs ---------------------------
(***************************************************************************)
(* Proofs about Delivery, for any set of nodes, any number of rounds, blocks  *)
(* and crashes: DeliveryInv is inductive, and the safety properties follow.   *)
(***************************************************************************)
EXTENDS Delivery, SequenceTheorems, TLAPS

USE DeliveryAssumption

\* The own blocks that are left after some were dropped.
LEMMA Suffix ==
    ASSUME NEW S, NEW s \in Seq(S), NEW d \in 0 .. Len(s)
    PROVE  /\ SubSeq(s, d + 1, Len(s)) \in Seq(S)
           /\ Len(SubSeq(s, d + 1, Len(s))) = Len(s) - d
           /\ \A k \in 1 .. Len(s) - d : SubSeq(s, d + 1, Len(s))[k] = s[d + k]
<1>1. /\ d + 1 \in Int /\ Len(s) \in Int
      /\ \A k \in d + 1 .. Len(s) : s[k] \in S
  BY ElementOfSeq
<1>2. /\ SubSeq(s, d + 1, Len(s)) \in Seq(S)
      /\ Len(SubSeq(s, d + 1, Len(s))) = IF d + 1 <= Len(s) THEN Len(s) - (d + 1) + 1 ELSE 0
      /\ \A k \in 1 .. Len(s) - (d + 1) + 1 : SubSeq(s, d + 1, Len(s))[k] = s[d + 1 + k - 1]
  BY <1>1, SubSeqProperties
<1> QED
  BY <1>2

\* What is known of the own blocks in the graph.
LEMMA BlocksKnown ==
    ASSUME DeliveryInv
    PROVE  /\ blocks \in Seq(OwnBlock)
           /\ Len(blocks) \in Nat
           /\ blocks = <<>> <=> Len(blocks) = 0
           /\ \A k \in 1 .. Len(blocks) :
                 /\ blocks[k] \in OwnBlock
                 /\ blocks[k].round \in 1 .. MaxBlocks /\ blocks[k].max \in Nat
                 /\ blocks[k].round = Oldest + k - 1
                 /\ maxes[blocks[k].round] = blocks[k].max
           /\ next \in 1 .. MaxBlocks + 1
           /\ Oldest \in Nat /\ Oldest > 0 /\ Oldest <= next
           /\ next = Oldest + Len(blocks)
           /\ blocks # <<>> => Oldest = blocks[1].round
<1>1. blocks \in Seq(OwnBlock) /\ next \in 1 .. MaxBlocks + 1 /\ Retention
  BY DEF DeliveryInv, TypeOK
<1>2. /\ Len(blocks) \in Nat
      /\ blocks = <<>> <=> Len(blocks) = 0
      /\ \A k \in 1 .. Len(blocks) : blocks[k] \in OwnBlock
  BY <1>1, EmptySeq, ElementOfSeq, LenProperties
<1>3. \A k \in 1 .. Len(blocks) : blocks[k].round \in 1 .. MaxBlocks /\ blocks[k].max \in Nat
  BY <1>2 DEF OwnBlock
<1>4. Oldest \in Nat /\ Oldest > 0 /\ (blocks # <<>> => Oldest = blocks[1].round)
  BY <1>1, <1>2, <1>3 DEF Oldest
<1> QED
  BY <1>1, <1>2, <1>3, <1>4 DEF Retention

\* The part of the type invariant that arithmetic needs.
Counters ==
    /\ last \in Nat /\ ack \in Nat /\ cur \in Nat /\ interpreted \in Nat /\ round \in Nat
    /\ i \in Nat /\ latest \in Nat /\ base \in Nat /\ Len(heard) \in Nat
    /\ pc \in {"run", "save", "lock", "call", "ack", "next"}
    /\ reg \in {"none", "call", "ack", "done"}

LEMMA CountersKnown ==
    ASSUME DeliveryInv
    PROVE  Counters
  BY LenProperties DEF DeliveryInv, TypeOK, Counters

\* A hand-over to the application keeps the order when it is the next round.
LEMMA PublishNext ==
    ASSUME NEW r \in Nat, TypeOK, InOrder, Publish(r), r = base + Len(heard) + 1,
           base' = base
    PROVE  heard' \in Seq(Nat) /\ Len(heard') = Len(heard) + 1 /\ InOrder'
<1>1. /\ heard' \in Seq(Nat)
      /\ Len(heard') = Len(heard) + 1
      /\ \A k \in 1 .. Len(heard) : heard'[k] = heard[k]
      /\ heard'[Len(heard) + 1] = r
  BY AppendProperties DEF TypeOK, Publish
<1>2. Len(heard) \in Nat /\ base \in Nat /\ \A k \in 1 .. Len(heard) : heard[k] = base + k
  BY LenProperties DEF InOrder, TypeOK
<1>3. ASSUME NEW k \in 1 .. Len(heard')
      PROVE  heard'[k] = base' + k
  <2>1. CASE k = Len(heard) + 1
    BY <1>1, <1>2, <2>1
  <2>2. CASE k # Len(heard) + 1
    <3>1. k \in 1 .. Len(heard)
      BY <1>1, <1>2, <2>2
    <3> QED
      BY <1>1, <1>2, <3>1
  <2> QED
    BY <2>1, <2>2
<1> QED
  BY <1>1, <1>3 DEF InOrder

LEMMA InitInv == Init => DeliveryInv
<1> SUFFICES ASSUME Init PROVE DeliveryInv
  OBVIOUS
<1>1. TypeOK
  BY DEF Init, TypeOK, OwnBlock
<1>2. Progress
  BY DEF Init, Progress
<1>3. InOrder /\ Retention /\ ConsumedIsDone
  BY DEF Init, InOrder, Retention, ConsumedIsDone, Oldest
<1> QED
  BY <1>1, <1>2, <1>3 DEF DeliveryInv

\* A new own block.
LEMMA RunStep ==
    ASSUME DeliveryInv, NEW max \in 1 .. MaxMax, run(max)
    PROVE  DeliveryInv'
<1> DEFINE b == [round |-> next, max |-> max]
<1> USE DEF DeliveryInv
<1>1. b \in OwnBlock /\ blocks \in Seq(OwnBlock) /\ blocks' = Append(blocks, b)
  BY DEF run, OwnBlock, TypeOK
<1>2. /\ blocks' \in Seq(OwnBlock)
      /\ blocks' # <<>>
      /\ Len(blocks') = Len(blocks) + 1
      /\ \A k \in 1 .. Len(blocks) : blocks'[k] = blocks[k]
      /\ blocks'[Len(blocks) + 1] = b
  <2> HIDE DEF b
  <2> QED
    BY <1>1, AppendProperties
<1>3. b.round = next /\ b.max = max
  OBVIOUS
<1> HIDE DEF b
<1>4. /\ maxes' \in [1 .. MaxBlocks -> Nat]
      /\ maxes'[next] = max
      /\ \A k \in 1 .. MaxBlocks : k # next => maxes'[k] = maxes[k]
  BY DEF run, TypeOK
<1>5. TypeOK'
  BY <1>2, <1>4 DEF run, TypeOK, store, routine, register
<1>6. Progress' /\ InOrder'
  BY DEF run, Progress, InOrder, store, routine, register
<1>7. next \in 1 .. MaxBlocks /\ next' = next + 1
  BY DEF run, TypeOK
<1>8. Oldest' = Oldest
  BY <1>2, <1>3, BlocksKnown DEF Oldest
<1>9. /\ \A k \in 1 .. Len(blocks') : blocks'[k].round = Oldest' + k - 1
      /\ next' = Oldest' + Len(blocks')
  <2>1. /\ Len(blocks) \in Nat /\ Oldest \in Nat /\ next = Oldest + Len(blocks)
        /\ \A k \in 1 .. Len(blocks) : blocks[k].round = Oldest + k - 1
    BY BlocksKnown
  <2>2. next' = Oldest' + Len(blocks')
    BY <2>1, <1>2, <1>7, <1>8
  <2>3. ASSUME NEW k \in 1 .. Len(blocks')
        PROVE  blocks'[k].round = Oldest' + k - 1
    <3>1. CASE k = Len(blocks) + 1
      <4>1. blocks'[k].round = next /\ next = Oldest' + k - 1
        BY <3>1, <2>1, <1>2, <1>3, <1>8
      <4> QED
        BY <4>1
    <3>2. CASE k # Len(blocks) + 1
      <4>1. k \in 1 .. Len(blocks)
        BY <3>2, <2>1, <1>2
      <4> QED
        BY <4>1, <2>1, <1>2, <1>8
    <3> QED
      BY <3>1, <3>2
  <2> QED
    BY <2>2, <2>3
<1>10. \A k \in 1 .. Len(blocks') : maxes'[blocks'[k].round] = blocks'[k].max
  <2> SUFFICES ASSUME NEW k \in 1 .. Len(blocks')
               PROVE  maxes'[blocks'[k].round] = blocks'[k].max
    OBVIOUS
  <2>1. CASE k = Len(blocks) + 1
    BY <2>1, <1>2, <1>3, <1>4
  <2>2. CASE k \in 1 .. Len(blocks)
    <3>1. blocks[k].round \in 1 .. MaxBlocks /\ blocks[k].round # next
          /\ maxes[blocks[k].round] = blocks[k].max
      BY <2>2, BlocksKnown
    <3> QED
      BY <3>1, <2>2, <1>2, <1>4
  <2> QED
    BY <2>1, <2>2, <1>2, BlocksKnown
<1>11. /\ curMax' = blocks'[Len(blocks')].max
       /\ curMax <= curMax' \/ blocks = <<>>
  <2>1. curMax' = max /\ max >= Floor
    BY DEF run
  <2>2. Len(blocks') = Len(blocks) + 1 /\ blocks'[Len(blocks) + 1].max = max
    BY <1>2, <1>3
  <2>3. blocks # <<>> => curMax = blocks[Len(blocks)].max /\ curMax \in Nat /\ Floor = curMax
    BY DEF Retention, Floor, TypeOK
  <2> QED
    BY <2>1, <2>2, <2>3
<1>12. ASSUME NEW r \in 1 .. MaxRound + 1, resolved'[r] # {}
       PROVE  round' <= r /\ r <= curMax' /\ r <= MaxRound
  <2>1. resolved' = resolved /\ round' = round /\ curMax' = max
    BY DEF run
  <2>2. round <= r /\ r <= curMax /\ r <= MaxRound
    BY <1>12, <2>1 DEF Retention
  <2>3. blocks # <<>>
    BY <2>2 DEF Retention, TypeOK
  <2> QED
    BY <2>1, <2>2, <2>3, <1>11 DEF TypeOK
<1>13. consumed' <= Oldest' /\ pc' # "save" /\ \A k \in 1 .. MaxBlocks : k < Oldest' => maxes'[k] < round'
  <2>1. consumed' = consumed /\ round' = round /\ pc' = "run"
    BY DEF run, store, routine
  <2>2. Oldest <= next /\ Oldest \in Nat
    BY BlocksKnown
  <2>3. consumed <= Oldest /\ \A k \in 1 .. MaxBlocks : k < Oldest => maxes[k] < round
    BY DEF Retention
  <2> QED
    BY <2>1, <2>2, <2>3, <1>4, <1>7, <1>8
<1>14. Retention'
  BY <1>2, <1>9, <1>10, <1>11, <1>12, <1>13 DEF Retention
<1>15. ConsumedIsDone'
  <2>1. consumed' = consumed /\ last' = last /\ consumed \in Nat /\ consumed <= next
    <3>1. consumed' = consumed /\ last' = last /\ consumed \in Nat /\ consumed <= Oldest
      BY DEF run, store, Retention, TypeOK
    <3>2. Oldest \in Nat /\ Oldest <= next /\ next \in Nat
      BY BlocksKnown
    <3> QED
      BY <3>1, <3>2
  <2> QED
    BY <2>1, <1>4, <1>7 DEF ConsumedIsDone
<1> QED
  BY <1>5, <1>6, <1>14, <1>15

\* A complete round is taken out of the graph.
LEMMA RoundStep ==
    ASSUME DeliveryInv, NEW res \in [1 .. MaxRound + 1 -> SUBSET Node],
           \A r \in 1 .. MaxRound + 1 : res[r] # {} => round <= r /\ r <= curMax /\ r <= MaxRound,
           pc \in {"run", "next"}, round <= MaxRound, deliverRound(res),
           UNCHANGED <<store, next, curMax, maxes, interpreted, register, base, heard, crashes>>
    PROVE  DeliveryInv'
<1> USE DEF DeliveryInv
<1>1. PICK idx \in 0 .. Len(blocks) :
        /\ blocks # <<>>
        /\ \A k \in 1 .. idx : Consumable(blocks[k], round)
        /\ idx < Len(blocks) => ~ Consumable(blocks[idx + 1], round)
        /\ resolved' = [res EXCEPT ![round] = {}]
        /\ eaten' = blocks[1].round - 1 + idx
        /\ blocks' = SubSeq(blocks, idx + 1, Len(blocks))
        /\ cur' = round
        /\ round' = round + 1
        /\ pc' = "save"
  BY DEF deliverRound
<1>2. /\ blocks' \in Seq(OwnBlock)
      /\ Len(blocks') = Len(blocks) - idx
      /\ \A k \in 1 .. Len(blocks) - idx : blocks'[k] = blocks[idx + k]
  BY <1>1, Suffix DEF TypeOK
<1>3. Len(blocks) \in Nat /\ Len(blocks) > 0 /\ idx \in Nat /\ idx <= Len(blocks)
  BY <1>1, BlocksKnown
<1>4. blocks' = <<>> <=> idx = Len(blocks)
  BY <1>2, <1>3, EmptySeq
<1>5. /\ Oldest = blocks[1].round /\ Oldest \in Nat /\ Oldest > 0
      /\ next = Oldest + Len(blocks) /\ next' = next
      /\ \A k \in 1 .. Len(blocks) :
            blocks[k].round = Oldest + k - 1 /\ maxes[blocks[k].round] = blocks[k].max
  BY <1>1, <1>3, BlocksKnown
<1>6. Oldest' = Oldest + idx
  <2>1. CASE idx = Len(blocks)
    BY <2>1, <1>4, <1>5 DEF Oldest
  <2>2. CASE idx # Len(blocks)
    <3>1. blocks' # <<>> /\ blocks'[1] = blocks[idx + 1] /\ idx + 1 \in 1 .. Len(blocks)
      BY <2>2, <1>2, <1>3, <1>4
    <3>2. blocks[idx + 1].round = Oldest + (idx + 1) - 1
      BY <3>1, <1>5
    <3>3. Oldest' = blocks'[1].round
      BY <3>1 DEF Oldest
    <3> QED
      BY <3>1, <3>2, <3>3, <1>3, <1>5
  <2> QED
    BY <2>1, <2>2
<1>7. TypeOK'
  <2>1. resolved' \in [1 .. MaxRound + 1 -> SUBSET Node] /\ eaten' \in Nat
        /\ cur' \in Nat /\ round' \in 1 .. MaxRound + 1
    <3>1. /\ Oldest \in Nat /\ Oldest > 0 /\ idx \in Nat /\ eaten' = Oldest - 1 + idx
          /\ round \in 1 .. MaxRound + 1 /\ round <= MaxRound /\ cur' = round /\ round' = round + 1
      BY <1>1, <1>3, <1>5 DEF TypeOK
    <3>2. resolved' \in [1 .. MaxRound + 1 -> SUBSET Node]
      BY <1>1
    <3> QED
      BY <3>1, <3>2
  <2> QED
    BY <2>1, <1>1, <1>2 DEF TypeOK, store, register
<1>8. Progress' /\ InOrder'
  BY <1>1 DEF Progress, InOrder, TypeOK, store, register
<1>9. /\ \A k \in 1 .. Len(blocks') : blocks'[k].round = Oldest' + k - 1
      /\ next' = Oldest' + Len(blocks')
  <2>1. ASSUME NEW k \in 1 .. Len(blocks')
        PROVE  blocks'[k].round = Oldest' + k - 1
    <3>1. k \in 1 .. Len(blocks) - idx /\ idx + k \in 1 .. Len(blocks)
      BY <1>2, <1>3
    <3>2. blocks'[k] = blocks[idx + k] /\ blocks[idx + k].round = Oldest + (idx + k) - 1
      BY <3>1, <1>2, <1>5
    <3>3. Oldest \in Nat /\ idx \in Nat /\ Oldest' = Oldest + idx
      BY <1>3, <1>5, <1>6
    <3>4. Oldest + (idx + k) - 1 = Oldest' + k - 1
      BY <3>3
    <3> QED
      BY <3>2, <3>4
  <2>2. next' = Oldest' + Len(blocks')
    <3>1. /\ Oldest \in Nat /\ idx \in Nat /\ Len(blocks) \in Nat /\ Oldest' = Oldest + idx
          /\ Len(blocks') = Len(blocks) - idx /\ next' = Oldest + Len(blocks)
      BY <1>2, <1>3, <1>5, <1>6
    <3> QED
      BY <3>1
  <2> QED
    BY <2>1, <2>2
<1>10. \A k \in 1 .. Len(blocks') : maxes'[blocks'[k].round] = blocks'[k].max
  BY <1>2, <1>3 DEF Retention
<1>11. IF blocks' = <<>> THEN curMax' < round' ELSE curMax' = blocks'[Len(blocks')].max
  <2>1. curMax = blocks[Len(blocks)].max /\ curMax' = curMax /\ curMax \in Nat /\ round \in Nat
    BY <1>1 DEF Retention, TypeOK
  <2>2. CASE idx = Len(blocks)
    <3>1. Consumable(blocks[Len(blocks)], round) /\ blocks' = <<>> /\ round' = round + 1
      BY <2>2, <1>1, <1>3, <1>4
    <3> QED
      BY <2>1, <3>1 DEF Consumable
  <2>3. CASE idx # Len(blocks)
    <3>1. blocks' # <<>> /\ blocks'[Len(blocks')] = blocks[Len(blocks)]
      BY <2>3, <1>2, <1>3, <1>4
    <3> QED
      BY <2>1, <3>1
  <2> QED
    BY <2>2, <2>3
<1>12. \A r \in 1 .. MaxRound + 1 : resolved'[r] # {} => round' <= r /\ r <= curMax' /\ r <= MaxRound
  BY <1>1 DEF TypeOK
<1>13. consumed' <= Oldest' /\ (pc' = "save" => eaten' < Oldest')
  <2>1. consumed' = consumed /\ consumed <= Oldest /\ consumed \in Nat
    BY DEF Retention, TypeOK, store
  <2>2. /\ Oldest \in Nat /\ idx \in Nat /\ Oldest' = Oldest + idx
        /\ eaten' = Oldest - 1 + idx
    BY <1>1, <1>3, <1>5, <1>6
  <2> QED
    BY <2>1, <2>2
<1>14. ASSUME NEW k \in 1 .. MaxBlocks, k < Oldest'
       PROVE  maxes'[k] < round'
  <2>1. CASE k < Oldest
    <3>1. maxes' = maxes /\ round' = round + 1 /\ maxes[k] \in Nat /\ round \in Nat
      BY <1>1 DEF TypeOK
    <3>2. maxes[k] < round
      BY <2>1 DEF Retention
    <3> QED
      BY <3>1, <3>2
  <2>2. CASE ~ (k < Oldest)
    <3> DEFINE j == k - Oldest + 1
    <3>1. j \in 1 .. idx /\ j \in 1 .. Len(blocks) /\ blocks[j].round = k
      <4>1. j \in 1 .. idx /\ j \in 1 .. Len(blocks) /\ Oldest + j - 1 = k
        <5>1. /\ Oldest \in Nat /\ idx \in Nat /\ Oldest' = Oldest + idx
              /\ Len(blocks) \in Nat /\ idx <= Len(blocks)
          BY <1>3, <1>5, <1>6
        <5> QED
          BY <5>1, <2>2, <1>14
      <4> QED
        BY <4>1, <1>5
    <3>2. blocks[j].max <= round /\ maxes[k] = blocks[j].max
      BY <3>1, <1>1, <1>5 DEF Consumable
    <3>3. maxes' = maxes /\ round' = round + 1 /\ maxes[k] \in Nat /\ round \in Nat
      BY <1>1 DEF TypeOK
    <3> QED
      BY <3>2, <3>3
  <2> QED
    BY <2>1, <2>2
<1>15. Retention'
  BY <1>9, <1>10, <1>11, <1>12, <1>13, <1>14 DEF Retention
<1>16. ConsumedIsDone'
  BY DEF ConsumedIsDone, store
<1> QED
  BY <1>7, <1>8, <1>15, <1>16

\* A decision, which completes the current round or not.
LEMMA DeliverStep ==
    ASSUME DeliveryInv, NEW n \in Node, NEW r \in Round, deliver(n, r)
    PROVE  DeliveryInv'
<1> USE DEF DeliveryInv
<1> DEFINE res == [resolved EXCEPT ![r] = @ \cup {n}]
<1>1. /\ res \in [1 .. MaxRound + 1 -> SUBSET Node]
      /\ \A q \in 1 .. MaxRound + 1 : res[q] # {} => round <= q /\ q <= curMax /\ q <= MaxRound
  BY DEF TypeOK, Retention, deliver, Round
<1>2. CASE r = round /\ res[r] = Node /\ deliverRound(res)
  <2>1. pc \in {"run", "next"} /\ round <= MaxRound
        /\ UNCHANGED <<store, next, curMax, maxes, interpreted, register, base, heard, crashes>>
    BY <1>2 DEF deliver, Round
  <2> HIDE DEF res
  <2> QED
    BY <2>1, <1>1, <1>2, RoundStep
<1>3. CASE resolved' = res /\ UNCHANGED <<round, blocks, routine>>
  <2> HIDE DEF res
  <2>1. UNCHANGED <<store, next, curMax, maxes, interpreted, register, base, heard, crashes>>
    BY DEF deliver
  <2>2. TypeOK'
    BY <2>1, <1>1, <1>3 DEF TypeOK, store, routine, register
  <2>3. Progress' /\ InOrder' /\ ConsumedIsDone'
    BY <2>1, <1>3 DEF Progress, InOrder, ConsumedIsDone, store, routine, register
  <2>4. Retention'
    BY <2>1, <1>1, <1>3 DEF Retention, Oldest, store, routine
  <2> QED
    BY <2>2, <2>3, <2>4
<1> QED
  BY <1>2, <1>3 DEF deliver

\* The recursive call of deliverRound.
LEMMA DeliverNextStep ==
    ASSUME DeliveryInv, deliverNext
    PROVE  DeliveryInv'
<1> USE DEF DeliveryInv
<1>1. CASE NextDecided /\ deliverRound(resolved)
  <2>1. /\ resolved \in [1 .. MaxRound + 1 -> SUBSET Node]
        /\ \A q \in 1 .. MaxRound + 1 : resolved[q] # {} => round <= q /\ q <= curMax /\ q <= MaxRound
    BY DEF TypeOK, Retention
  <2>2. pc \in {"run", "next"} /\ round <= MaxRound
        /\ UNCHANGED <<store, next, curMax, maxes, interpreted, register, base, heard, crashes>>
    BY <1>1, <2>1 DEF deliverNext, NextDecided, TypeOK
  <2> QED
    BY <2>1, <2>2, <1>1, RoundStep
<1>2. CASE pc' = "run" /\ UNCHANGED <<resolved, round, blocks, cur, eaten>>
  <2>1. TypeOK'
    BY <1>2 DEF deliverNext, TypeOK, store, register
  <2>2. Progress' /\ InOrder' /\ ConsumedIsDone'
    BY <1>2 DEF deliverNext, Progress, InOrder, ConsumedIsDone, store, register
  <2>3. Retention'
    BY <1>2 DEF deliverNext, Retention, Oldest, store
  <2> QED
    BY <2>1, <2>2, <2>3
<1> QED
  BY <1>1, <1>2 DEF deliverNext

\* The steps of blockmaniaCallback and of the application's callback.
LEMMA CallbackStep ==
    ASSUME DeliveryInv,
           setInterpreted \/ callback \/ callbackPublish \/ callbackAcknowledge
    PROVE  DeliveryInv'
<1>c. Counters /\ Progress
  BY CountersKnown DEF DeliveryInv
<1> USE DEF DeliveryInv
<1>1. CASE setInterpreted
  <2>1. TypeOK'
    BY <1>1 DEF setInterpreted, TypeOK, graph, register
  <2>2. lists' = 1 .. last'
    BY <1>1 DEF setInterpreted, Progress, TypeOK
  <2>20. Progress' /\ InOrder'
    <3>1. Progress'
      <4>1. /\ pc = "save" /\ pc' = "lock" /\ last' = cur
            /\ UNCHANGED <<ack, round, cur, interpreted, reg, i, latest, base, heard>>
        BY <1>1 DEF setInterpreted, graph, register
      <4>2. cur = last + 1 /\ last \in Nat /\ round = last + 2
        BY <1>c, <4>1 DEF Progress, Counters
      <4> QED
        BY <4>1, <4>2, <2>2, <1>c DEF Progress, Counters
    <3>2. InOrder'
      BY <1>1 DEF setInterpreted, InOrder
    <3> QED
      BY <3>1, <3>2
  <2>3. Oldest' = Oldest /\ Oldest \in Nat
    BY <1>1, BlocksKnown DEF setInterpreted, Oldest, graph
  <2>4. Retention'
    <3>1. consumed' = eaten /\ eaten < Oldest /\ eaten \in Nat /\ pc' = "lock" /\ UNCHANGED graph
      BY <1>1 DEF setInterpreted, Retention, TypeOK
    <3>2. consumed' <= Oldest'
      BY <3>1, <2>3
    <3> QED
      BY <3>1, <3>2, <2>3 DEF Retention, graph
  <2>5. ConsumedIsDone'
    <3>1. /\ consumed' = eaten /\ eaten < Oldest /\ eaten \in Nat
          /\ last' = cur /\ round = cur + 1 /\ cur \in Nat
      <4>1. eaten < Oldest /\ eaten \in Nat
        BY <1>1 DEF setInterpreted, Retention, TypeOK
      <4>2. round = cur + 1 /\ cur \in Nat
        BY <1>1, CountersKnown DEF setInterpreted, Progress, Counters
      <4> QED
        BY <4>1, <4>2, <1>1 DEF setInterpreted
    <3>2. /\ maxes' = maxes /\ maxes \in [1 .. MaxBlocks -> Nat]
          /\ \A k \in 1 .. MaxBlocks : k < Oldest => maxes[k] < round
      BY <1>1 DEF setInterpreted, Retention, TypeOK, graph
    <3>3. ASSUME NEW k \in 1 .. MaxBlocks, k < consumed'
          PROVE  maxes'[k] <= last'
      <4>1. k < Oldest
        BY <3>1, <3>3, <2>3
      <4>2. maxes[k] < round /\ maxes[k] \in Nat
        BY <4>1, <3>2
      <4> QED
        BY <4>2, <3>1, <3>2
    <3> QED
      BY <3>3 DEF ConsumedIsDone
  <2> QED
    BY <2>1, <2>20, <2>4, <2>5
<1>2. CASE callback
  <2>1. TypeOK'
    BY <1>2 DEF callback, TypeOK, store, graph, register
  <2>2. Progress' /\ InOrder'
    <3>1. Progress'
      BY <1>2, <1>c DEF callback, Progress, Counters, store, graph, register
    <3>2. InOrder'
      BY <1>2 DEF callback, InOrder
    <3> QED
      BY <3>1, <3>2
  <2>3. Retention' /\ ConsumedIsDone'
    BY <1>2 DEF callback, Retention, ConsumedIsDone, Oldest, store, graph
  <2> QED
    BY <2>1, <2>2, <2>3
<1>3. CASE callbackPublish
  <2>1. cur = base + Len(heard) + 1 /\ base' = base /\ cur \in Nat /\ Publish(cur)
    BY <1>3 DEF callbackPublish, Progress, TypeOK
  <2>2. heard' \in Seq(Nat) /\ Len(heard') = Len(heard) + 1 /\ InOrder'
    BY <2>1, PublishNext
  <2>3. TypeOK'
    BY <1>3, <2>2 DEF callbackPublish, TypeOK, store, graph, register
  <2>4. Progress'
    <3>1. /\ pc = "call" /\ pc' = "ack"
          /\ UNCHANGED <<last, lists, ack, round, cur, interpreted, reg, i, latest, base>>
      BY <1>3 DEF callbackPublish, store, graph, register
    <3> QED
      BY <3>1, <2>2, <1>c DEF Progress, Counters
  <2>5. Retention' /\ ConsumedIsDone'
    BY <1>3 DEF callbackPublish, Retention, ConsumedIsDone, Oldest, store, graph
  <2> QED
    BY <2>2, <2>3, <2>4, <2>5
<1>4. CASE callbackAcknowledge
  <2>1. TypeOK'
    BY <1>4 DEF callbackAcknowledge, Acknowledge, TypeOK, graph, register
  <2>2. Progress' /\ InOrder'
    <3>1. Progress'
      BY <1>4, <1>c DEF callbackAcknowledge, Progress, Counters, Acknowledge, graph, register
    <3>2. InOrder'
      BY <1>4 DEF callbackAcknowledge, InOrder
    <3> QED
      BY <3>1, <3>2
  <2>3. Retention' /\ ConsumedIsDone'
    BY <1>4 DEF callbackAcknowledge, Retention, ConsumedIsDone, Oldest, graph
  <2> QED
    BY <2>1, <2>2, <2>3
<1> QED
  BY <1>1, <1>2, <1>3, <1>4

\* The steps of Register.
LEMMA RegisterStep ==
    ASSUME DeliveryInv, Registering
    PROVE  DeliveryInv'
<1>c. Counters /\ Progress
  BY CountersKnown DEF DeliveryInv
<1> USE DEF DeliveryInv
<1>0. Len(heard) \in Nat /\ (heard = <<>> => Len(heard) = 0)
  BY EmptySeq DEF TypeOK
<1>1. CASE Register
  <2>1. TypeOK'
    BY <1>1 DEF Register, Noted, TypeOK, store, graph, routine
  <2>2. Progress' /\ InOrder'
    <3>1. Progress'
      <4>1. /\ reg = "none" /\ i' = ack + 1 /\ latest' = interpreted
            /\ reg' = IF ack + 1 <= interpreted THEN "call" ELSE "done"
            /\ UNCHANGED <<last, lists, ack, round, pc, cur, interpreted, base, heard>>
        BY <1>1 DEF Register, Noted, store, graph, routine
      <4> QED
        BY <4>1, <1>0, <1>c DEF Progress, Counters
    <3>2. InOrder'
      BY <1>0, <1>1 DEF Register, InOrder
    <3> QED
      BY <3>1, <3>2
  <2>3. Retention' /\ ConsumedIsDone'
    BY <1>1 DEF Register, Retention, ConsumedIsDone, Oldest, store, graph, routine
  <2> QED
    BY <2>1, <2>2, <2>3
<1>2. CASE registerPublish
  <2>1. i = base + Len(heard) + 1 /\ base' = base /\ i \in Nat /\ Publish(i)
    BY <1>2 DEF registerPublish, Progress, TypeOK
  <2>2. heard' \in Seq(Nat) /\ Len(heard') = Len(heard) + 1 /\ InOrder'
    BY <2>1, PublishNext
  <2>3. TypeOK'
    BY <1>2, <2>2 DEF registerPublish, TypeOK, store, graph, routine
  <2>4. Progress'
    <3>1. /\ reg = "call" /\ reg' = "ack"
          /\ UNCHANGED <<last, lists, ack, round, pc, cur, interpreted, i, latest, base>>
      BY <1>2 DEF registerPublish, store, graph, routine
    <3> QED
      BY <3>1, <2>2, <1>c DEF Progress, Counters
  <2>5. Retention' /\ ConsumedIsDone'
    BY <1>2 DEF registerPublish, Retention, ConsumedIsDone, Oldest, store, graph, routine
  <2> QED
    BY <2>2, <2>3, <2>4, <2>5
<1>3. CASE registerAcknowledge
  <2>1. TypeOK'
    BY <1>3 DEF registerAcknowledge, Acknowledge, TypeOK, graph, routine
  <2>2. Progress' /\ InOrder'
    <3>1. Progress'
      BY <1>0, <1>3, <1>c DEF registerAcknowledge, Progress, Counters, Acknowledge, graph, routine
    <3>2. InOrder'
      BY <1>0, <1>3 DEF registerAcknowledge, InOrder
    <3> QED
      BY <3>1, <3>2
  <2>3. Retention' /\ ConsumedIsDone'
    BY <1>3 DEF registerAcknowledge, Retention, ConsumedIsDone, Oldest, graph, routine
  <2> QED
    BY <2>1, <2>2, <2>3
<1> QED
  BY <1>1, <1>2, <1>3 DEF Registering

\* A restart.
LEMMA RestartStep ==
    ASSUME DeliveryInv, Restart
    PROVE  DeliveryInv'
<1> USE DEF DeliveryInv
<1>1. Oldest \in Nat /\ Oldest <= next
  BY BlocksKnown
<1>2. consumed <= MaxBlocks + 1 /\ last <= MaxRound /\ ack <= last
  <2>1. consumed \in Nat /\ next <= MaxBlocks + 1 /\ next \in Nat /\ consumed <= Oldest
    BY DEF Retention, TypeOK
  <2>2. last \in Nat /\ ack \in Nat /\ interpreted \in Nat /\ round <= MaxRound + 1 /\ round \in Nat
    BY DEF TypeOK
  <2>3. /\ round = last + 1 \/ round = last + 2
        /\ ack <= last
    BY <2>2 DEF Progress
  <2> QED
    BY <2>1, <2>2, <2>3, <1>1
<1>3. TypeOK'
  BY <1>2 DEF Restart, getBlockGraphs, Resume, TypeOK, OwnBlock, store
<1>4. Progress' /\ InOrder'
  <2>1. heard' = <<>> /\ Len(heard') = 0
    BY DEF Restart, getBlockGraphs
  <2>2. Progress'
    BY <2>1, <1>2, CountersKnown DEF Restart, getBlockGraphs, Resume, Progress, Counters, store
  <2>3. InOrder'
    BY <2>1 DEF InOrder
  <2> QED
    BY <2>2, <2>3
<1>5. Oldest' = (IF consumed = 0 THEN 1 ELSE consumed) /\ blocks' = <<>> /\ Len(blocks') = 0
  BY DEF Restart, getBlockGraphs, Oldest
<1>6. Retention'
  BY <1>2, <1>5 DEF Restart, getBlockGraphs, Resume, Retention, ConsumedIsDone, TypeOK, store
<1>7. ConsumedIsDone'
  BY DEF Restart, getBlockGraphs, ConsumedIsDone, store
<1> QED
  BY <1>3, <1>4, <1>6, <1>7

LEMMA NextInv == DeliveryInv /\ [Next]_vars => DeliveryInv'
<1> SUFFICES ASSUME DeliveryInv, [Next]_vars PROVE DeliveryInv'
  OBVIOUS
<1>1. CASE \E max \in 1 .. MaxMax : run(max)
  BY <1>1, RunStep
<1>2. CASE \E n \in Node, r \in Round : deliver(n, r)
  BY <1>2, DeliverStep
<1>3. CASE Graph
  BY <1>3, DeliverNextStep, CallbackStep DEF Graph
<1>4. CASE Registering
  BY <1>4, RegisterStep
<1>5. CASE Restart
  BY <1>5, RestartStep
<1>6. CASE UNCHANGED vars
  <2> USE <1>6 DEF vars, store, graph, routine, register, DeliveryInv
  <2>1. TypeOK'
    BY DEF TypeOK
  <2>2. Progress'
    BY DEF Progress
  <2>3. InOrder' /\ ConsumedIsDone'
    BY DEF InOrder, ConsumedIsDone
  <2>4. Retention'
    BY DEF Retention, Oldest
  <2> QED
    BY <2>1, <2>2, <2>3, <2>4
<1> QED
  BY <1>1, <1>2, <1>3, <1>4, <1>5, <1>6 DEF Next

\* DeliveryInv always holds: type correctness, how far the graph's goroutine and
\* Register are relative to the store, and what the graph retains.
THEOREM DeliveryInvariant == Spec => []DeliveryInv
  BY InitInv, NextInv, PTL DEF Spec

\* The application gets the rounds in order, without gaps or repetitions within a
\* life of the node, whoever hands them over (Register, blockmaniaCallback).
THEOREM RoundsInOrder == Spec => []InOrder
<1>1. DeliveryInv => InOrder
  BY DEF DeliveryInv
<1> QED
  BY <1>1, DeliveryInvariant, PTL

\* No round is acknowledged before the application got it (handleDeliver).
THEOREM NoRoundSkipped == Spec => []AcknowledgedIsHeard
<1>1. DeliveryInv => AcknowledgedIsHeard
  <2> SUFFICES ASSUME DeliveryInv PROVE AcknowledgedIsHeard
    OBVIOUS
  <2>1. Len(heard) \in Nat /\ (heard = <<>> => Len(heard) = 0)
    BY EmptySeq DEF DeliveryInv, TypeOK
  <2>2. ack \in Nat /\ base \in Nat /\ last \in Nat /\ reg \in {"none", "call", "ack", "done"} /\ Progress
    BY DEF DeliveryInv, TypeOK
  <2>3. base <= ack /\ ack <= base + Len(heard)
    BY <2>1, <2>2 DEF Progress
  <2> QED
    BY <2>1, <2>2, <2>3 DEF AcknowledgedIsHeard
<1> QED
  BY <1>1, DeliveryInvariant, PTL

\* Register never meets a round whose list is not in the store.
THEOREM ListsAreFound == Spec => []ListFound
<1>1. DeliveryInv => ListFound
  BY DEF DeliveryInv, Progress, TypeOK, ListFound
<1> QED
  BY <1>1, DeliveryInvariant, PTL

\* deliverRound never reads graph.blocks[0] of an empty slice.
THEOREM BlocksAreFound == Spec => []BlocksFound
<1>1. DeliveryInv => BlocksFound
  BY DEF DeliveryInv, Retention, TypeOK, BlocksFound
<1> QED
  BY <1>1, DeliveryInvariant, PTL

\* The own blocks a restart leaves out reach no round that is still to be decided.
THEOREM ConsumedAreDone == Spec => []ConsumedIsDone
<1>1. DeliveryInv => ConsumedIsDone
  BY DEF DeliveryInv
<1> QED
  BY <1>1, DeliveryInvariant, PTL
=============================================================================
