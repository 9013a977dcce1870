------------------------------ MODULE Delivery ------------------------------
(***************************************************************************)
(* How decided rounds reach the application: Graph.deliver and deliverRound  *)
(* of blockmania/graph.go, blockmaniaCallback, Register and Acknowledge of   *)
(* broadcast/broadcast.go, with what store.go keeps of them, and             *)
(* handleDeliver of txlistener.go.  The graph's goroutine collects the       *)
(* decisions of a round, saves the round and calls the application, while    *)
(* Register replays the rounds that were saved and not acknowledged.  The    *)
(* node may crash between any two of these steps.                            *)
(*                                                                         *)
(* Which slots are decided, and when, is Interpreter's subject: here any     *)
(* slot may be decided, in any order, once the graph got a block that is     *)
(* late enough.                                                             *)
(***************************************************************************)
EXTENDS Integers, Sequences

CONSTANTS
    Node,       \* graph.peers
    MaxRound,   \* bound: rounds that are decided
    MaxMax,     \* bound: the max of a block
    MaxBlocks,  \* bound: own blocks added to the graph
    MaxCrashes  \* bound: crashes

ASSUME DeliveryAssumption ==
    /\ Node # {}
    /\ MaxRound \in Nat /\ MaxMax \in Nat /\ MaxBlocks \in Nat /\ MaxCrashes \in Nat

VARIABLES
    last, consumed, \* store: the last interpreted round, and the own blocks it consumed
    lists,          \* store: the rounds whose list of blocks is saved
    ack,            \* store: the last acknowledged round
    resolved,       \* graph.resolved: the nodes whose slot of a round is decided
    round,          \* graph.round
    blocks,         \* graph.blocks: own blocks with their max
    next,           \* the round of the next own block that the graph gets
    curMax,         \* the max of the own block that the graph processes
    maxes,          \* history: the max each own block had, 0 before it has one
    pc, cur, eaten, \* the graph's goroutine, its Interpreted round and consumed
    interpreted,    \* s.interpreted
    reg, i, latest, \* Register
    base, heard,    \* history: ack at the start, and the rounds the application got since
    crashes

store == <<last, consumed, lists, ack>>
graph == <<resolved, round, blocks, next, curMax, maxes>>
routine == <<pc, cur, eaten>>
register == <<reg, i, latest>>
vars == <<store, graph, routine, interpreted, register, base, heard, crashes>>

Round == 1 .. MaxRound

Init ==
    /\ last = 0 /\ consumed = 0 /\ lists = {} /\ ack = 0
    /\ resolved = [r \in 1 .. MaxRound + 1 |-> {}]
    /\ round = 1 /\ blocks = <<>> /\ next = 1 /\ curMax = 0
    /\ maxes = [k \in 1 .. MaxBlocks |-> 0]
    /\ pc = "run" /\ cur = 0 /\ eaten = 0
    /\ interpreted = 0
    /\ reg = "none" /\ i = 0 /\ latest = 0
    /\ base = 0 /\ heard = <<>>
    /\ crashes = 0

-----------------------------------------------------------------------------
\* Graph.run takes the next own block.  Its max is at least its round, the rounds
\* of the blocks it brings in and the max of the own block before it, or graph.round
\* when that block is gone.
Floor ==
    IF blocks # <<>> THEN blocks[Len(blocks)].max ELSE IF next > 1 THEN round ELSE 1

run(max) ==
    /\ pc = "run"
    /\ next <= MaxBlocks
    /\ max >= next /\ max >= Floor
    /\ blocks' = Append(blocks, [round |-> next, max |-> max])
    /\ curMax' = max
    /\ maxes' = [maxes EXCEPT ![next] = max]
    /\ next' = next + 1
    /\ UNCHANGED <<store, resolved, round, routine, interpreted, register, base, heard, crashes>>

\* deliverRound: the round's decisions are removed, and with them the own blocks
\* before the first one whose max is later than the round.
ByRound(b, r) == b.round <= r
Consumable(b, r) == b.max <= r

deliverRound(res) ==
    \E idx \in 0 .. Len(blocks) :
        /\ blocks # <<>>
        /\ \A k \in 1 .. idx : Consumable(blocks[k], round)
        /\ idx < Len(blocks) => ~ Consumable(blocks[idx + 1], round)
        /\ resolved' = [res EXCEPT ![round] = {}]
        /\ eaten' = blocks[1].round - 1 + idx
        /\ blocks' = SubSeq(blocks, idx + 1, Len(blocks))
        /\ cur' = round
        /\ round' = round + 1
        /\ pc' = "save"

\* Graph.deliver, called while the graph processes an own block: a slot of a round
\* is decided only when blocks of that round are in.
deliver(n, r) ==
    /\ pc = "run"
    /\ r <= curMax
    /\ r >= round
    /\ LET res == [resolved EXCEPT ![r] = @ \cup {n}]
       IN  \/ /\ r = round
              /\ res[r] = Node
              /\ deliverRound(res)
           \/ /\ r # round \/ res[r] # Node
              /\ resolved' = res
              /\ UNCHANGED <<round, blocks, routine>>
    /\ UNCHANGED <<store, next, curMax, maxes, interpreted, register, base, heard, crashes>>

\* deliverRound goes on with the next round when that is decided too.
NoRound == FALSE
NextDecided == resolved[round] = Node

deliverNext ==
    /\ pc = "next"
    /\ \/ /\ NextDecided
          /\ deliverRound(resolved)
       \/ /\ ~ NextDecided
          /\ pc' = "run"
          /\ UNCHANGED <<resolved, round, blocks, cur, eaten>>
    /\ UNCHANGED <<store, next, curMax, maxes, interpreted, register, base, heard, crashes>>

-----------------------------------------------------------------------------
\* blockmaniaCallback: the round is saved in one transaction; then, under imu,
\* either it is noted for Register or, once Register is through, the application
\* is called.
setInterpreted ==
    /\ pc = "save"
    /\ last' = cur
    /\ consumed' = eaten
    /\ lists' = lists \cup {cur}
    /\ pc' = "lock"
    /\ UNCHANGED <<ack, graph, cur, eaten, interpreted, register, base, heard, crashes>>

callback ==
    /\ pc = "lock"
    /\ \/ /\ reg = "none"
          /\ interpreted' = cur
          /\ pc' = "next"
       \/ /\ reg = "done"
          /\ pc' = "call"
          /\ UNCHANGED interpreted
    /\ UNCHANGED <<store, graph, cur, eaten, register, base, heard, crashes>>

\* handleDeliver: the application gets the round, and the round is acknowledged.
Publish(r) == heard' = Append(heard, r)
AckLatest(r) == ack' = last
Acknowledge(r) == ack' = r

callbackPublish ==
    /\ pc = "call"
    /\ Publish(cur)
    /\ pc' = "ack"
    /\ UNCHANGED <<store, graph, cur, eaten, interpreted, register, base, crashes>>

callbackAcknowledge ==
    /\ pc = "ack"
    /\ Acknowledge(cur)
    /\ pc' = "next"
    /\ UNCHANGED <<last, consumed, lists, graph, cur, eaten, interpreted, register, base, heard, crashes>>

-----------------------------------------------------------------------------
\* Register, which holds imu until it has replayed the rounds that are saved and
\* not acknowledged.
LastSaved == last
Noted == interpreted

Register ==
    /\ reg = "none"
    /\ i' = ack + 1
    /\ latest' = Noted
    /\ reg' = IF ack + 1 <= Noted THEN "call" ELSE "done"
    /\ UNCHANGED <<store, graph, routine, interpreted, base, heard, crashes>>

registerPublish ==
    /\ reg = "call"
    /\ i \in lists
    /\ Publish(i)
    /\ reg' = "ack"
    /\ UNCHANGED <<store, graph, routine, interpreted, i, latest, base, crashes>>

registerAcknowledge ==
    /\ reg = "ack"
    /\ Acknowledge(i)
    /\ i' = i + 1
    /\ reg' = IF i + 1 <= latest THEN "call" ELSE "done"
    /\ UNCHANGED <<last, consumed, lists, graph, routine, interpreted, latest, base, heard, crashes>>

-----------------------------------------------------------------------------
\* replayGraphChanges: the first own block that the store has from a round on.
getBlockGraphs(from) == IF from = 0 THEN 1 ELSE from

\* The node stops anywhere and starts again: loadState makes a graph that goes on
\* after the last interpreted round, and replayGraphChanges gives it the own blocks
\* from the last consumed one on.
ResumeLate == last + 2
Resume == last + 1

Restart ==
    /\ crashes < MaxCrashes
    /\ crashes' = crashes + 1
    /\ resolved' = [r \in 1 .. MaxRound + 1 |-> {}]
    /\ round' = Resume
    /\ blocks' = <<>>
    /\ next' = getBlockGraphs(consumed)
    /\ curMax' = 0
    /\ pc' = "run" /\ cur' = 0 /\ eaten' = 0
    /\ interpreted' = last
    /\ reg' = "none" /\ i' = 0 /\ latest' = 0
    /\ base' = ack /\ heard' = <<>>
    /\ UNCHANGED <<store, maxes>>

Graph ==
    \/ deliverNext \/ setInterpreted \/ callback \/ callbackPublish \/ callbackAcknowledge
Registering == Register \/ registerPublish \/ registerAcknowledge

Next ==
    \/ \E max \in 1 .. MaxMax : run(max)
    \/ \E n \in Node, r \in Round : deliver(n, r)
    \/ Graph
    \/ Registering
    \/ Restart

Spec == Init /\ [][Next]_vars

\* The goroutines of the graph and of Register go on, the node goes on producing
\* blocks, and every slot is decided, at least once after a start.
FairSpec ==
    /\ Spec
    /\ WF_vars(\E max \in 1 .. MaxMax : run(max))
    /\ \A n \in Node, r \in Round : WF_vars(n \notin resolved[r] /\ deliver(n, r))
    /\ WF_vars(Graph)
    /\ WF_vars(Registering)

-----------------------------------------------------------------------------
OwnBlock == [round : 1 .. MaxBlocks, max : Nat \ {0}]

\* The variables have the types of the store's records and of the fields of Graph
\* and Service.
TypeOK ==
    /\ last \in Nat /\ consumed \in Nat /\ lists \subseteq Nat /\ ack \in Nat
    /\ resolved \in [1 .. MaxRound + 1 -> SUBSET Node]
    /\ round \in 1 .. MaxRound + 1 /\ blocks \in Seq(OwnBlock)
    /\ next \in 1 .. MaxBlocks + 1 /\ curMax \in Nat /\ maxes \in [1 .. MaxBlocks -> Nat]
    /\ pc \in {"run", "save", "lock", "call", "ack", "next"} /\ cur \in Nat /\ eaten \in Nat
    /\ interpreted \in Nat
    /\ reg \in {"none", "call", "ack", "done"} /\ i \in Nat /\ latest \in Nat
    /\ base \in Nat /\ heard \in Seq(Nat)
    /\ crashes \in Nat

\* The application gets the rounds one after the other, without a gap and without
\* a repetition, starting after the last one that was acknowledged when the node
\* started: whether a round comes from Register's replay or from the graph, and
\* however the two race (Register, blockmaniaCallback).
InOrder ==
    \A k \in 1 .. Len(heard) : heard[k] = base + k

\* A round is acknowledged only after the application got it: a crash never makes
\* the node skip a round (handleDeliver, Acknowledge).
AcknowledgedIsHeard ==
    ack \in base .. base + Len(heard)

\* Register finds the list of every round it replays (the log.Fatal on getInterpreted).
ListFound ==
    reg = "call" => i \in lists

\* When a round is complete, deliverRound finds an own block to read graph.blocks[0]
\* of, also when several rounds are delivered in a row and drop blocks.
BlocksFound ==
    pc \in {"run", "next"} /\ (round <= curMax \/ resolved[round] # {}) => blocks # <<>>

\* A restart gives the graph every own block that reaches past the last interpreted
\* round: an own block is counted as consumed only when it does not.
ConsumedIsDone ==
    \A k \in 1 .. MaxBlocks : k < consumed => maxes[k] <= last

\* Every round that is decided is delivered to the application and acknowledged:
\* Register and the graph's goroutine never block each other for good on imu.
EveryRoundAcknowledged == <>(ack = MaxRound)

-----------------------------------------------------------------------------
\* The round of the oldest own block the graph still has, or will have.
Oldest == IF blocks = <<>> THEN next ELSE blocks[1].round

\* How far each party is, by where the graph's goroutine and Register are.
Progress ==
    /\ lists = 1 .. last
    /\ round = IF pc = "save" THEN last + 2 ELSE last + 1
    /\ pc = "save" => cur = last + 1
    /\ pc \in {"lock", "call", "ack"} => cur = last /\ last > 0
    /\ pc \in {"call", "ack"} => reg = "done"
    /\ reg # "done" => interpreted = IF pc = "lock" THEN last - 1 ELSE last
    /\ ack <= interpreted \/ reg = "done"
    /\ base <= ack
    /\ reg = "none" => heard = <<>> /\ ack = base
    /\ reg = "call" => i = base + Len(heard) + 1 /\ ack = i - 1
    /\ reg = "ack" => i = base + Len(heard) /\ ack = i - 1
    /\ reg \in {"call", "ack"} => latest = interpreted /\ i <= latest
    /\ reg = "done" =>
          /\ base + Len(heard) = IF pc \in {"lock", "call"} THEN last - 1 ELSE last
          /\ ack = IF pc \in {"lock", "call", "ack"} THEN last - 1 ELSE last

\* What the graph keeps of the own blocks, and that it keeps enough.
Retention ==
    /\ \A k \in 1 .. Len(blocks) : blocks[k].round = Oldest + k - 1
    /\ next = Oldest + Len(blocks)
    /\ \A k \in 1 .. Len(blocks) : maxes[blocks[k].round] = blocks[k].max
    /\ IF blocks = <<>> THEN curMax < round ELSE curMax = blocks[Len(blocks)].max
    /\ \A r \in 1 .. MaxRound + 1 : resolved[r] # {} => round <= r /\ r <= curMax /\ r <= MaxRound
    /\ consumed <= Oldest
    /\ pc = "save" => eaten < Oldest
    /\ \A k \in 1 .. MaxBlocks : k < Oldest => maxes[k] < round

\* The inductive invariant behind the properties of the delivery.
DeliveryInv ==
    /\ TypeOK
    /\ Progress
    /\ InOrder
    /\ Retention
    /\ ConsumedIsDone
=============================================================================
