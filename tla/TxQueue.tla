------------------------------ MODULE TxQueue ------------------------------
(***************************************************************************)
(* The transaction queue of a node: AddTransaction, called concurrently by    *)
(* clients, and genBlocks, which in every round adjusts the rate limit,       *)
(* empties the queue into a block and closes the signal that waiting calls    *)
(* sleep on (broadcast/broadcast.go).  A crash loses the queue, but not the   *)
(* blocks.  A transaction is a name and a size.                              *)
(***************************************************************************)
EXTENDS Integers, Sequences, SequencesExt

CONSTANTS
    Tx,          \* bound: the transactions that clients add, each once
    size,        \* their sizes
    txSizeLimit, \* s.txSizeLimit, and the length of s.txData
    Room,        \* what AddTransaction wants to find free besides the data: 100
    Header,      \* what it writes before the data: 12
    initialRate, \* RateLimit.InitialRate
    rateIncr,    \* RateLimit.RateIncrease
    rateDecr,    \* RateLimit.RateDecrease, in tenths
    MaxRate,     \* bound: the rates that genBlocks reaches
    MaxCrashes   \* bound: crashes

ASSUME TxQueueAssumption ==
    /\ size \in [Tx -> Nat]
    /\ txSizeLimit \in Nat /\ Room \in Nat /\ Header \in 0 .. Room
    /\ initialRate \in Nat \ {0} /\ rateIncr \in Nat /\ rateDecr \in 0 .. 10
    /\ MaxRate \in Nat /\ initialRate <= MaxRate /\ MaxCrashes \in Nat

VARIABLES
    queue,          \* s.txData up to s.txIdx: the transactions in it
    txCount, txIdx, \* s.txCount, s.txIdx
    txCountLimit,   \* s.txCountLimit, and the rate of genBlocks
    pc,             \* the calls of AddTransaction
    signal,         \* the signal each one has read: s.signal, the one before, or closed
    gen, data,      \* genBlocks: where it is, and the block it makes
    blocks,         \* the store: own blocks that have transactions
    accepted, lost, \* history: what calls returned nil for, and what a crash lost
    crashes

buffer == <<queue, txCount, txIdx>>
producer == <<gen, data, blocks, txCountLimit>>
history == <<accepted, lost, crashes>>
vars == <<buffer, pc, signal, producer, history>>

NoBlock == [count |-> 0, txs |-> <<>>]

Init ==
    /\ queue = <<>> /\ txCount = 0 /\ txIdx = 0
    /\ txCountLimit = initialRate
    /\ pc = [t \in Tx |-> "call"] /\ signal = [t \in Tx |-> "closed"]
    /\ gen = "rate" /\ data = NoBlock /\ blocks = <<>>
    /\ accepted = <<>> /\ lost = {} /\ crashes = 0

-----------------------------------------------------------------------------
\* AddTransaction returns errTransactionTooLarge.
tooLarge(t) ==
    /\ pc[t] = "call"
    /\ size[t] > txSizeLimit
    /\ pc' = [pc EXCEPT ![t] = "refused"]
    /\ UNCHANGED <<buffer, signal, producer, history>>

\* It reads the count and the signal under s.mu, which does not protect the count.
Overloaded == txCount = txCountLimit

checkCount(t) ==
    /\ pc[t] = "call"
    /\ size[t] <= txSizeLimit
    /\ signal' = [signal EXCEPT ![t] = "current"]
    /\ pc' = [pc EXCEPT ![t] = IF Overloaded THEN "wait" ELSE "add"]
    /\ UNCHANGED <<buffer, producer, history>>

\* Under txmu it adds the transaction, or finds no room for it.
FitsAlone(t) == size[t] + Room <= txSizeLimit
Fits(t) == txIdx + size[t] + Room <= txSizeLimit

noRoom(t) ==
    /\ pc[t] = "add"
    /\ ~ Fits(t)
    /\ pc' = [pc EXCEPT ![t] = "wait"]
    /\ UNCHANGED <<buffer, signal, producer, history>>

append(t) ==
    /\ pc[t] = "add"
    /\ Fits(t)
    /\ queue' = Append(queue, t)
    /\ txCount' = txCount + 1
    /\ txIdx' = txIdx + Header + size[t]
    /\ accepted' = Append(accepted, t)
    /\ pc' = [pc EXCEPT ![t] = "done"]
    /\ UNCHANGED <<signal, producer, lost, crashes>>

\* It sleeps until the signal it has read is closed, and starts again.
awake(t) ==
    /\ pc[t] = "wait"
    /\ signal[t] = "closed"
    /\ pc' = [pc EXCEPT ![t] = "call"]
    /\ UNCHANGED <<buffer, signal, producer, history>>

AddTransaction(t) == tooLarge(t) \/ checkCount(t) \/ noRoom(t) \/ append(t) \/ awake(t)

-----------------------------------------------------------------------------
\* genBlocks, at the start of a round: the rate goes down when it is late, but not
\* below the initial rate, and up when it is not.
Decreased(rate) ==
    LET less == (rate * rateDecr) \div 10
    IN  IF less < initialRate THEN initialRate ELSE less

setRate(rate) ==
    /\ gen = "rate"
    /\ txCountLimit' = rate
    /\ gen' = "take"
    /\ UNCHANGED <<buffer, pc, signal, data, blocks, history>>

late == setRate(Decreased(txCountLimit))
inTime == txCountLimit + rateIncr <= MaxRate /\ setRate(txCountLimit + rateIncr)

\* Under txmu the queue is encoded into the block and emptied.
DataKept == queue
DataAfter == <<>>
CountAfter == 0

take ==
    /\ gen = "take"
    /\ data' = [count |-> txCount, txs |-> queue]
    /\ queue' = DataAfter
    /\ txCount' = CountAfter
    /\ txIdx' = 0
    /\ gen' = "store"
    /\ UNCHANGED <<pc, signal, blocks, txCountLimit, history>>

\* setOwnBlock: one transaction of the store.
setOwnBlock ==
    /\ gen = "store"
    /\ blocks' = IF data.txs = <<>> THEN blocks ELSE Append(blocks, data)
    /\ data' = NoBlock
    /\ gen' = "signal"
    /\ UNCHANGED <<buffer, pc, signal, txCountLimit, history>>

\* The signal is replaced under s.mu, and then the one before is closed.
newSignal ==
    /\ gen = "signal"
    /\ signal' = [t \in Tx |-> IF signal[t] = "current" THEN "before" ELSE signal[t]]
    /\ gen' = "close"
    /\ UNCHANGED <<buffer, pc, data, blocks, txCountLimit, history>>

NewOne == "current"
OneBefore == "before"

closeSignal ==
    /\ gen = "close"
    /\ signal' = [t \in Tx |-> IF signal[t] = OneBefore THEN "closed" ELSE signal[t]]
    /\ gen' = "rate"
    /\ UNCHANGED <<buffer, pc, data, blocks, txCountLimit, history>>

genBlocks == late \/ inTime \/ take \/ setOwnBlock \/ newSignal \/ closeSignal

\* A crash ends the calls, which their clients make again, and loses what is not stored.
Restart ==
    /\ crashes < MaxCrashes
    /\ crashes' = crashes + 1
    /\ lost' = lost \cup ToSet(data.txs) \cup ToSet(queue)
    /\ queue' = <<>> /\ txCount' = 0 /\ txIdx' = 0
    /\ txCountLimit' = initialRate
    /\ pc' = [t \in Tx |-> IF pc[t] \in {"done", "refused"} THEN pc[t] ELSE "call"]
    /\ signal' = [t \in Tx |-> "closed"]
    /\ gen' = "rate" /\ data' = NoBlock
    /\ UNCHANGED <<blocks, accepted>>

Next ==
    \/ \E t \in Tx : AddTransaction(t)
    \/ genBlocks
    \/ Restart

Spec == Init /\ [][Next]_vars

\* genBlocks runs in every round, late or not, and a call goes on when it can.
FairSpec ==
    /\ Spec
    /\ \A t \in Tx : WF_vars(AddTransaction(t))
    /\ WF_vars(genBlocks)

-----------------------------------------------------------------------------
\* Every transaction that a call of AddTransaction has accepted is in one place, in
\* the order of the calls: in a stored block, in the block that genBlocks is making,
\* in the queue, or lost in a crash.
Accounted ==
    FlattenSeq([k \in 1 .. Len(blocks) |-> blocks[k].txs]) \o data.txs \o queue
        = SelectSeq(accepted, LAMBDA t : t \notin lost)

\* A block says how many transactions it has, so that TxIterator, which decodes that
\* many, neither misses one nor reads beyond the data.
CountMatches ==
    \A k \in 1 .. Len(blocks) : blocks[k].count = Len(blocks[k].txs)

\* AddTransaction writes within s.txData: the room it asks for covers what it writes,
\* whatever other calls have added since it last looked.
BufferFits ==
    txIdx <= txSizeLimit

\* Every call of AddTransaction returns: a call that waits, for the rate limit or for
\* room, is woken up after the queue has been emptied, also when it reads the signal
\* while genBlocks replaces it.
EveryCallReturns ==
    \A t \in Tx : <>(pc[t] \in {"done", "refused"})

\* The invariant that CountMatches and BufferFits follow from: the count and the data
\* of the queue, and of the block that genBlocks makes of them, agree.
QueueInv ==
    /\ queue \in Seq(Tx) /\ txCount = Len(queue)
    /\ data \in [count : Nat, txs : Seq(Tx)] /\ data.count = Len(data.txs)
    /\ blocks \in Seq([count : Nat, txs : Seq(Tx)])
    /\ txIdx \in Nat
    /\ CountMatches
    /\ BufferFits
=============================================================================
