-------------------------------- MODULE Sync --------------------------------
(***************************************************************************)
(* How the blocks of one node, the sender, get to another one, the receiver:  *)
(* maintainBroadcast, getUnsent and handleGetRounds at the sender,            *)
(* handleBroadcastList, processBlock and fillMissingBlocks at the receiver    *)
(* (broadcast/broadcast.go), with the received and sent maps of cache.go and  *)
(* store.go.  Connections break, answers get lost, both nodes crash with maps *)
(* that were saved a while ago, and the receiver may start again with an      *)
(* empty directory.                                                         *)
(*                                                                         *)
(* Both nodes are correct, so the blocks pass the checks of processBlock; a   *)
(* block is its round.                                                      *)
(***************************************************************************)
EXTENDS Integers, Sequences, FiniteSets, Functions, FiniteSetsExt

CONSTANTS
    Conn,       \* bound: the handlers of broadcasts that run at once
    maxBlocks,  \* s.maxBlocks of both nodes
    MaxRound,   \* bound: blocks of the sender
    MaxBreaks,  \* bound: broken connections
    MaxCrashes, \* bound: crashes of either node
    MaxWipes,   \* bound: restarts of the receiver with an empty directory
    MaxPartial  \* bound: answers that lack blocks, by a sender that is closing its store

ASSUME SyncAssumption ==
    /\ maxBlocks \in Nat /\ MaxRound \in Nat
    /\ MaxBreaks \in Nat /\ MaxCrashes \in Nat /\ MaxWipes \in Nat /\ MaxPartial \in Nat

VARIABLES
    own,                \* sender, s.round: its blocks, all in its store
    sent, sentSaved,    \* sender, s.sent[receiver], and as in its store
    mb, conn,           \* sender, maintainBroadcast: where it is, and the handler it waits for
    stored,             \* receiver, the rounds of the blocks in its store
    received, receivedSaved, \* receiver, s.received of the sender, and as in its store
    hand,               \* receiver, the running calls of handleBroadcastList
    fill,               \* receiver, fillMissingBlocks
    lost,               \* history: rounds that were in an emptied directory
    breaks, crashes, wipes, partial

sender == <<own, sent, sentSaved, mb, conn>>
bounds == <<breaks, crashes, wipes, partial>>
vars == <<sender, stored, received, receivedSaved, hand, fill, lost, bounds>>

Round == 1 .. MaxRound
Info == [latest : 0 .. MaxRound, sequence : 0 .. MaxRound]
NoInfo == [latest |-> 0, sequence |-> 0]
NoConn == 0

\* A running handler: the blocks that are left, whether the first of them is in the
\* store already, and the last round of the list.
NoHandler == [todo |-> {}, half |-> FALSE, last |-> 0]
\* fillMissingBlocks: rounds and latest, the sequence it read, and the answer.
NoFill ==
    [pc |-> "check", rounds |-> {}, latest |-> 0, since |-> 0, todo |-> {}, half |-> FALSE, seen |-> {}]

Init ==
    /\ own = 0 /\ sent = 0 /\ sentSaved = 0 /\ mb = "unsent" /\ conn = NoConn
    /\ stored = {} /\ received = NoInfo /\ receivedSaved = NoInfo
    /\ hand = [c \in Conn |-> NoHandler]
    /\ fill = NoFill
    /\ lost = {}
    /\ breaks = 0 /\ crashes = 0 /\ wipes = 0 /\ partial = 0

-----------------------------------------------------------------------------
(* The sender. *)

\* genBlocks makes a block, which is in the store before s.round says so.
genBlock ==
    /\ own < MaxRound
    /\ own' = own + 1
    /\ UNCHANGED <<sent, sentSaved, mb, conn, stored, received, receivedSaved, hand, fill, lost, bounds>>

\* getUnsent takes as many blocks as fit into a payload, and maintainBroadcast
\* writes them to a handler.
getUnsent(c, last) ==
    /\ mb = "unsent"
    /\ last \in sent + 1 .. own
    /\ hand[c] = NoHandler
    /\ hand' = [hand EXCEPT ![c] = [todo |-> sent + 1 .. last, half |-> FALSE, last |-> last]]
    /\ mb' = "ack"
    /\ conn' = c
    /\ UNCHANGED <<own, sent, sentSaved, stored, received, receivedSaved, fill, lost, bounds>>

\* The connection breaks, or the answer takes longer than readTimeout:
\* maintainBroadcast dials again.  The handler may have got the blocks or not.
breakBroadcast ==
    /\ mb = "ack"
    /\ breaks < MaxBreaks
    /\ breaks' = breaks + 1
    /\ mb' = "unsent"
    /\ conn' = NoConn
    /\ \/ UNCHANGED hand
       \/ /\ hand[conn].todo = sent + 1 .. hand[conn].last
          /\ ~ hand[conn].half
          /\ hand' = [hand EXCEPT ![conn] = NoHandler]
    /\ UNCHANGED <<own, sent, sentSaved, stored, received, receivedSaved, fill, lost, crashes, wipes, partial>>

\* The maps are saved from time to time, and read at the start.
setSentMap == sentSaved' = sent
getSentMap == sentSaved
setReceivedMap == receivedSaved' = received
getReceivedMap == receivedSaved

writeSentMap ==
    /\ setSentMap
    /\ UNCHANGED <<own, sent, mb, conn, stored, received, receivedSaved, hand, fill, lost, bounds>>

crashSender ==
    /\ crashes < MaxCrashes
    /\ crashes' = crashes + 1
    /\ sent' = getSentMap
    /\ mb' = "unsent"
    /\ conn' = NoConn
    /\ UNCHANGED <<own, sentSaved, stored, received, receivedSaved, hand, fill, lost, breaks, wipes, partial>>

-----------------------------------------------------------------------------
(* The receiver. *)

\* receivedMap.set
SkipsAhead(info, r) == info.sequence < r
IsNext(info, r) == info.sequence + 1 = r
set(info, r) ==
    [latest |-> Max({info.latest, r}),
     sequence |-> IF IsNext(info, r) THEN r ELSE info.sequence]

\* processBlock for the first of the blocks in w.todo: the block goes to the store,
\* and then its round into the received map.
processBlock(w) ==
    \/ /\ ~ w.half
       /\ stored' = stored \cup {Min(w.todo)}
       /\ UNCHANGED received
    \/ /\ w.half
       /\ received' = set(received, Min(w.todo))
       /\ UNCHANGED stored

\* The work that is left when processBlock has taken a step.
Processed(w) == IF w.half THEN w.todo \ {Min(w.todo)} ELSE w.todo

\* markSent with the last round of the acknowledged list.
AckAll(c) == own
AckLast(c) == hand[c].last

handleBroadcastList(c) ==
    /\ hand[c].todo # {}
    /\ processBlock(hand[c])
    /\ hand' = [hand EXCEPT ![c].todo = Processed(hand[c]), ![c].half = ~ @]
    /\ UNCHANGED <<sender, receivedSaved, fill, lost, bounds>>

ackBroadcast(c) ==
    /\ hand[c] # NoHandler
    /\ hand[c].todo = {}
    /\ hand' = [hand EXCEPT ![c] = NoHandler]
    /\ \/ /\ conn = c
          /\ sent' = AckLast(c)
          /\ mb' = "unsent"
          /\ conn' = NoConn
       \/ /\ conn # c
          /\ UNCHANGED <<sent, mb, conn>>
    /\ UNCHANGED <<own, sentSaved, stored, received, receivedSaved, fill, lost, bounds>>

\* fillMissingBlocks reads the received map, unless it has rounds to ask for.
fillCheck ==
    /\ fill.pc = "check"
    /\ received.latest # received.sequence
    /\ fill' = [fill EXCEPT !.pc = "missing", !.since = received.sequence]
    /\ UNCHANGED <<sender, stored, received, receivedSaved, hand, lost, bounds>>

\* getMissing: the first rounds after since that have a later block but none of their
\* own.  It stops one round after the limit.
FirstOf(S, n) == {r \in S : Cardinality({q \in S : q < r}) < n}
AfterNext(since) == since + 2
Since(since) == since + 1
Gaps(since) == {r \in Round : r >= Since(since) /\ r \notin stored /\ \E q \in stored : q > r}
getMissing(since) == FirstOf(Gaps(since), maxBlocks + 1)
Latest(since) ==
    IF Cardinality(Gaps(since)) > maxBlocks
    THEN Max(getMissing(since))
    ELSE Max({since} \cup stored)

fillMissing ==
    /\ fill.pc = "missing"
    /\ LET rounds == getMissing(fill.since)
           latest == Latest(fill.since)
       IN  fill' = [fill EXCEPT !.rounds = rounds, !.latest = latest,
                                !.pc = IF rounds # {} THEN "ask"
                                       ELSE IF latest # fill.since THEN "set" ELSE "check"]
    /\ UNCHANGED <<sender, stored, received, receivedSaved, hand, lost, bounds>>

setSequence(r) == received' = [received EXCEPT !.sequence = r]

fillSet ==
    /\ fill.pc = "set"
    /\ setSequence(fill.latest)
    /\ fill' = [fill EXCEPT !.pc = "check"]
    /\ UNCHANGED <<sender, stored, receivedSaved, hand, lost, bounds>>

\* The request: handleGetRounds refuses one that is too long, and otherwise answers
\* with the blocks it has.  A broken connection or an error is followed by the same
\* request on the next one.
handleGetRounds(rounds) == rounds \cap 1 .. own

fillAsk ==
    /\ fill.pc = "ask"
    /\ Cardinality(fill.rounds) <= maxBlocks
    /\ \E answer \in SUBSET handleGetRounds(fill.rounds) :
          /\ answer # {}
          /\ \/ answer = handleGetRounds(fill.rounds) /\ UNCHANGED partial
             \/ /\ answer # handleGetRounds(fill.rounds)
                /\ partial < MaxPartial
                /\ partial' = partial + 1
          /\ fill' = [fill EXCEPT !.pc = "take", !.todo = answer, !.seen = answer]
    /\ UNCHANGED <<sender, stored, received, receivedSaved, hand, lost, breaks, crashes, wipes>>

fillTake ==
    /\ fill.pc = "take"
    /\ fill.todo # {}
    /\ processBlock(fill)
    /\ fill' = [fill EXCEPT !.todo = Processed(fill), !.half = ~ @]
    /\ UNCHANGED <<sender, receivedSaved, hand, lost, bounds>>

fillDone ==
    /\ fill.pc = "take"
    /\ fill.todo = {}
    /\ LET missing == fill.rounds \ fill.seen
       IN  /\ setSequence(IF missing # {} THEN fill.latest ELSE Max(fill.rounds))
           /\ fill' = [fill EXCEPT !.pc = IF missing = {} THEN "check" ELSE "ask",
                                   !.rounds = missing, !.seen = {}]
    /\ UNCHANGED <<sender, stored, receivedSaved, hand, lost, bounds>>

writeReceivedMap ==
    /\ setReceivedMap
    /\ UNCHANGED <<sender, stored, received, hand, fill, lost, bounds>>

\* The receiver stops and starts again: with its store, or with an empty directory.
Stopped ==
    /\ hand' = [c \in Conn |-> NoHandler]
    /\ fill' = NoFill
    /\ mb' = "unsent"
    /\ conn' = NoConn
    /\ UNCHANGED <<own, sent, sentSaved, breaks, partial>>

crashReceiver ==
    /\ crashes < MaxCrashes
    /\ crashes' = crashes + 1
    /\ received' = getReceivedMap
    /\ Stopped
    /\ UNCHANGED <<stored, receivedSaved, lost, wipes>>

wipeReceiver ==
    /\ wipes < MaxWipes
    /\ wipes' = wipes + 1
    /\ lost' = lost \cup stored
    /\ stored' = {}
    /\ received' = NoInfo
    /\ receivedSaved' = NoInfo
    /\ Stopped
    /\ UNCHANGED crashes

Broadcast ==
    \/ \E c \in Conn, last \in Round : getUnsent(c, last)
    \/ \E c \in Conn : handleBroadcastList(c) \/ ackBroadcast(c)
Fill ==
    fillCheck \/ fillMissing \/ fillSet \/ fillAsk \/ fillTake \/ fillDone
Faults ==
    breakBroadcast \/ crashSender \/ crashReceiver \/ wipeReceiver

Next ==
    \/ genBlock
    \/ Broadcast
    \/ writeSentMap
    \/ Fill
    \/ writeReceivedMap
    \/ Faults

Spec == Init /\ [][Next]_vars

\* The sender keeps making blocks, the goroutines go on, and a retry gets through
\* once the faults are over.
Fairness ==
    /\ WF_vars(genBlock)
    /\ WF_vars(\E c \in Conn, last \in Round : getUnsent(c, last))
    /\ \A c \in Conn : WF_vars(handleBroadcastList(c) \/ ackBroadcast(c))
    /\ WF_vars(Fill)

FairSpec == Spec /\ Fairness

-----------------------------------------------------------------------------
\* A block that the sender counts as sent, now or after a restart, did get into the
\* receiver's store, whatever acknowledgements were lost or came from a handler of
\* an earlier connection (markSent, writeSentMap).
SentIsStored ==
    1 .. sent \cup 1 .. sentSaved \subseteq stored \cup lost

\* What the sender sent is gapless at the receiver, unless its directory was emptied:
\* a retried or overtaken broadcast never leaves a hole.
StoredIsPrefix ==
    lost = {} => \E n \in 0 .. own : stored = 1 .. n

\* An answer that lacks blocks moves the sequence beyond rounds that only the local
\* variable rounds of fillMissingBlocks still has, and a crash forgets that one.
MayForget == partial > 0 /\ crashes > 0

\* No round is skipped for good: up to the sequence of the received map every block
\* is stored, or fillMissingBlocks is still asking for it.  It holds across the race
\* of fillMissingBlocks with the handlers and across stale maps, but not across a
\* crash after an answer that lacked blocks.
NoSilentGap ==
    MayForget \/ 1 .. received.sequence \subseteq stored \cup fill.rounds

\* The rounds that a restart takes from the saved map have no gap either, as long as
\* every answer of handleGetRounds had all the blocks asked for.
NoSavedGap ==
    partial = 0 => 1 .. receivedSaved.sequence \subseteq stored

\* What handleGetRounds demands of a request: it asks for at most maxBlocks rounds.
RequestWithinLimit ==
    fill.pc = "ask" => Cardinality(fill.rounds) <= maxBlocks

\* Once the faults are over, the receiver gets every block up to the latest one that
\* it has heard of since its start, also those that only fillMissingBlocks can bring
\* back; the sender's next block makes that all of them.  The exception is the one of
\* NoSilentGap.
EveryBlockArrives == <>[](MayForget \/ 1 .. received.latest \subseteq stored)
=============================================================================
