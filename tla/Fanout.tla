------------------------------- MODULE Fanout -------------------------------
(***************************************************************************)
(* How delivered transactions reach websocket clients: handleDeliver of       *)
(* txlistener.go publishes them one by one, Publish of pubsub.go notifies     *)
(* wsservice.go, whose Callback starts a goroutine for each, and that sends   *)
(* the transaction to the channel of every client, with a Websocket loop at   *)
(* the other end.  The goroutines take turns by s.mu, and hold it, and the    *)
(* mutex of a client's channel, while they wait for room in that channel.     *)
(***************************************************************************)
EXTENDS Integers, Sequences, FiniteSets

CONSTANTS
    Client,  \* bound: websocket connections, by their address
    Cap,     \* the capacity of a channel: 100
    MaxTx,   \* bound: transactions, numbered as they are delivered
    Failing  \* the clients whose connection may fail

ASSUME FanoutAssumption == Cap \in Nat \ {0} /\ MaxTx \in Nat /\ Failing \subseteq Client

VARIABLES
    published,         \* handleDeliver: how many transactions it has published
    started,           \* the goroutines of Callback that wait for s.mu
    holder,            \* the one that has it, or NoTx
    todo, at, doneConn, \* its loops: channels to come, the one it has locked, doneConn
    chans,             \* s.chans
    C, close, closed,  \* the channels, their close flags, and those that are closed
    ws, tx,            \* the Websocket loops, and the transaction each one writes
    done,              \* s.ctx is done
    got, due           \* history: what a client got, and what was published for it

channels == <<chans, C, close, closed>>
callback == <<holder, todo, at, doneConn>>
loops == <<ws, tx, got>>
vars == <<published, started, callback, channels, loops, done, due>>

NoTx == 0
NoClient == "none"
Tx == 1 .. MaxTx

Init ==
    /\ published = 0 /\ started = {}
    /\ holder = NoTx /\ todo = {} /\ at = NoClient /\ doneConn = {}
    /\ chans = {} /\ C = [c \in Client |-> <<>>]
    /\ close = [c \in Client |-> FALSE] /\ closed = {}
    /\ ws = [c \in Client |-> "new"] /\ tx = [c \in Client |-> NoTx]
    /\ done = FALSE
    /\ got = [c \in Client |-> {}] /\ due = [c \in Client |-> {}]

-----------------------------------------------------------------------------
\* handleDeliver publishes the next transaction, and Publish calls Callback.
Publish ==
    /\ published < MaxTx
    /\ published' = published + 1
    /\ started' = started \cup {published + 1}
    /\ due' = [c \in Client |-> IF c \in chans THEN due[c] \cup {published + 1} ELSE due[c]]
    /\ UNCHANGED <<callback, channels, loops, done>>

\* The goroutine of Callback for t gets s.mu.
Callback(t) ==
    /\ t \in started
    /\ holder = NoTx
    /\ holder' = t
    /\ todo' = chans
    /\ started' = started \ {t}
    /\ UNCHANGED <<published, at, doneConn, channels, loops, done, due>>

\* It locks the next channel, in any order of the map.
lockChan(c) ==
    /\ holder # NoTx /\ at = NoClient
    /\ c \in todo
    /\ at' = c
    /\ todo' = todo \ {c}
    /\ UNCHANGED <<published, started, holder, doneConn, channels, loops, done, due>>

\* It closes a channel whose loop has ended, or sends once there is room, and goes on
\* with the rest.
NoRest == {}
Rest == todo

closeChan ==
    /\ at # NoClient
    /\ close[at]
    /\ closed' = closed \cup {at}
    /\ doneConn' = doneConn \cup {at}
    /\ at' = NoClient
    /\ todo' = Rest
    /\ UNCHANGED <<published, started, holder, chans, C, close, loops, done, due>>

send ==
    /\ at # NoClient
    /\ ~ close[at]
    /\ Len(C[at]) < Cap
    /\ C' = [C EXCEPT ![at] = Append(@, holder)]
    /\ at' = NoClient
    /\ UNCHANGED <<published, started, holder, todo, doneConn, chans, close, closed, loops, done, due>>

\* The closed channels are deleted, and s.mu is unlocked.
Kept == chans
Left == chans \ doneConn

unlock ==
    /\ holder # NoTx /\ at = NoClient /\ todo = {}
    /\ chans' = Left
    /\ doneConn' = {}
    /\ holder' = NoTx
    /\ UNCHANGED <<published, started, todo, at, C, close, closed, loops, done, due>>

-----------------------------------------------------------------------------
\* Websocket: a client connects, and its channel is added under s.mu.
addChan(c) ==
    /\ ws[c] = "new"
    /\ holder = NoTx
    /\ chans' = chans \cup {c}
    /\ ws' = [ws EXCEPT ![c] = "loop"]
    /\ UNCHANGED <<published, started, callback, C, close, closed, tx, got, done, due>>

receive(c) ==
    /\ ws[c] = "loop"
    /\ C[c] # <<>>
    /\ tx' = [tx EXCEPT ![c] = Head(C[c])]
    /\ C' = [C EXCEPT ![c] = Tail(@)]
    /\ ws' = [ws EXCEPT ![c] = "write"]
    /\ UNCHANGED <<published, started, callback, chans, close, closed, got, done, due>>

WriteMessage(c) ==
    /\ ws[c] = "write"
    /\ got' = [got EXCEPT ![c] = @ \cup {tx[c]}]
    /\ tx' = [tx EXCEPT ![c] = NoTx]
    /\ ws' = [ws EXCEPT ![c] = "loop"]
    /\ UNCHANGED <<published, started, callback, channels, done, due>>

writeFails(c) ==
    /\ ws[c] = "write"
    /\ c \in Failing
    /\ ws' = [ws EXCEPT ![c] = "failed"]
    /\ UNCHANGED <<published, started, callback, channels, tx, got, done, due>>

ctxDone(c) ==
    /\ ws[c] = "loop"
    /\ done
    /\ ws' = [ws EXCEPT ![c] = "failed"]
    /\ UNCHANGED <<published, started, callback, channels, tx, got, done, due>>

\* chanCloser.Close needs the mutex of the channel.
Close(c) ==
    /\ ws[c] = "failed"
    /\ at # c
    /\ close' = [close EXCEPT ![c] = TRUE]
    /\ ws' = [ws EXCEPT ![c] = "ended"]
    /\ UNCHANGED <<published, started, callback, chans, C, closed, tx, got, done, due>>

\* The node is stopped.
cancel ==
    /\ ~ done
    /\ done' = TRUE
    /\ UNCHANGED <<published, started, callback, channels, loops, due>>

Goroutine == (\E c \in Client : lockChan(c)) \/ closeChan \/ send \/ unlock
Websocket(c) ==
    addChan(c) \/ receive(c) \/ WriteMessage(c) \/ writeFails(c) \/ ctxDone(c) \/ Close(c)

Next ==
    \/ Publish
    \/ \E t \in Tx : Callback(t)
    \/ Goroutine
    \/ \E c \in Client : Websocket(c)
    \/ cancel

Spec == Init /\ [][Next]_vars

\* The goroutines go on when they can, and a mutex is given to each one that waits.
Fairness ==
    /\ WF_vars(Goroutine)
    /\ \A t \in Tx : WF_vars(Callback(t))
    /\ \A c \in Client : WF_vars(receive(c) \/ WriteMessage(c) \/ Close(c))

FairSpec == Spec /\ Fairness

-----------------------------------------------------------------------------
\* Callback never sends on, or closes, a channel that is closed already, which would be
\* a panic: a closed channel is deleted before s.mu is unlocked.
NoPanic == at # NoClient => at \notin closed

\* Callback waits, with s.mu and the mutex of the channel, for room in the channel of a
\* client whose loop has ended, and that loop waits in Close for the mutex.
Stalled == at # NoClient /\ Len(C[at]) = Cap /\ ws[at] = "failed"

\* Every transaction that is published while a client is connected is written to that
\* client, unless its own connection fails or the node stops, or Callback is stalled, in
\* which case it is so for good: nothing else, such as a slow client or one whose loop
\* ends at another time, keeps the others from being served.
ServedUnlessStalled ==
    <>[](done \/ Stalled \/ \A c \in Client : due[c] \subseteq got[c] \/ ws[c] \in {"failed", "ended"})
=============================================================================
