------------------------------ MODULE Streams -------------------------------
(***************************************************************************)
(* Messages over TCP, byte by byte.  A frame is a header with the length of *)
(* the payload, and the payload; both ends loop over partial reads and      *)
(* writes, each with a deadline.                                            *)
(*                                                                         *)
(* On a connection between nodes (network/conn.go) the client sends a hello *)
(* and then requests, and waits for the answer to each; handleConnection of *)
(* node.go serves it.  No message has a number that is looked at: an answer *)
(* belongs to a request because of where it is in the stream.  Any error    *)
(* ends the connection, and the client dials again.                         *)
(*                                                                         *)
(* On a connection of the feed (pubsub) the node writes each published      *)
(* transaction and the client reads them; both take an expired deadline for *)
(* success (pubsub/internal).                                               *)
(***************************************************************************)
EXTENDS Integers, Sequences, FiniteSets

CONSTANTS
    MaxConn,    \* bound: connections that the client makes; faults end all but the last
    MaxMessage, \* bound: requests, or transactions
    HeaderLen,  \* bytes of a header: 4
    BodyLen,    \* bound: bytes of a payload
    maxPayload  \* the limit that both ends have from the configuration

ASSUME StreamsAssumption ==
    /\ MaxConn \in Nat \ {0} /\ MaxMessage \in Nat
    /\ HeaderLen \in Nat \ {0} /\ BodyLen \in Nat \ {0} /\ BodyLen <= maxPayload

VARIABLES
    kind,     \* "peer" or "feed": which connections these are
    used,     \* how many connections were made; the client works on the last one
    wire,     \* wire[c][s]: the bytes on their way to s
    out, buf, \* what an end still has to write, and what it has of the frame it reads
    pc,       \* what the goroutine at each end does
    closed,   \* closed[c]: the ends that have closed the connection
    broken,   \* the connections that the network has broken
    asked,    \* the last request made, or transaction published
    answers,  \* history: the answers, or the transactions the client's callback got
    cut       \* history: a deadline of the feed has expired within a frame

bytes == <<wire, out, buf>>
conns == <<closed, broken>>
history == <<asked, answers, cut>>
vars == <<kind, used, bytes, pc, conns, history>>

Conn == 1 .. MaxConn
Side == {"client", "server"}
Other(s) == IF s = "client" THEN "server" ELSE "client"
Put(g, c, s, x) == [g EXCEPT ![c][s] = x]

Hello == 0
Message == 0 .. MaxMessage
Frame(m) == [k \in 1 .. HeaderLen + BodyLen |-> <<m, k>>]
MessageOf(b) == b[1][1]

Init ==
    /\ kind \in {"peer", "feed"}
    /\ used = 0
    /\ wire = [c \in Conn |-> [s \in Side |-> <<>>]]
    /\ out = wire /\ buf = wire
    /\ pc = [c \in Conn |-> [s \in Side |-> "none"]]
    /\ closed = [c \in Conn |-> {}] /\ broken = {}
    /\ asked = 0 /\ answers = <<>> /\ cut = FALSE

\* A fault ends a connection after which the client can make another one.
MayFail(c) == kind = "peer" => c < MaxConn

-----------------------------------------------------------------------------
\* WritePayload and Write: some of the bytes are written in each turn of the loop.
Writing == {"hello", "request", "reply", "publish"}
AfterWrite(p) ==
    CASE p = "hello"   -> "next"
      [] p = "request" -> "answer"
      [] p = "reply"   -> "read"
      [] p = "publish" -> "next"

Skipped(o, n) == SubSeq(o, n + 2, Len(o))
Unwritten(o, n) == SubSeq(o, n + 1, Len(o))

write(c, s) ==
    /\ pc[c][s] \in Writing
    /\ c \notin broken
    /\ \E n \in 1 .. Len(out[c][s]) :
         LET rest == Unwritten(out[c][s], n)
         IN  /\ wire' = Put(wire, c, Other(s), wire[c][Other(s)] \o SubSeq(out[c][s], 1, n))
             /\ out' = Put(out, c, s, rest)
             /\ pc' = IF rest = <<>> THEN Put(pc, c, s, AfterWrite(pc[c][s])) ELSE pc
    /\ UNCHANGED <<kind, used, buf, conns, history>>

\* readPayload and Read: some of the bytes are read that are missing from the header, then
\* from the payload.  An end that takes for a frame what is not one is lost.
Reading == {"first", "read", "answer", "listen"}
AfterRead(p) ==
    CASE p = "first"  -> "verify"
      [] p = "read"   -> "handle"
      [] p = "answer" -> "take"
      [] p = "listen" -> "call"

need(b) == IF Len(b) < HeaderLen THEN HeaderLen - Len(b) ELSE HeaderLen + BodyLen - Len(b)

IsFrame(b) == \E m \in Message : b = Frame(m)
InStep(b) == \E m \in Message : b = SubSeq(Frame(m), 1, Len(b))

read(c, s) ==
    /\ pc[c][s] \in Reading
    /\ \E n \in 1 .. need(buf[c][s]) :
         LET b == buf[c][s] \o SubSeq(wire[c][s], 1, n)
         IN  /\ n <= Len(wire[c][s])
             /\ wire' = Put(wire, c, s, SubSeq(wire[c][s], n + 1, Len(wire[c][s])))
             /\ buf' = Put(buf, c, s, b)
             /\ pc' = Put(pc, c, s, IF IsFrame(b) THEN AfterRead(pc[c][s])
                                    ELSE IF InStep(b) THEN pc[c][s] ELSE "lost")
    /\ UNCHANGED <<kind, used, out, conns, history>>

\* An end starts to write a frame; one that is too long closes the connection.
start(c, s, m, p) ==
    IF BodyLen > maxPayload
    THEN /\ closed' = [closed EXCEPT ![c] = @ \cup {s}]
         /\ pc' = Put(pc, c, s, "ended")
         /\ UNCHANGED out
    ELSE /\ out' = Put(out, c, s, Frame(m))
         /\ pc' = Put(pc, c, s, p)
         /\ UNCHANGED closed

-----------------------------------------------------------------------------
\* maintainBroadcast and fillMissingBlocks, whose last connection has ended, dial and
\* begin with a hello.  The server's listen starts handleConnection.
dial ==
    /\ kind = "peer"
    /\ used < MaxConn
    /\ used > 0 => pc[used]["client"] = "ended"
    /\ used' = used + 1
    /\ pc' = [pc EXCEPT ![used'] = [client |-> "hello", server |-> "first"]]
    /\ out' = Put(out, used', "client", Frame(Hello))
    /\ UNCHANGED <<kind, wire, buf, conns, history>>

\* They make the next request, or the last one again if that has no answer.
nextRequest == Len(answers) + 1

request(c) ==
    /\ kind = "peer"
    /\ pc[c]["client"] = "next"
    /\ nextRequest <= MaxMessage
    /\ start(c, "client", nextRequest, "request")
    /\ asked' = nextRequest
    /\ UNCHANGED <<kind, used, wire, buf, broken, answers, cut>>

take(c) ==
    /\ pc[c]["client"] = "take"
    /\ answers' = Append(answers, MessageOf(buf[c]["client"]))
    /\ buf' = Put(buf, c, "client", <<>>)
    /\ pc' = Put(pc, c, "client", "next")
    /\ UNCHANGED <<kind, used, wire, out, conns, asked, cut>>

\* They cannot decode the answer, or it has no blocks: the connection is left open.
reject(c) ==
    /\ pc[c]["client"] = "take"
    /\ MayFail(c)
    /\ pc' = Put(pc, c, "client", "ended")
    /\ buf' = Put(buf, c, "client", <<>>)
    /\ UNCHANGED <<kind, used, wire, out, conns, history>>

\* handleConnection verifies the hello, and answers requests.
verifyPeerID(c) ==
    /\ pc[c]["server"] = "verify"
    /\ pc' = Put(pc, c, "server", "read")
    /\ buf' = Put(buf, c, "server", <<>>)
    /\ UNCHANGED <<kind, used, wire, out, conns, history>>

handle(c) ==
    /\ pc[c]["server"] = "handle"
    /\ start(c, "server", MessageOf(buf[c]["server"]), "reply")
    /\ buf' = Put(buf, c, "server", <<>>)
    /\ UNCHANGED <<kind, used, wire, broken, history>>

\* The hello is refused, or Handle returns an error.
refuse(c) ==
    /\ pc[c]["server"] \in {"verify", "handle"}
    /\ MayFail(c)
    /\ closed' = [closed EXCEPT ![c] = @ \cup {"server"}]
    /\ pc' = Put(pc, c, "server", "ended")
    /\ buf' = Put(buf, c, "server", <<>>)
    /\ UNCHANGED <<kind, used, wire, out, broken, history>>

\* A read or a write fails: its deadline has expired, the network has broken the
\* connection, or the other end has closed it.
NoDeadline(c, s) == c \in broken \/ Other(s) \in closed[c]
Expired(c, s) ==
    \/ MayFail(c)
    \/ c \in broken
    \/ Other(s) \in closed[c] /\ (pc[c][s] \in Reading => wire[c][s] = <<>>)

AgainOnIt(s) == IF s = "client" THEN "next" ELSE "read"
AfterError(s) == "ended"

fail(c, s) ==
    /\ kind = "peer"
    /\ pc[c][s] \in Reading \cup Writing
    /\ Expired(c, s)
    /\ closed' = [closed EXCEPT ![c] = IF AfterError(s) = "ended" THEN @ \cup {s} ELSE @]
    /\ pc' = Put(pc, c, s, AfterError(s))
    /\ out' = Put(out, c, s, <<>>) /\ buf' = Put(buf, c, s, <<>>)
    /\ UNCHANGED <<kind, used, wire, broken, history>>

\* External: the network breaks a connection, and what was on its way is lost.
breakConn(c) ==
    /\ c <= used /\ c \notin broken
    /\ MayFail(c)
    /\ broken' = broken \cup {c}
    /\ wire' = [wire EXCEPT ![c] = [s \in Side |-> <<>>]]
    /\ UNCHANGED <<kind, used, out, buf, pc, closed, history>>

-----------------------------------------------------------------------------
\* The feed has one connection: its client does not dial again.
F == 1

run ==
    /\ kind = "feed"
    /\ used = 0
    /\ used' = 1
    /\ pc' = [pc EXCEPT ![F] = [client |-> "listen", server |-> "next"]]
    /\ UNCHANGED <<kind, bytes, conns, history>>

Publish ==
    /\ kind = "feed"
    /\ asked < MaxMessage
    /\ pc[F]["server"] \in {"none", "next", "ended"}
    /\ asked' = asked + 1
    /\ IF pc[F]["server"] = "next" THEN start(F, "server", asked', "publish")
                                   ELSE UNCHANGED <<out, pc, closed>>
    /\ UNCHANGED <<kind, used, wire, buf, broken, answers, cut>>

usercb ==
    /\ pc[F]["client"] = "call"
    /\ answers' = Append(answers, MessageOf(buf[F]["client"]))
    /\ buf' = Put(buf, F, "client", <<>>)
    /\ pc' = Put(pc, F, "client", "listen")
    /\ UNCHANGED <<kind, used, wire, out, conns, asked, cut>>

\* An expired deadline is no error: the rest of the frame is not written, and what was
\* read of a frame is forgotten.
expireWrite ==
    /\ pc[F]["server"] = "publish"
    /\ out' = Put(out, F, "server", <<>>)
    /\ pc' = Put(pc, F, "server", "next")
    /\ cut' = TRUE
    /\ UNCHANGED <<kind, used, wire, buf, conns, asked, answers>>

expireRead ==
    /\ pc[F]["client"] = "listen"
    /\ buf[F]["client"] # <<>>
    /\ buf' = Put(buf, F, "client", <<>>)
    /\ cut' = TRUE
    /\ UNCHANGED <<kind, used, wire, out, pc, conns, asked, answers>>

\* Any other error of a write closes the connection, and Publish forgets it.
badconn ==
    /\ pc[F]["server"] = "publish"
    /\ F \in broken
    /\ closed' = [closed EXCEPT ![F] = @ \cup {"server"}]
    /\ pc' = Put(pc, F, "server", "ended")
    /\ out' = Put(out, F, "server", <<>>)
    /\ UNCHANGED <<kind, used, wire, buf, broken, history>>

-----------------------------------------------------------------------------
Ends(c) ==
    \/ \E s \in Side : write(c, s) \/ read(c, s)
    \/ request(c) \/ take(c) \/ verifyPeerID(c) \/ handle(c)
Faults(c) == reject(c) \/ refuse(c) \/ (\E s \in Side : fail(c, s)) \/ breakConn(c)
Feed == run \/ Publish \/ usercb \/ expireWrite \/ expireRead \/ badconn

Next == dial \/ (\E c \in Conn : Ends(c) \/ Faults(c)) \/ Feed

Spec == Init /\ [][Next]_vars

\* The goroutines go on, and a deadline that has expired is noticed.
Fairness ==
    /\ WF_vars(dial)
    /\ \A c \in Conn : WF_vars(Ends(c)) /\ \A s \in Side : WF_vars(fail(c, s))

FairSpec == Spec /\ Fairness

-----------------------------------------------------------------------------
R == INSTANCE Requests WITH
       asked <- IF kind = "peer" THEN asked ELSE 0,
       answers <- IF kind = "peer" THEN answers ELSE <<>>

\* A connection between nodes gives its client what it relies on: each answer is the one
\* to the request it has just made, although answers have no number that is compared
\* (fillMissingBlocks and maintainBroadcast over readPayload and handleConnection).
AnswersMatch == R!RequestsSpec

\* No end ever reads a frame out of step, from the middle of one or across two, on a
\* connection between nodes, and on one of the feed as long as no deadline has expired in
\* a frame (readPayload, WritePayload, and Read and Write of pubsub/internal).
FramesInStep == (\E c \in Conn, s \in Side : pc[c][s] = "lost") => kind = "feed" /\ cut

\* Every request is answered in the end, whatever becomes of all connections but the last
\* (the retry loops of fillMissingBlocks and maintainBroadcast).
EveryRequestAnswered == kind = "peer" => <>(Len(answers) = MaxMessage)

\* handleConnection ends on every connection that the client has given up, also when the
\* client has not closed it.
EveryHandlerEnds ==
    \A c \in 1 .. MaxConn - 1 : (c < used) ~> (pc[c]["server"] = "ended")
=============================================================================
