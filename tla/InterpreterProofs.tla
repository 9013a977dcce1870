------------------------- MODULE InterpreterProofs -------------------------
(***************************************************************************)
(* Proofs about the interpreter: type correctness, for every instance; and  *)
(* that no two blocks are decided for a position and that no view change    *)
(* meets two blocks, for every instance with 3f + 1 nodes of which at most  *)
(* f fork their chain.                                                      *)
(***************************************************************************)
EXTENDS Interpreter, TLAPS, FiniteSetTheorems

-----------------------------------------------------------------------------
(* Type correctness.                                                        *)

\* What a case of processMessage returns.
Results == [s : State, responses : Seq(Message), fatal : BOOLEAN]

\* The constants of the code's configuration have their types.
LEMMA ConstantTypes ==
    /\ NoHash \in Hash
    /\ 0 \in View
    /\ \A c \in Chain : NodeOf(c) \in Node /\ HashOf(c) \in Hash
    /\ InitState \in State
BY ConstantsAssumption DEF NoHash, Hash, View, NodeOf, HashOf, InitState, State

\* The constructors of messages build messages.
LEMMA MessageTypes ==
    ASSUME NEW h \in Hash, NEW v \in View, NEW n \in Node
    PROVE  /\ PrePrepare(h, v) \in Message
           /\ Prepare(h, v, n) \in Message
           /\ Commit(h, v, n) \in Message
           /\ ViewChange(h, v, n) \in Message
           /\ NewView(h, v, n) \in Message
BY DEF Message, PrePrepare, Prepare, Commit, ViewChange, NewView

\* The fields of a message, whatever its kind.
LEMMA MessageFields ==
    ASSUME NEW m \in Message
    PROVE  /\ m.hash \in Hash
           /\ m.view \in View
           /\ m.kind \in {"PrePrepare", "Prepare", "Commit", "ViewChange", "NewView"}
           /\ m.kind # "PrePrepare" => m.sender \in Node
BY DEF Message

\* A state whose fields are replaced by fields of the right types is a state.
LEMMA StateUpdates ==
    ASSUME NEW s \in State
    PROVE  /\ \A P \in SUBSET (Hash \X View \X Node), Q \in SUBSET (View \X Hash) :
                [s EXCEPT !.prepares = P, !.prePrepared = Q] \in State
           /\ \A P \in SUBSET (Hash \X View \X Node) : [s EXCEPT !.prepares = P] \in State
           /\ \A P \in SUBSET (Hash \X View \X Node), Q \in SUBSET (View \X Hash) :
                [s EXCEPT !.commits = P, !.prepared = Q] \in State
           /\ \A P \in SUBSET (Hash \X View \X Node), F \in SUBSET Hash :
                [s EXCEPT !.commits = P, !.final = F] \in State
           /\ \A C \in SUBSET (View \X Node \X Hash) : [s EXCEPT !.viewChanged = C] \in State
           /\ \A C \in SUBSET (View \X Node \X Hash), v \in View :
                [s EXCEPT !.viewChanged = C, !.view = v] \in State
           /\ \A v \in View, T \in SUBSET View, H \in SUBSET View :
                [s EXCEPT !.view = v, !.timeouts = T, !.hnv = H] \in State
           /\ \A v \in View, T \in SUBSET View :
                [s EXCEPT !.view = v, !.timeouts = T] \in State
BY DEF State

\* The fields of a state.
LEMMA StateFields ==
    ASSUME NEW s \in State
    PROVE  /\ s.view \in View
           /\ s.prePrepared \in SUBSET (View \X Hash)
           /\ s.prepared \in SUBSET (View \X Hash)
           /\ s.viewChanged \in SUBSET (View \X Node \X Hash)
           /\ s.hnv \in SUBSET View
           /\ s.prepares \in SUBSET (Hash \X View \X Node)
           /\ s.commits \in SUBSET (Hash \X View \X Node)
           /\ s.final \in SUBSET Hash
           /\ s.timeouts \in SUBSET View
BY DEF State

\* Results are built from states and sequences of messages.
LEMMA ResultTypes ==
    ASSUME NEW s \in State
    PROVE  /\ Result(s, <<>>) \in Results
           /\ \A m \in Message : Result(s, <<m>>) \in Results
           /\ \A m \in Message, b \in BOOLEAN :
                [s |-> s, responses |-> <<m>>, fatal |-> b] \in Results
BY DEF Result, Results

\* processMessage keeps the state of a chain in its type and answers with messages.
LEMMA ProcessMessageType ==
    ASSUME NEW s \in State, NEW sender \in Node, NEW receiver \in Node, NEW m \in Message
    PROVE  processMessage(s, sender, receiver, m) \in Results
<1>0. /\ m.hash \in Hash
      /\ m.view \in View
      /\ m.kind \in {"PrePrepare", "Prepare", "Commit", "ViewChange", "NewView"}
      /\ m.kind # "PrePrepare" => m.sender \in Node
  BY MessageFields
<1>1. CASE m.kind = "PrePrepare"
  <2> DEFINE P == s.prepares \cup {<<m.hash, m.view, sender>>, <<m.hash, m.view, receiver>>}
             Q == s.prePrepared \cup {<<m.view, m.hash>>}
  <2>1. P \in SUBSET (Hash \X View \X Node) /\ Q \in SUBSET (View \X Hash)
    BY <1>0, StateFields
  <2>2. onPrePrepare(s, sender, receiver, m) =
          IF s.view # m.view \/ HasEntry(s.prePrepared, m.view)
          THEN Result(s, <<>>)
          ELSE Result([s EXCEPT !.prepares = P, !.prePrepared = Q],
                      <<Prepare(m.hash, m.view, receiver)>>)
    BY DEF onPrePrepare
  <2>3. processMessage(s, sender, receiver, m) = onPrePrepare(s, sender, receiver, m)
    BY <1>1 DEF processMessage
  <2> HIDE DEF P, Q
  <2> QED  BY <1>0, <2>1, <2>2, <2>3, ResultTypes, StateUpdates, MessageTypes
<1>2. CASE m.kind = "Prepare"
  <2> DEFINE P == s.prepares \cup {<<m.hash, m.view, m.sender>>}
             t == [s EXCEPT !.prepares = P]
             C == t.commits \cup {<<m.hash, m.view, receiver>>}
             Q == SetPrepared(t.prepared, m.view, m.hash)
  <2>1. t \in State
    <3>1. P \in SUBSET (Hash \X View \X Node)
      BY <1>0, <1>2, StateFields
    <3> HIDE DEF P
    <3> QED  BY <3>1, StateUpdates
  <2>2. C \in SUBSET (Hash \X View \X Node) /\ Q \in SUBSET (View \X Hash)
    <3> HIDE DEF t
    <3> QED  BY <1>0, <2>1, StateFields DEF SetPrepared
  <2>3. onPrepare(s, receiver, m) =
          IF s.view > m.view
          THEN Result(s, <<>>)
          ELSE IF \/ s.view < m.view
                  \/ ~HasQuorum(P, m.hash, m.view)
                  \/ <<m.hash, m.view, receiver>> \in s.commits
          THEN Result(t, <<>>)
          ELSE Result([t EXCEPT !.commits = C, !.prepared = Q],
                      <<Commit(m.hash, m.view, receiver)>>)
    BY DEF onPrepare
  <2>4. processMessage(s, sender, receiver, m) = onPrepare(s, receiver, m)
    BY <1>2 DEF processMessage
  <2> HIDE DEF P, C, Q, t
  <2>5. [t EXCEPT !.commits = C, !.prepared = Q] \in State
    BY <2>1, <2>2, StateUpdates
  <2> QED  BY <1>0, <2>1, <2>3, <2>4, <2>5, ResultTypes, MessageTypes
<1>3. CASE m.kind = "Commit"
  <2> DEFINE C == s.commits \cup {<<m.hash, m.view, m.sender>>}
             F == IF HasQuorum(C, m.hash, m.view) /\ s.final = {} THEN {m.hash} ELSE s.final
  <2>1. C \in SUBSET (Hash \X View \X Node) /\ F \in SUBSET Hash
    BY <1>0, <1>3, StateFields
  <2>2. onCommit(s, m) =
          IF s.view < m.view
          THEN Result(s, <<>>)
          ELSE Result([s EXCEPT !.commits = C, !.final = F], <<>>)
    BY DEF onCommit
  <2>3. processMessage(s, sender, receiver, m) = onCommit(s, m)
    BY <1>3 DEF processMessage
  <2> HIDE DEF C, F
  <2> QED  BY <1>0, <2>1, <2>2, <2>3, ResultTypes, StateUpdates
<1>4. CASE m.kind = "ViewChange"
  <2> DEFINE vcs == {t \in s.viewChanged : ~(t[1] = s.view /\ t[2] = m.sender)}
                    \cup {<<s.view, m.sender, m.hash>>}
             hashes == Hashes(vcs, s.view)
             hash == IF hashes = {} THEN NoHash ELSE CHOOSE h \in hashes : TRUE
             fatal == \E h1, h2 \in hashes : h1 # h2
  <2>1. vcs \in SUBSET (View \X Node \X Hash)
    BY <1>0, <1>4, StateFields
  <2>2. hash \in Hash
    BY ConstantTypes DEF Hashes
  <2>3. fatal \in BOOLEAN
    OBVIOUS
  <2>4. onViewChange(s, receiver, m) =
          IF s.view > m.view
          THEN Result(s, <<>>)
          ELSE IF Cardinality(Senders(vcs, s.view)) # quorum2f1
          THEN Result([s EXCEPT !.viewChanged = vcs], <<>>)
          ELSE [s |-> [s EXCEPT !.viewChanged = vcs, !.view = m.view],
                responses |-> <<NewView(hash, m.view, receiver)>>, fatal |-> fatal]
    BY DEF onViewChange
  <2>5. processMessage(s, sender, receiver, m) = onViewChange(s, receiver, m)
    BY <1>4 DEF processMessage
  <2> HIDE DEF vcs, hash, fatal
  <2> QED  BY <1>0, <2>1, <2>2, <2>3, <2>4, <2>5, ResultTypes, StateUpdates, MessageTypes
<1>5. CASE m.kind = "NewView"
  <2> DEFINE T == s.timeouts \cup {m.view}
             H == s.hnv \cup {m.view}
  <2>1. T \in SUBSET View /\ H \in SUBSET View
    BY <1>0, StateFields
  <2>2. onNewView(s, m) =
          IF s.view > m.view \/ m.view \in s.hnv
          THEN Result(s, <<>>)
          ELSE Result([s EXCEPT !.view = m.view, !.timeouts = T, !.hnv = H],
                      <<PrePrepare(m.hash, m.view)>>)
    BY DEF onNewView
  <2>3. processMessage(s, sender, receiver, m) = onNewView(s, m)
    BY <1>5 DEF processMessage
  <2> HIDE DEF T, H
  <2> QED  BY <1>0, <2>1, <2>2, <2>3, ResultTypes, StateUpdates, MessageTypes
<1> QED  BY <1>0, <1>1, <1>2, <1>3, <1>4, <1>5

\* The work record when a block is opened.
LEMMA StartWorkType ==
    ASSUME NEW c \in Chain, NEW s \in State, NEW past \in [Chain -> Nat],
           NEW atSlot \in BOOLEAN, NEW t \in BOOLEAN, t => CanTimeOut(s)
    PROVE  /\ StartWork(c, s, past, atSlot, t) \in Work
           /\ StartWork(c, s, past, atSlot, t).chain = c
           /\ StartWork(c, s, past, atSlot, t).stage = "own"
<1> DEFINE vc == IF t THEN <<ViewChange(PreparedHash(s), s.view + 1, NodeOf(c))>> ELSE <<>>
           msgs == OwnPrePrepare(c, atSlot) \o vc
           v == IF t THEN s.view + 1 ELSE s.view
           T == (IF t THEN s.timeouts \ {s.view} ELSE s.timeouts)
                \cup (IF atSlot THEN {0} ELSE {})
           u == [s EXCEPT !.view = v, !.timeouts = T]
<1>1. PreparedHash(s) \in Hash
  BY ConstantTypes DEF PreparedHash, HasEntry
<1>2. t => s.view + 1 \in View
  BY StateFields, ConstantsAssumption DEF CanTimeOut, View
<1>3. vc \in Seq(Message)
  BY <1>1, <1>2, ConstantTypes, MessageTypes
<1>4. OwnPrePrepare(c, atSlot) \in Seq(Message)
  BY ConstantTypes, MessageTypes DEF OwnPrePrepare
<1>5. msgs \in Seq(Message)
  <2> HIDE DEF vc
  <2> QED  BY <1>3, <1>4
<1>6. u \in State
  <2>1. v \in View /\ T \in SUBSET View
    BY <1>2, StateFields, ConstantTypes
  <2> HIDE DEF v, T
  <2> QED  BY <2>1, StateUpdates
<1>7. StartWork(c, s, past, atSlot, t) =
        [NoWork EXCEPT !.chain = c, !.stage = "own", !.sender = NodeOf(c), !.queue = msgs,
                       !.out = msgs, !.past = past, !.s = u]
  BY DEF StartWork
<1> HIDE DEF msgs, u
<1>8. StartWork(c, s, past, atSlot, t) =
        [chain |-> c, stage |-> "own", s |-> u, sender |-> NodeOf(c), queue |-> msgs,
         processed |-> {}, out |-> msgs, past |-> past, fatal |-> FALSE]
  BY <1>7 DEF NoWork
<1> QED  BY <1>5, <1>6, <1>8, ConstantTypes DEF Work

\* The work record when the messages of a dependency are loaded.
LEMMA LoadType ==
    ASSUME NEW w \in Work
    PROVE  /\ \A bs \in Seq(Block) :
                /\ LoadPrev(w, bs) \in Work
                /\ LoadPrev(w, bs).chain = w.chain
                /\ LoadPrev(w, bs).stage = "deps"
           /\ \A d \in Chain, b \in Block :
                /\ LoadDep(w, d, b) \in Work
                /\ LoadDep(w, d, b).chain = w.chain
                /\ LoadDep(w, d, b).stage = w.stage
<1>1. ASSUME NEW bs \in Seq(Block)
      PROVE  /\ LoadPrev(w, bs) \in Work
             /\ LoadPrev(w, bs).chain = w.chain
             /\ LoadPrev(w, bs).stage = "deps"
  <2> DEFINE q == IF bs = <<>> THEN <<>> ELSE bs[Len(bs)].out
  <2>1. q \in Seq(Message)
    <3>1. CASE bs # <<>>
      <4>1. bs[Len(bs)] \in Block
        BY <3>1
      <4> QED  BY <3>1, <4>1 DEF Block
    <3> QED  BY <3>1
  <2>2. LoadPrev(w, bs) = [w EXCEPT !.stage = "deps", !.queue = q]
    BY DEF LoadPrev
  <2> HIDE DEF q
  <2> QED  BY <2>1, <2>2 DEF Work
<1>2. ASSUME NEW d \in Chain, NEW b \in Block
      PROVE  /\ LoadDep(w, d, b) \in Work
             /\ LoadDep(w, d, b).chain = w.chain
             /\ LoadDep(w, d, b).stage = w.stage
  <2> DEFINE p == [w.past EXCEPT ![d] = @ + 1]
  <2>1. p \in [Chain -> Nat] /\ b.out \in Seq(Message) /\ NodeOf(d) \in Node
    BY ConstantTypes DEF Work, Block
  <2>2. LoadDep(w, d, b) = [w EXCEPT !.sender = NodeOf(d), !.queue = b.out, !.past = p]
    BY DEF LoadDep, Work
  <2> HIDE DEF p
  <2> QED  BY <2>1, <2>2 DEF Work
<1> QED  BY <1>1, <1>2

\* The work record after a message.
LEMMA StepMessageType ==
    ASSUME NEW w \in Work, w.chain \in Chain, w.queue # <<>>
    PROVE  /\ StepMessage(w) \in Work
           /\ StepMessage(w).chain = w.chain
           /\ StepMessage(w).stage = w.stage
<1> DEFINE m == Head(w.queue)
           r == processMessage(w.s, w.sender, NodeOf(w.chain), m)
<1>1. /\ m \in Message
      /\ w.s \in State
      /\ w.sender \in Node
      /\ Tail(w.queue) \in Seq(Message)
      /\ w.out \in Seq(Message)
      /\ w.processed \in SUBSET Message
  BY DEF Work
<1>2. r \in Results
  BY <1>1, ConstantTypes, ProcessMessageType
<1>3. r.s \in State /\ r.responses \in Seq(Message) /\ r.fatal \in BOOLEAN
  BY <1>2 DEF Results
<1>4. StepMessage(w) =
        IF m \in w.processed
        THEN [w EXCEPT !.queue = Tail(w.queue)]
        ELSE [w EXCEPT !.s = r.s, !.queue = Tail(w.queue) \o r.responses,
                       !.processed = w.processed \cup {m}, !.out = w.out \o r.responses,
                       !.fatal = r.fatal]
  BY DEF StepMessage
<1>5. /\ Tail(w.queue) \o r.responses \in Seq(Message)
      /\ w.out \o r.responses \in Seq(Message)
      /\ w.processed \cup {m} \in SUBSET Message
  BY <1>1, <1>3
<1> HIDE DEF m, r
<1>6. CASE m \in w.processed
  <2>1. StepMessage(w) = [w EXCEPT !.queue = Tail(w.queue)]
    BY <1>4, <1>6
  <2> QED  BY <1>1, <2>1 DEF Work
<1>7. CASE m \notin w.processed
  <2> DEFINE q == Tail(w.queue) \o r.responses
             o == w.out \o r.responses
             p == w.processed \cup {m}
  <2>1. StepMessage(w) = [w EXCEPT !.s = r.s, !.queue = q, !.processed = p, !.out = o,
                                   !.fatal = r.fatal]
    BY <1>4, <1>7
  <2>2. q \in Seq(Message) /\ o \in Seq(Message) /\ p \in SUBSET Message
    BY <1>5
  <2> HIDE DEF q, o, p
  <2> QED  BY <1>3, <2>1, <2>2 DEF Work
<1> QED  BY <1>6, <1>7

\* Type correctness of the interpreter.
THEOREM TypeCorrect == Spec => []TypeOK
<1>1. Init => TypeOK
  <2> SUFFICES ASSUME Init PROVE TypeOK
    OBVIOUS
  <2>1. NoWork \in Work
    BY ConstantTypes, ConstantsAssumption DEF NoWork, Work
  <2> QED  BY <2>1, ConstantTypes DEF Init, TypeOK
<1>2. TypeOK /\ [Next]_vars => TypeOK'
  <2> SUFFICES ASSUME TypeOK, [Next]_vars PROVE TypeOK'
    OBVIOUS
  <2> USE DEF TypeOK
  <2>1. ASSUME NEW c \in Chain, OpenBlock(c) PROVE TypeOK'
    <3>1. PICK t \in BOOLEAN : /\ t => CanTimeOut(state[c])
                               /\ work' = StartWork(c, state[c], LastPast(blocks[c]), AtSlot(c), t)
      BY <2>1 DEF OpenBlock
    <3>2. LastPast(blocks[c]) \in [Chain -> Nat]
      <4>1. CASE blocks[c] = <<>>
        BY <4>1 DEF LastPast
      <4>2. CASE blocks[c] # <<>>
        <5>1. blocks[c][Len(blocks[c])] \in Block
          BY <4>2
        <5> QED  BY <4>2, <5>1 DEF LastPast, Block
      <4> QED  BY <4>1, <4>2
    <3>3. AtSlot(c) \in BOOLEAN
      BY DEF AtSlot
    <3>4. state[c] \in State
      OBVIOUS
    <3>5. work' \in Work /\ work'.chain = c /\ work'.stage = "own"
      BY <3>1, <3>2, <3>3, <3>4, StartWorkType
    <3>6. UNCHANGED <<state, blocks>>
      BY <2>1 DEF OpenBlock
    <3> QED  BY <3>5, <3>6
  <2>2. CASE ProcessMessage
    <3>1. work # NoWork
      BY <2>2 DEF ProcessMessage, NoWork
    <3> QED  BY <2>2, <3>1, StepMessageType DEF ProcessMessage
  <2>3. CASE ProcessPrev
    <3>1. work # NoWork
      BY <2>3 DEF ProcessPrev, NoWork
    <3> QED  BY <2>3, <3>1, LoadType DEF ProcessPrev
  <2>4. ASSUME NEW d \in Chain, ProcessDep(d) PROVE TypeOK'
    <3>1. work # NoWork
      BY <2>4 DEF ProcessDep, NoWork
    <3>2. blocks[d][work.past[d] + 1] \in Block
      BY <2>4 DEF ProcessDep, CanLoad, Work
    <3> QED  BY <2>4, <3>1, <3>2, LoadType DEF ProcessDep
  <2>5. CASE CloseBlock
    <3>1. work # NoWork /\ work.chain \in Chain
      BY <2>5 DEF CloseBlock, NoWork
    <3>2. Closed(work) \in Block
      BY <3>1 DEF Closed, Block, Work
    <3>3. work.s \in State
      BY DEF Work
    <3>4. state' \in [Chain -> State]
      BY <2>5, <3>3 DEF CloseBlock
    <3>5. blocks' \in [Chain -> Seq(Block)]
      BY <2>5, <3>1, <3>2 DEF CloseBlock
    <3>6. work' = NoWork /\ NoWork \in Work
      BY <2>5, ConstantTypes, ConstantsAssumption DEF CloseBlock, NoWork, Work
    <3> QED  BY <3>4, <3>5, <3>6
  <2>6. CASE UNCHANGED vars
    BY <2>6 DEF vars
  <2> QED  BY <2>1, <2>2, <2>3, <2>4, <2>5, <2>6 DEF Next
<1> QED  BY <1>1, <1>2, PTL DEF Spec
=============================================================================
