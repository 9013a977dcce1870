---------------------- MODULE InterpreterSafetyProofs ----------------------
(***************************************************************************)
(* At most one block is decided for a position, and a quorum of view        *)
(* changes never carries two blocks: proofs for every instance with 3f + 1  *)
(* nodes of which at most f fork their chain, by way of SafetyInv.          *)
(***************************************************************************)
EXTENDS InterpreterProofs, InterpreterInvariant

Ballots == [Hash -> SUBSET Node]
Grows(V, W) == \A h \in Hash : V[h] \subseteq W[h]
OneGood(V) == \A h, k \in Hash \ {NoHash} : Good(V, h) /\ Good(V, k) => h = k

-----------------------------------------------------------------------------
\* f and the quorum are natural numbers.
LEMMA QuorumNat ==
    /\ Cardinality(Node) \in Nat
    /\ f \in Nat
    /\ quorum2f1 \in Nat
    /\ quorum2f1 = 2 * f + 1
<1>1. Cardinality(Node) \in Nat
  BY ConstantsAssumption, FS_CardinalityType
<1>2. Cardinality(Node) # 0
  BY ConstantsAssumption, FS_EmptySet
<1> QED  BY <1>1, <1>2 DEF f, quorum2f1

\* Votes are never withdrawn, so what is Good stays Good.
LEMMA GoodGrows ==
    ASSUME NEW V \in Ballots, NEW W \in Ballots, Grows(V, W), NEW h \in Hash, Good(V, h)
    PROVE  Good(W, h)
<1>1. V[h] \subseteq W[h] /\ V[h] \subseteq Node /\ W[h] \subseteq Node
  BY DEF Grows, Ballots
<1>2. /\ IsFiniteSet(W[h])
      /\ Cardinality(V[h]) \in Nat
      /\ Cardinality(W[h]) \in Nat
      /\ Cardinality(V[h]) <= Cardinality(W[h])
  <2>1. IsFiniteSet(W[h])
    BY <1>1, ConstantsAssumption, FS_Subset
  <2>2. IsFiniteSet(V[h]) /\ Cardinality(V[h]) <= Cardinality(W[h])
    BY <1>1, <2>1, FS_Subset
  <2> QED  BY <2>1, <2>2, FS_CardinalityType
<1> QED  BY <1>2, QuorumNat DEF Good

\* A message and a state stay Good when votes are added.
LEMMA GoodMessageGrows ==
    ASSUME NEW V \in Ballots, NEW W \in Ballots, Grows(V, W),
           NEW m \in Message, NEW n \in Node, GoodMessage(V, m, n)
    PROVE  GoodMessage(W, m, n)
BY GoodGrows, MessageFields DEF GoodMessage, Grows

LEMMA GoodMessagesGrow ==
    ASSUME NEW V \in Ballots, NEW W \in Ballots, Grows(V, W),
           NEW q \in Seq(Message), NEW n \in Node, GoodMessages(V, q, n)
    PROVE  GoodMessages(W, q, n)
BY GoodMessageGrows DEF GoodMessages

LEMMA GoodStateGrows ==
    ASSUME NEW V \in Ballots, NEW W \in Ballots, Grows(V, W), NEW s \in State, GoodState(V, s)
    PROVE  GoodState(W, s)
<1>1. \A h \in Hash : V[h] \subseteq W[h]
  BY DEF Grows
<1>2. \A h \in Hash : Good(V, h) => Good(W, h)
  BY GoodGrows
<1> QED  BY <1>1, <1>2, StateFields DEF GoodState

\* Two sets of 2f + 1 nodes out of 3f + 1 share a node outside any set of f nodes.
LEMMA QuorumsShareCorrect ==
    ASSUME Resilient, NEW A \in SUBSET Node, NEW B \in SUBSET Node,
           Cardinality(A) >= quorum2f1, Cardinality(B) >= quorum2f1
    PROVE  \E n \in A \cap B : n \notin Faulty
<1> SUFFICES ASSUME A \cap B \subseteq Faulty PROVE FALSE
  OBVIOUS
<1>1. IsFiniteSet(A) /\ IsFiniteSet(B) /\ IsFiniteSet(Faulty)
  BY ConstantsAssumption, FS_Subset DEF Faulty
<1>2. /\ IsFiniteSet(A \cup B)
      /\ IsFiniteSet(A \cap B)
      /\ Cardinality(A \cup B) = Cardinality(A) + Cardinality(B) - Cardinality(A \cap B)
  BY <1>1, FS_Union, FS_Intersection
<1>3. Cardinality(A \cup B) <= Cardinality(Node)
  BY ConstantsAssumption, FS_Subset
<1>4. Cardinality(A \cap B) <= Cardinality(Faulty)
  BY <1>1, FS_Subset
<1>5. /\ Cardinality(A) \in Nat
      /\ Cardinality(B) \in Nat
      /\ Cardinality(A \cap B) \in Nat
      /\ Cardinality(A \cup B) \in Nat
      /\ Cardinality(Faulty) \in Nat
  BY <1>1, <1>2, FS_CardinalityType
<1> QED  BY <1>2, <1>3, <1>4, <1>5, QuorumNat DEF Resilient

-----------------------------------------------------------------------------
\* processMessage never takes back a pre-prepare.
LEMMA PrePreparedGrows ==
    ASSUME NEW s \in State, NEW sender \in Node, NEW receiver \in Node, NEW m \in Message
    PROVE  s.prePrepared \subseteq processMessage(s, sender, receiver, m).s.prePrepared
<1>0. m.kind \in {"PrePrepare", "Prepare", "Commit", "ViewChange", "NewView"}
  BY MessageFields
<1>1. CASE m.kind = "PrePrepare"
  BY <1>1 DEF processMessage, onPrePrepare, Result, State
<1>2. CASE m.kind = "Prepare"
  BY <1>2 DEF processMessage, onPrepare, Result, State
<1>3. CASE m.kind = "Commit"
  BY <1>3 DEF processMessage, onCommit, Result, State
<1>4. CASE m.kind = "ViewChange"
  BY <1>4 DEF processMessage, onViewChange, Result, State
<1>5. CASE m.kind = "NewView"
  BY <1>5 DEF processMessage, onNewView, Result, State
<1> QED  BY <1>0, <1>1, <1>2, <1>3, <1>4, <1>5

\* processMessage keeps a state Good, answers with Good messages, and finds at most
\* one block in a quorum of view changes.  V holds the votes before, W those after.
LEMMA MessageStep ==
    ASSUME NEW s \in State, NEW sender \in Node, NEW receiver \in Node, NEW m \in Message,
           NEW V \in Ballots, NEW W \in Ballots, Grows(V, W), OneGood(V),
           \A h \in Hash : IsProposal(h) => Proposer \in V[h],
           GoodState(V, s), GoodMessage(V, m, sender),
           \A h \in Hash : <<0, h>> \in processMessage(s, sender, receiver, m).s.prePrepared
                               => receiver \in W[h]
    PROVE  LET r == processMessage(s, sender, receiver, m)
           IN  /\ GoodState(W, r.s)
               /\ \A n \in Node : GoodMessages(W, r.responses, n)
               /\ ~r.fatal
<1> DEFINE r == processMessage(s, sender, receiver, m)
<1>0. /\ m.hash \in Hash
      /\ m.view \in View
      /\ m.kind \in {"PrePrepare", "Prepare", "Commit", "ViewChange", "NewView"}
      /\ m.kind # "PrePrepare" => m.sender \in Node
  BY MessageFields
<1>g. GoodState(W, s) /\ GoodMessage(W, m, sender)
  BY GoodStateGrows, GoodMessageGrows
<1>n. \A n \in Node : GoodMessages(W, <<>>, n)
  BY DEF GoodMessages
<1>1. CASE m.kind = "PrePrepare"
  <2>1. r = onPrePrepare(s, sender, receiver, m)
    BY <1>1 DEF processMessage
  <2>2. CASE s.view # m.view \/ HasEntry(s.prePrepared, m.view)
    <3>1. r = Result(s, <<>>)
      BY <2>1, <2>2 DEF onPrePrepare
    <3> QED  BY <3>1, <1>g, <1>n DEF Result
  <2>3. CASE s.view = m.view /\ ~HasEntry(s.prePrepared, m.view)
    <3> DEFINE P == s.prepares \cup {<<m.hash, m.view, sender>>, <<m.hash, m.view, receiver>>}
               Q == s.prePrepared \cup {<<m.view, m.hash>>}
    <3>0. r = Result([s EXCEPT !.prepares = P, !.prePrepared = Q],
                     <<Prepare(m.hash, m.view, receiver)>>)
      BY <2>1, <2>3 DEF onPrePrepare
    <3>1. /\ r.s.prepares = s.prepares \cup {<<m.hash, m.view, sender>>, <<m.hash, m.view, receiver>>}
          /\ r.s.prePrepared = s.prePrepared \cup {<<m.view, m.hash>>}
          /\ r.s.prepared = s.prepared
          /\ r.s.viewChanged = s.viewChanged
          /\ r.s.final = s.final
          /\ r.responses = <<Prepare(m.hash, m.view, receiver)>>
          /\ r.fatal = FALSE
      <4> HIDE DEF P, Q
      <4>1. /\ r.s = [s EXCEPT !.prepares = P, !.prePrepared = Q]
            /\ r.responses = <<Prepare(m.hash, m.view, receiver)>>
            /\ r.fatal = FALSE
        BY <3>0 DEF Result
      <4> QED  BY <4>1 DEF State, P, Q
    <3>2. m.view = 0 => receiver \in W[m.hash] /\ sender \in W[m.hash] /\ IsProposal(m.hash)
      BY <1>0, <1>1, <3>1 DEF GoodMessage, Grows
    <3>3. m.view # 0 => Good(W, m.hash)
      BY <1>1, <1>g DEF GoodMessage
    <3>4. \A n \in Node : GoodMessages(W, r.responses, n)
      BY <3>1, <3>2, <3>3 DEF GoodMessages, GoodMessage, Prepare
    <3>5. ASSUME NEW h \in Hash, m.view = 0, <<0, h>> \in s.prePrepared PROVE FALSE
      BY <2>3, <3>5 DEF HasEntry
    <3>6. GoodState(W, r.s)
      BY <1>0, <1>g, <3>1, <3>2, <3>5 DEF GoodState
    <3> QED  BY <3>1, <3>4, <3>6
  <2> QED  BY <2>2, <2>3
<1>2. CASE m.kind = "Prepare"
  <2> DEFINE P == s.prepares \cup {<<m.hash, m.view, m.sender>>}
  <2>1. r = onPrepare(s, receiver, m)
    BY <1>2 DEF processMessage
  <2>2. CASE s.view > m.view
    <3>1. r = Result(s, <<>>)
      BY <2>1, <2>2 DEF onPrepare
    <3> QED  BY <3>1, <1>g, <1>n DEF Result
  <2>g. \A h \in Hash, n \in Node : <<h, 0, n>> \in P => n \in W[h]
    BY <1>0, <1>2, <1>g DEF GoodState, GoodMessage
  <2>3. CASE ~(s.view > m.view)
    <3>0. /\ r.s.prepares = P
          /\ r.s.prePrepared = s.prePrepared
          /\ r.s.viewChanged = s.viewChanged
          /\ r.s.final = s.final
          /\ r.fatal = FALSE
      BY <2>1, <2>3 DEF onPrepare, Result, State
    <3>1. CASE \/ s.view < m.view
               \/ ~HasQuorum(P, m.hash, m.view)
               \/ <<m.hash, m.view, receiver>> \in s.commits
      <4>1. r.s.prepared = s.prepared /\ r.responses = <<>>
        BY <2>1, <2>3, <3>1 DEF onPrepare, Result, State
      <4>2. GoodState(W, r.s)
        BY <1>g, <2>g, <3>0, <4>1 DEF GoodState
      <4> QED  BY <1>n, <3>0, <4>1, <4>2
    <3>2. CASE ~(\/ s.view < m.view
                 \/ ~HasQuorum(P, m.hash, m.view)
                 \/ <<m.hash, m.view, receiver>> \in s.commits)
      <4>1. /\ r.s.prepared = SetPrepared(s.prepared, m.view, m.hash)
            /\ r.responses = <<Commit(m.hash, m.view, receiver)>>
        <5> DEFINE C == s.commits \cup {<<m.hash, m.view, receiver>>}
                   Q == SetPrepared(s.prepared, m.view, m.hash)
        <5>1. r = Result([[s EXCEPT !.prepares = P] EXCEPT !.commits = C, !.prepared = Q],
                         <<Commit(m.hash, m.view, receiver)>>)
          BY <2>1, <2>3, <3>2 DEF onPrepare, State
        <5> HIDE DEF C, Q, P
        <5>2. /\ r.s = [[s EXCEPT !.prepares = P] EXCEPT !.commits = C, !.prepared = Q]
              /\ r.responses = <<Commit(m.hash, m.view, receiver)>>
          BY <5>1 DEF Result
        <5> QED  BY <5>2 DEF State, Q
      <4>2. Good(W, m.hash)
        <5>1. CASE m.view = 0
          <6>1. Bits(P, m.hash, 0) \subseteq W[m.hash]
            BY <1>0, <2>g DEF Bits
          <6>2. Cardinality(Bits(P, m.hash, 0)) = quorum2f1
            BY <3>2, <5>1 DEF HasQuorum
          <6>3. IsFiniteSet(W[m.hash])
            BY <1>0, ConstantsAssumption, FS_Subset DEF Ballots
          <6>4. Cardinality(Bits(P, m.hash, 0)) <= Cardinality(W[m.hash])
            BY <6>1, <6>3, FS_Subset
          <6> QED  BY <6>2, <6>3, <6>4, FS_CardinalityType, QuorumNat DEF Good
        <5>2. CASE m.view # 0
          BY <5>2, <1>g DEF GoodMessage
        <5> QED  BY <5>1, <5>2
      <4>3. \A n \in Node : GoodMessages(W, r.responses, n)
        BY <4>1, <4>2 DEF GoodMessages, GoodMessage, Commit
      <4>4. \A v \in View, h \in Hash : <<v, h>> \in r.s.prepared => Good(W, h)
        BY <1>g, <4>1, <4>2 DEF SetPrepared, GoodState
      <4>5. GoodState(W, r.s)
        BY <1>g, <2>g, <3>0, <4>4 DEF GoodState
      <4> QED  BY <3>0, <4>3, <4>5
    <3> QED  BY <3>1, <3>2
  <2> QED  BY <2>2, <2>3
<1>3. CASE m.kind = "Commit"
  <2>1. r = onCommit(s, m)
    BY <1>3 DEF processMessage
  <2>2. CASE s.view < m.view
    <3>1. r = Result(s, <<>>)
      BY <2>1, <2>2 DEF onCommit
    <3> QED  BY <3>1, <1>g, <1>n DEF Result
  <2>3. CASE ~(s.view < m.view)
    <3>1. /\ r.s.prepares = s.prepares
          /\ r.s.prePrepared = s.prePrepared
          /\ r.s.prepared = s.prepared
          /\ r.s.viewChanged = s.viewChanged
          /\ r.s.final \subseteq s.final \cup {m.hash}
          /\ r.responses = <<>>
          /\ r.fatal = FALSE
      <4> DEFINE C == s.commits \cup {<<m.hash, m.view, m.sender>>}
                 F == IF HasQuorum(C, m.hash, m.view) /\ s.final = {} THEN {m.hash} ELSE s.final
      <4>1. r = Result([s EXCEPT !.commits = C, !.final = F], <<>>)
        BY <2>1, <2>3 DEF onCommit
      <4>2. F \subseteq s.final \cup {m.hash}
        OBVIOUS
      <4> HIDE DEF C, F
      <4>3. r.s = [s EXCEPT !.commits = C, !.final = F] /\ r.responses = <<>> /\ r.fatal = FALSE
        BY <4>1 DEF Result
      <4> QED  BY <4>2, <4>3 DEF State
    <3>2. Good(W, m.hash)
      BY <1>3, <1>g DEF GoodMessage
    <3>3. GoodState(W, r.s)
      BY <1>g, <3>1, <3>2 DEF GoodState
    <3> QED  BY <1>n, <3>1, <3>3
  <2> QED  BY <2>2, <2>3
<1>4. CASE m.kind = "ViewChange"
  <2> DEFINE vcs == {t \in s.viewChanged : ~(t[1] = s.view /\ t[2] = m.sender)}
                    \cup {<<s.view, m.sender, m.hash>>}
             hashes == Hashes(vcs, s.view)
             hash == IF hashes = {} THEN NoHash ELSE CHOOSE h \in hashes : TRUE
             fatal == \E h1, h2 \in hashes : h1 # h2
  <2>1. r = onViewChange(s, receiver, m)
    BY <1>4 DEF processMessage
  <2>2. CASE s.view > m.view
    <3>1. r = Result(s, <<>>)
      BY <2>1, <2>2 DEF onViewChange
    <3> QED  BY <3>1, <1>g, <1>n DEF Result
  <2>3. CASE ~(s.view > m.view)
    <3>1. \A v \in View, n \in Node, h \in Hash : <<v, n, h>> \in vcs => Good(V, h)
      BY <1>0, <1>4 DEF GoodState, GoodMessage
    <3>2. \A h \in hashes : h \in Hash \ {NoHash} /\ Good(V, h)
      BY <3>1, StateFields DEF Hashes
    <3>3. ~fatal
      BY <3>2 DEF OneGood
    <3>4. hash \in Hash /\ Good(W, hash)
      <4>1. CASE hashes = {}
        BY <4>1, ConstantTypes DEF Good
      <4>2. CASE hashes # {}
        <5>1. hash \in hashes
          BY <4>2
        <5> QED  BY <5>1, <3>2, GoodGrows
      <4> QED  BY <4>1, <4>2
    <3>0. r = IF Cardinality(Senders(vcs, s.view)) # quorum2f1
              THEN Result([s EXCEPT !.viewChanged = vcs], <<>>)
              ELSE [s |-> [s EXCEPT !.viewChanged = vcs, !.view = m.view],
                    responses |-> <<NewView(hash, m.view, receiver)>>, fatal |-> fatal]
      BY <2>1, <2>3 DEF onViewChange
    <3> HIDE DEF vcs, hash, fatal
    <3>a. \/ /\ r.s = [s EXCEPT !.viewChanged = vcs]
             /\ r.responses = <<>>
             /\ r.fatal = FALSE
          \/ /\ r.s = [s EXCEPT !.viewChanged = vcs, !.view = m.view]
             /\ r.responses = <<NewView(hash, m.view, receiver)>>
             /\ r.fatal = fatal
      <4> HIDE DEF r
      <4>1. CASE Cardinality(Senders(vcs, s.view)) # quorum2f1
        BY <3>0, <4>1 DEF Result
      <4>2. CASE Cardinality(Senders(vcs, s.view)) = quorum2f1
        BY <3>0, <4>2
      <4> QED  BY <4>1, <4>2
    <3>5. /\ r.s.prepares = s.prepares
          /\ r.s.prePrepared = s.prePrepared
          /\ r.s.prepared = s.prepared
          /\ r.s.viewChanged = vcs
          /\ r.s.final = s.final
      <4> HIDE DEF r
      <4> QED  BY <3>a DEF State
    <3>6. r.responses = <<>> \/ r.responses = <<NewView(hash, m.view, receiver)>>
      BY <3>a
    <3>7. r.fatal = FALSE \/ r.fatal = fatal
      BY <3>a
    <3>8. \A v \in View, n \in Node, h \in Hash : <<v, n, h>> \in vcs => Good(W, h)
      BY <3>1, GoodGrows
    <3>9. GoodState(W, r.s)
      BY <1>g, <3>5, <3>8 DEF GoodState
    <3>10. m.view # 0
      BY <1>4 DEF GoodMessage
    <3>11. \A n \in Node : GoodMessages(W, r.responses, n)
      <4>1. CASE r.responses = <<>>
        BY <4>1, <1>n
      <4>2. CASE r.responses = <<NewView(hash, m.view, receiver)>>
        BY <4>2, <3>4, <3>10 DEF GoodMessages, GoodMessage, NewView
      <4> QED  BY <3>6, <4>1, <4>2
    <3> QED  BY <3>3, <3>7, <3>9, <3>11
  <2> QED  BY <2>2, <2>3
<1>5. CASE m.kind = "NewView"
  <2>1. r = onNewView(s, m)
    BY <1>5 DEF processMessage
  <2>2. CASE s.view > m.view \/ m.view \in s.hnv
    <3>1. r = Result(s, <<>>)
      BY <2>1, <2>2 DEF onNewView
    <3> QED  BY <3>1, <1>g, <1>n DEF Result
  <2>3. CASE ~(s.view > m.view \/ m.view \in s.hnv)
    <3>1. /\ r.s.prepares = s.prepares
          /\ r.s.prePrepared = s.prePrepared
          /\ r.s.prepared = s.prepared
          /\ r.s.viewChanged = s.viewChanged
          /\ r.s.final = s.final
          /\ r.responses = <<PrePrepare(m.hash, m.view)>>
          /\ r.fatal = FALSE
      <4> DEFINE T == s.timeouts \cup {m.view}
                 H == s.hnv \cup {m.view}
      <4>1. r = Result([s EXCEPT !.view = m.view, !.timeouts = T, !.hnv = H],
                       <<PrePrepare(m.hash, m.view)>>)
        BY <2>1, <2>3 DEF onNewView
      <4> HIDE DEF T, H
      <4>2. /\ r.s = [s EXCEPT !.view = m.view, !.timeouts = T, !.hnv = H]
            /\ r.responses = <<PrePrepare(m.hash, m.view)>>
            /\ r.fatal = FALSE
        BY <4>1 DEF Result
      <4> QED  BY <4>2 DEF State
    <3>2. Good(W, m.hash) /\ m.view # 0
      BY <1>5, <1>g DEF GoodMessage
    <3>3. \A n \in Node : GoodMessages(W, r.responses, n)
      BY <3>1, <3>2 DEF GoodMessages, GoodMessage, PrePrepare
    <3>4. GoodState(W, r.s)
      BY <1>g, <3>1 DEF GoodState
    <3> QED  BY <3>1, <3>3, <3>4
  <2> QED  BY <2>2, <2>3
<1> QED  BY <1>0, <1>1, <1>2, <1>3, <1>4, <1>5

-----------------------------------------------------------------------------
\* The empty chain of NoWork is no chain.
LEMMA NoChainIsNone == NoChain \notin Chain
BY ConstantsAssumption DEF NoChain

LEMMA VotesType == Votes \in Ballots /\ Votes' \in Ballots
BY DEF Votes, Ballots

\* A correct node votes for one hash, so there is one Good block.
LEMMA VotesOneGood ==
    ASSUME Resilient, SafetyInv
    PROVE  OneGood(Votes)
<1> SUFFICES ASSUME NEW h \in Hash \ {NoHash}, NEW k \in Hash \ {NoHash},
                    Good(Votes, h), Good(Votes, k)
             PROVE  h = k
  BY DEF OneGood
<1>1. Votes[h] \in SUBSET Node /\ Votes[k] \in SUBSET Node
  BY VotesType DEF Ballots
<1>2. Cardinality(Votes[h]) >= quorum2f1 /\ Cardinality(Votes[k]) >= quorum2f1
  BY DEF Good
<1>3. PICK n \in Votes[h] \cap Votes[k] : n \notin Faulty
  BY <1>1, <1>2, QuorumsShareCorrect
<1>4. \A c, d \in Chain : NodeOf(c) = n /\ NodeOf(d) = n => c = d
  BY <1>1, <1>3 DEF Faulty
<1>5. \A c \in Chain : GoodState(Votes, Current(c))
  BY DEF SafetyInv, Current
<1>6. ASSUME NEW g \in Hash, n \in Votes[g]
      PROVE  \/ n = Proposer /\ IsProposal(g)
             \/ \E c \in Chain : NodeOf(c) = n /\ <<0, g>> \in Current(c).prePrepared
  BY <1>6 DEF Votes
<1>7. CASE n = Proposer
  <2>1. IsProposal(h) /\ IsProposal(k)
    BY <1>3, <1>5, <1>6 DEF GoodState
  <2> QED  BY <1>4, <1>7, <2>1 DEF IsProposal
<1>8. CASE n # Proposer
  <2>1. PICK c \in Chain : NodeOf(c) = n /\ <<0, h>> \in Current(c).prePrepared
    BY <1>3, <1>6, <1>8
  <2>2. PICK d \in Chain : NodeOf(d) = n /\ <<0, k>> \in Current(d).prePrepared
    BY <1>3, <1>6, <1>8
  <2>3. c = d
    BY <1>4, <2>1, <2>2
  <2> QED  BY <1>5, <2>1, <2>2, <2>3 DEF GoodState
<1> QED  BY <1>7, <1>8

\* The state a block starts from has the pre-prepares of its chain.
LEMMA StartWorkState ==
    ASSUME NEW c \in Chain, NEW s \in State, NEW past, NEW atSlot, NEW t
    PROVE  LET u == StartWork(c, s, past, atSlot, t).s
           IN  /\ u.prePrepared = s.prePrepared
               /\ u.prepares = s.prepares
               /\ u.prepared = s.prepared
               /\ u.viewChanged = s.viewChanged
               /\ u.final = s.final
<1> DEFINE v == IF t THEN s.view + 1 ELSE s.view
           T == (IF t THEN s.timeouts \ {s.view} ELSE s.timeouts)
                \cup (IF atSlot THEN {0} ELSE {})
<1>1. StartWork(c, s, past, atSlot, t).s = [s EXCEPT !.view = v, !.timeouts = T]
  BY DEF StartWork, NoWork
<1> HIDE DEF v, T
<1> QED  BY <1>1 DEF State

\* No step takes a vote back.
LEMMA VotesGrow ==
    ASSUME TypeOK, [Next]_vars
    PROVE  Grows(Votes, Votes')
<1> SUFFICES ASSUME NEW c \in Chain
             PROVE  Current(c).prePrepared \subseteq Current(c)'.prePrepared
  BY DEF Grows, Votes
<1> USE NoChainIsNone DEF TypeOK
<1>1. ASSUME NEW d \in Chain, OpenBlock(d)
      PROVE  Current(c).prePrepared \subseteq Current(c)'.prePrepared
  <2>1. Current(c) = state[c]
    BY <1>1 DEF OpenBlock, Current, NoWork
  <2>2. PICK t \in BOOLEAN : work' = StartWork(d, state[d], LastPast(blocks[d]), AtSlot(d), t)
    BY <1>1 DEF OpenBlock
  <2>3. work'.chain = d
    BY <2>2 DEF StartWork, NoWork
  <2>4. work'.s.prePrepared = state[d].prePrepared
    BY <2>2, StartWorkState
  <2>5. state' = state
    BY <1>1 DEF OpenBlock
  <2> QED  BY <2>1, <2>3, <2>4, <2>5 DEF Current
<1>2. CASE ProcessMessage
  <2>1. work.chain \in Chain
    BY <1>2 DEF ProcessMessage, NoWork
  <2>2. work'.chain = work.chain
    BY <1>2, <2>1, StepMessageType DEF ProcessMessage
  <2>3. work.s.prePrepared \subseteq work'.s.prePrepared
    <3> DEFINE m == Head(work.queue)
    <3>1. m \in Message /\ work.s \in State /\ work.sender \in Node /\ NodeOf(work.chain) \in Node
      BY <1>2, <2>1, ConstantTypes DEF ProcessMessage, Work
    <3>2. \/ work'.s = work.s
          \/ work'.s = processMessage(work.s, work.sender, NodeOf(work.chain), m).s
      BY <1>2 DEF ProcessMessage, StepMessage, Work
    <3> QED  BY <3>1, <3>2, PrePreparedGrows
  <2>4. state' = state
    BY <1>2 DEF ProcessMessage
  <2> QED  BY <2>2, <2>3, <2>4 DEF Current
<1>3. CASE ProcessPrev
  <2>1. work'.chain = work.chain /\ work'.s = work.s /\ state' = state
    BY <1>3 DEF ProcessPrev, LoadPrev, Work
  <2> QED  BY <2>1 DEF Current
<1>4. ASSUME NEW d \in Chain, ProcessDep(d)
      PROVE  Current(c).prePrepared \subseteq Current(c)'.prePrepared
  <2>1. work'.chain = work.chain /\ work'.s = work.s /\ state' = state
    BY <1>4 DEF ProcessDep, LoadDep, Work
  <2> QED  BY <2>1 DEF Current
<1>5. CASE CloseBlock
  <2>1. work.chain \in Chain
    BY <1>5 DEF CloseBlock, NoWork
  <2>2. work'.chain = NoChain /\ state' = [state EXCEPT ![work.chain] = work.s]
    BY <1>5 DEF CloseBlock, NoWork
  <2> QED  BY <2>1, <2>2 DEF Current
<1>6. CASE UNCHANGED vars
  BY <1>6 DEF vars, Current
<1> QED  BY <1>1, <1>2, <1>3, <1>4, <1>5, <1>6 DEF Next

\* The votes of a chain are counted, those of the block being interpreted too.
LEMMA ProposerVotes == \A h \in Hash : IsProposal(h) => Proposer \in Votes[h]
BY ConstantsAssumption DEF Votes

\* What a block starts with is Good: its own proposal, or the prepared hash of the
\* view that timed out.
LEMMA StartWorkGood ==
    ASSUME NEW c \in Chain, NEW s \in State, NEW past \in [Chain -> Nat],
           NEW atSlot \in BOOLEAN, NEW t \in BOOLEAN, t => CanTimeOut(s),
           NEW V \in Ballots, GoodState(V, s)
    PROVE  LET w == StartWork(c, s, past, atSlot, t)
           IN  /\ GoodState(V, w.s)
               /\ GoodMessages(V, w.queue, w.sender)
               /\ GoodMessages(V, w.out, NodeOf(c))
               /\ ~w.fatal
<1> DEFINE w == StartWork(c, s, past, atSlot, t)
           vc == IF t THEN <<ViewChange(PreparedHash(s), s.view + 1, NodeOf(c))>> ELSE <<>>
           own == OwnPrePrepare(c, atSlot)
<1>1. GoodState(V, w.s)
  BY StartWorkState DEF GoodState
<1>2. w.queue = own \o vc /\ w.out = own \o vc /\ w.sender = NodeOf(c) /\ w.fatal = FALSE
  BY DEF StartWork, NoWork
<1>3. PreparedHash(s) \in Hash /\ Good(V, PreparedHash(s))
  <2>1. CASE HasEntry(s.prepared, s.view)
    <3>1. PreparedHash(s) \in Hash /\ <<s.view, PreparedHash(s)>> \in s.prepared
      BY <2>1 DEF PreparedHash, HasEntry
    <3> QED  BY <3>1, StateFields DEF GoodState
  <2>2. CASE ~HasEntry(s.prepared, s.view)
    BY <2>2, ConstantTypes DEF PreparedHash, Good
  <2> QED  BY <2>1, <2>2
<1>4. s.view \in Nat
  BY StateFields DEF View
<1>5. /\ own = <<>> \/ own = <<PrePrepare(HashOf(c), 0)>>
      /\ own # <<>> => NodeOf(c) = Proposer
  BY DEF OwnPrePrepare
<1>6. NodeOf(c) = Proposer => GoodMessage(V, PrePrepare(HashOf(c), 0), NodeOf(c))
  BY DEF GoodMessage, PrePrepare, IsProposal
<1>7. GoodMessage(V, ViewChange(PreparedHash(s), s.view + 1, NodeOf(c)), NodeOf(c))
  BY <1>3, <1>4 DEF GoodMessage, ViewChange
<1>8. vc = <<>> \/ vc = <<ViewChange(PreparedHash(s), s.view + 1, NodeOf(c))>>
  OBVIOUS
<1>9. GoodMessages(V, own \o vc, NodeOf(c))
  <2> HIDE DEF own, vc
  <2> QED  BY <1>5, <1>6, <1>7, <1>8 DEF GoodMessages
<1> QED  BY <1>1, <1>2, <1>9

\* Goodness of a sequence of messages, taken apart and put together.
LEMMA GoodSequences ==
    ASSUME NEW V, NEW n, NEW p \in Seq(Message), NEW q \in Seq(Message)
    PROVE  /\ GoodMessages(V, p, n) /\ GoodMessages(V, q, n) => GoodMessages(V, p \o q, n)
           /\ GoodMessages(V, p, n) /\ p # <<>> =>
                /\ GoodMessage(V, Head(p), n)
                /\ GoodMessages(V, Tail(p), n)
<1>1. ASSUME GoodMessages(V, p, n), GoodMessages(V, q, n)
      PROVE  GoodMessages(V, p \o q, n)
  <2> SUFFICES ASSUME NEW i \in 1 .. Len(p \o q) PROVE GoodMessage(V, (p \o q)[i], n)
    BY DEF GoodMessages
  <2>1. CASE i <= Len(p)
    BY <1>1, <2>1 DEF GoodMessages
  <2>2. CASE i > Len(p)
    <3>1. (p \o q)[i] = q[i - Len(p)] /\ i - Len(p) \in 1 .. Len(q)
      BY <2>2
    <3> QED  BY <1>1, <3>1 DEF GoodMessages
  <2> QED  BY <2>1, <2>2
<1>2. ASSUME GoodMessages(V, p, n), p # <<>>
      PROVE  GoodMessage(V, Head(p), n) /\ GoodMessages(V, Tail(p), n)
  <2>1. Len(p) \in Nat \ {0} /\ Head(p) = p[1]
    BY <1>2
  <2>2. GoodMessage(V, Head(p), n)
    BY <1>2, <2>1 DEF GoodMessages
  <2>3. ASSUME NEW i \in 1 .. Len(Tail(p)) PROVE GoodMessage(V, Tail(p)[i], n)
    <3>1. Tail(p)[i] = p[i + 1] /\ i + 1 \in 1 .. Len(p)
      BY <1>2, <2>1
    <3> QED  BY <1>2, <3>1 DEF GoodMessages
  <2> QED  BY <2>2, <2>3 DEF GoodMessages
<1> QED  BY <1>1, <1>2

\* SafetyInv is inductive.
LEMMA SafetyStep ==
    ASSUME Resilient, SafetyInv, [Next]_vars, TypeOK'
    PROVE  SafetyInv'
<1> DEFINE V == Votes
           W == Votes'
<1>0. TypeOK
  BY DEF SafetyInv
<1>1. V \in Ballots /\ W \in Ballots /\ Grows(V, W)
  BY <1>0, VotesType, VotesGrow
<1>2. \A c \in Chain : GoodState(W, state[c])
  BY <1>0, <1>1, GoodStateGrows DEF SafetyInv, TypeOK
<1>3. GoodState(W, work.s)
  <2>1. work.s \in State
    BY <1>0 DEF TypeOK, Work
  <2> QED  BY <1>1, <2>1, GoodStateGrows DEF SafetyInv
<1>4. \A c \in Chain : \A k \in 1 .. Len(blocks[c]) :
         GoodMessages(W, blocks[c][k].out, NodeOf(c))
  <2> SUFFICES ASSUME NEW c \in Chain, NEW k \in 1 .. Len(blocks[c])
               PROVE  GoodMessages(W, blocks[c][k].out, NodeOf(c))
    OBVIOUS
  <2>1. blocks[c][k] \in Block
    BY <1>0 DEF TypeOK
  <2>2. blocks[c][k].out \in Seq(Message)
    BY <2>1 DEF Block
  <2> QED  BY <1>1, <2>2, GoodMessagesGrow, ConstantTypes DEF SafetyInv
<1>5. GoodMessages(W, work.queue, work.sender)
  <2>1. work.queue \in Seq(Message) /\ work.sender \in Node
    BY <1>0 DEF TypeOK, Work
  <2> QED  BY <1>1, <2>1, GoodMessagesGrow DEF SafetyInv
<1>6. work # NoWork => GoodMessages(W, work.out, NodeOf(work.chain))
  <2>1. work.out \in Seq(Message) /\ (work # NoWork => work.chain \in Chain)
    BY <1>0 DEF TypeOK, Work
  <2> QED  BY <1>1, <2>1, GoodMessagesGrow, ConstantTypes DEF SafetyInv
<1>7. ~work.fatal
  BY DEF SafetyInv
<1> HIDE DEF V, W
<1>a. ASSUME NEW c \in Chain, OpenBlock(c) PROVE SafetyInv'
  <2>1. PICK t \in BOOLEAN : /\ t => CanTimeOut(state[c])
                             /\ work' = StartWork(c, state[c], LastPast(blocks[c]), AtSlot(c), t)
    BY <1>a DEF OpenBlock
  <2>2. state[c] \in State /\ AtSlot(c) \in BOOLEAN
    BY <1>0 DEF TypeOK, AtSlot
  <2>3. LastPast(blocks[c]) \in [Chain -> Nat]
    <3>1. CASE blocks[c] = <<>>
      BY <3>1 DEF LastPast
    <3>2. CASE blocks[c] # <<>>
      <4>1. blocks[c][Len(blocks[c])] \in Block
        BY <1>0, <3>2 DEF TypeOK
      <4> QED  BY <3>2, <4>1 DEF LastPast, Block
    <3> QED  BY <3>1, <3>2
  <2>4. /\ GoodState(W, work'.s)
        /\ GoodMessages(W, work'.queue, work'.sender)
        /\ GoodMessages(W, work'.out, NodeOf(c))
        /\ ~work'.fatal
    BY <1>1, <1>2, <2>1, <2>2, <2>3, StartWorkGood
  <2>5. work'.chain = c /\ work'.sender = NodeOf(c)
    BY <2>1 DEF StartWork, NoWork
  <2>6. state' = state /\ blocks' = blocks
    BY <1>a DEF OpenBlock
  <2> QED  BY <1>2, <1>4, <2>4, <2>5, <2>6 DEF SafetyInv, W
<1>b. CASE ProcessMessage
  <2> DEFINE m == Head(work.queue)
             r == processMessage(work.s, work.sender, NodeOf(work.chain), m)
  <2>0. work # NoWork
    BY <1>b DEF ProcessMessage, NoWork
  <2>1. work # NoWork /\ work.chain \in Chain
    BY <1>0, <2>0 DEF TypeOK
  <2>2. /\ m \in Message
        /\ work.s \in State
        /\ work.sender \in Node
        /\ NodeOf(work.chain) \in Node
        /\ work.queue \in Seq(Message)
        /\ work.queue # <<>>
        /\ Tail(work.queue) \in Seq(Message)
        /\ work.out \in Seq(Message)
    BY <1>0, <1>b, <2>1, ConstantTypes DEF ProcessMessage, TypeOK, Work
  <2>3. state' = state /\ blocks' = blocks /\ work' = StepMessage(work)
    BY <1>b DEF ProcessMessage
  <2>4. /\ work'.chain = work.chain
        /\ work'.sender = work.sender
        /\ work'.stage = work.stage
        /\ work.stage = "own" => work.sender = NodeOf(work.chain)
    BY <1>0, <2>3 DEF StepMessage, TypeOK, Work, SafetyInv
  <2>5. GoodMessages(W, Tail(work.queue), work.sender)
    BY <1>5, <2>2, GoodSequences
  <2>6. CASE m \in work.processed
    <3>1. /\ work'.s = work.s
          /\ work'.queue = Tail(work.queue)
          /\ work'.out = work.out
          /\ work'.fatal = work.fatal
      BY <1>0, <2>3, <2>6 DEF StepMessage, TypeOK, Work
    <3> QED
      BY <1>2, <1>3, <1>4, <1>6, <1>7, <2>1, <2>3, <2>4, <2>5, <3>1 DEF SafetyInv, W
  <2>7. CASE m \notin work.processed
    <3>1. /\ work'.s = r.s
          /\ work'.queue = Tail(work.queue) \o r.responses
          /\ work'.out = work.out \o r.responses
          /\ work'.fatal = r.fatal
      <4> HIDE DEF r
      <4>1. work' = [work EXCEPT !.s = r.s, !.queue = Tail(work.queue) \o r.responses,
                                 !.processed = work.processed \cup {m},
                                 !.out = work.out \o r.responses, !.fatal = r.fatal]
        BY <2>3, <2>7 DEF StepMessage, r
      <4> QED  BY <1>0, <4>1 DEF TypeOK, Work
    <3>2. \A h \in Hash : <<0, h>> \in r.s.prePrepared => NodeOf(work.chain) \in W[h]
      <4>1. PICK c \in Chain : c = work.chain
        BY <2>1
      <4>2. Current(c)' = work'.s
        BY <2>4, <4>1 DEF Current
      <4> HIDE DEF r
      <4> QED  BY <2>2, <3>1, <4>1, <4>2 DEF W, Votes
    <3>3. GoodMessage(V, m, work.sender)
      BY <2>2, GoodSequences DEF SafetyInv, V
    <3>4. GoodState(V, work.s) /\ OneGood(V) /\ \A h \in Hash : IsProposal(h) => Proposer \in V[h]
      BY VotesOneGood, ProposerVotes DEF SafetyInv, V
    <3>5. /\ GoodState(W, r.s)
          /\ \A n \in Node : GoodMessages(W, r.responses, n)
          /\ ~r.fatal
      <4> HIDE DEF m
      <4> QED  BY <1>1, <2>2, <3>2, <3>3, <3>4, MessageStep
    <3>6. r.responses \in Seq(Message)
      BY <2>2, ProcessMessageType DEF Results
    <3> HIDE DEF r
    <3>7. GoodMessages(W, Tail(work.queue) \o r.responses, work.sender)
      BY <2>2, <2>5, <3>5, <3>6, GoodSequences
    <3>8. GoodMessages(W, work.out \o r.responses, NodeOf(work.chain))
      BY <1>6, <2>1, <2>2, <3>5, <3>6, GoodSequences
    <3> QED
      BY <1>2, <1>4, <2>3, <2>4, <3>1, <3>5, <3>7, <3>8 DEF SafetyInv, W
  <2> QED  BY <2>6, <2>7
<1>c. CASE ProcessPrev
  <2>0. work # NoWork
    BY <1>c DEF ProcessPrev, NoWork
  <2>1. work # NoWork /\ work.chain \in Chain
    BY <1>0, <2>0 DEF TypeOK
  <2> DEFINE bs == blocks[work.chain]
             q == IF bs = <<>> THEN <<>> ELSE bs[Len(bs)].out
  <2>2. state' = state /\ blocks' = blocks /\ work' = [work EXCEPT !.stage = "deps", !.queue = q]
    BY <1>c DEF ProcessPrev, LoadPrev
  <2>3. work.sender = NodeOf(work.chain)
    BY <1>c DEF ProcessPrev, SafetyInv
  <2>4. GoodMessages(W, q, work.sender)
    <3>1. CASE bs = <<>>
      BY <3>1 DEF GoodMessages
    <3>2. CASE bs # <<>>
      <4>1. Len(bs) \in 1 .. Len(bs)
        BY <1>0, <2>1, <3>2 DEF TypeOK
      <4> QED  BY <1>4, <2>1, <2>3, <3>2, <4>1
    <3> QED  BY <3>1, <3>2
  <2> HIDE DEF q
  <2>5. /\ work'.s = work.s
        /\ work'.queue = q
        /\ work'.sender = work.sender
        /\ work'.out = work.out
        /\ work'.chain = work.chain
        /\ work'.stage = "deps"
        /\ work'.fatal = work.fatal
    BY <1>0, <2>2 DEF TypeOK, Work
  <2> QED
    BY <1>2, <1>3, <1>4, <1>6, <1>7, <2>1, <2>2, <2>4, <2>5 DEF SafetyInv, W
<1>d. ASSUME NEW d \in Chain, ProcessDep(d) PROVE SafetyInv'
  <2> DEFINE k == work.past[d] + 1
             b == blocks[d][k]
             p == [work.past EXCEPT ![d] = @ + 1]
  <2>1. work # NoWork /\ work.chain \in Chain /\ work.stage = "deps"
    BY <1>0, <1>d DEF ProcessDep, NoWork, TypeOK
  <2>2. /\ state' = state
        /\ blocks' = blocks
        /\ work' = [work EXCEPT !.sender = NodeOf(d), !.queue = b.out, !.past = p]
    BY <1>0, <1>d DEF ProcessDep, LoadDep, TypeOK, Work
  <2>3. k \in 1 .. Len(blocks[d])
    <3>1. k <= Len(blocks[d])
      BY <1>d DEF ProcessDep, CanLoad
    <3>2. work.past[d] \in Nat /\ Len(blocks[d]) \in Nat
      BY <1>0 DEF TypeOK, Work
    <3> QED  BY <3>1, <3>2
  <2>4. GoodMessages(W, b.out, NodeOf(d))
    BY <1>4, <2>3
  <2> HIDE DEF b, p
  <2>5. /\ work'.s = work.s
        /\ work'.queue = b.out
        /\ work'.sender = NodeOf(d)
        /\ work'.out = work.out
        /\ work'.chain = work.chain
        /\ work'.stage = work.stage
        /\ work'.fatal = work.fatal
    BY <1>0, <2>2 DEF TypeOK, Work
  <2> QED
    BY <1>2, <1>3, <1>4, <1>6, <1>7, <2>1, <2>2, <2>4, <2>5 DEF SafetyInv, W
<1>e. CASE CloseBlock
  <2>1. work # NoWork /\ work.chain \in Chain
    BY <1>0, <1>e DEF CloseBlock, NoWork, TypeOK
  <2>2. /\ state' = [state EXCEPT ![work.chain] = work.s]
        /\ blocks' = [blocks EXCEPT ![work.chain] = Append(blocks[work.chain], Closed(work))]
        /\ work' = NoWork
    BY <1>e DEF CloseBlock
  <2>3. \A c \in Chain : GoodState(W, state'[c])
    BY <1>0, <1>2, <1>3, <2>1, <2>2 DEF TypeOK
  <2>4. ASSUME NEW c \in Chain, NEW k \in 1 .. Len(blocks'[c])
        PROVE  GoodMessages(W, blocks'[c][k].out, NodeOf(c))
    <3>1. CASE c # work.chain
      BY <1>0, <1>4, <2>1, <2>2, <3>1 DEF TypeOK
    <3>2. CASE c = work.chain
      <4>1. blocks'[c] = Append(blocks[c], Closed(work)) /\ blocks[c] \in Seq(Block)
        BY <1>0, <2>1, <2>2, <3>2 DEF TypeOK
      <4>2. CASE k \in 1 .. Len(blocks[c])
        BY <1>4, <4>1, <4>2
      <4>3. CASE k \notin 1 .. Len(blocks[c])
        <5>1. blocks'[c][k] = Closed(work)
          BY <4>1, <4>3
        <5>2. Closed(work).out = work.out
          BY DEF Closed
        <5> QED  BY <1>6, <2>1, <3>2, <5>1, <5>2
      <4> QED  BY <4>2, <4>3
    <3> QED  BY <3>1, <3>2
  <2>5. /\ work'.s = InitState
        /\ work'.queue = <<>>
        /\ work'.stage # "own"
        /\ work'.fatal = FALSE
    BY <2>2 DEF NoWork
  <2>6. GoodState(W, work'.s) /\ GoodMessages(W, work'.queue, work'.sender)
    BY <2>5 DEF GoodState, GoodMessages, InitState
  <2> QED  BY <2>2, <2>3, <2>4, <2>5, <2>6 DEF SafetyInv, W
<1>f. CASE UNCHANGED vars
  <2>1. state' = state /\ blocks' = blocks /\ work' = work
    BY <1>f DEF vars
  <2> QED  BY <1>2, <1>3, <1>4, <1>5, <1>6, <1>7, <2>1 DEF SafetyInv, W
<1> QED  BY <1>a, <1>b, <1>c, <1>d, <1>e, <1>f DEF Next

\* SafetyInv holds at the beginning: nothing has been said.
LEMMA SafetyInit ==
    ASSUME Init, TypeOK
    PROVE  SafetyInv
<1>1. \A c \in Chain : state[c] = InitState /\ Len(blocks[c]) = 0
  BY DEF Init
<1>2. work = NoWork
  BY DEF Init
<1>3. /\ work.s = InitState
      /\ work.queue = <<>>
      /\ work.stage # "own"
      /\ work.fatal = FALSE
  BY <1>2 DEF NoWork
<1>4. GoodState(Votes, InitState)
  BY DEF GoodState, InitState
<1>5. GoodMessages(Votes, work.queue, work.sender)
  BY <1>3 DEF GoodMessages
<1> QED  BY <1>1, <1>2, <1>3, <1>4, <1>5 DEF SafetyInv

\* With n = 3f + 1 nodes of which at most f fork their chain, SafetyInv holds
\* throughout the interpretation of every block graph.
THEOREM SafetyInvariant == ASSUME Resilient PROVE Spec => []SafetyInv
<1>1. Init /\ TypeOK => SafetyInv
  BY SafetyInit
<1>2. SafetyInv /\ [Next]_vars /\ TypeOK' => SafetyInv'
  BY SafetyStep
<1> QED  BY <1>1, <1>2, TypeCorrect, PTL DEF Spec

\* No two chains decide two different blocks for a position (OneBlock), in any views.
THEOREM AtMostOneBlock == ASSUME Resilient PROVE Spec => []OneBlock
<1>1. SafetyInv => OneBlock
  <2> SUFFICES ASSUME SafetyInv, NEW c \in Chain, NEW d \in Chain,
                      NEW h \in state[c].final, NEW k \in state[d].final,
                      h # NoHash, k # NoHash
               PROVE  h = k
    BY DEF OneBlock
  <2>1. h \in Hash /\ k \in Hash
    BY StateFields DEF SafetyInv, TypeOK
  <2>2. Good(Votes, h) /\ Good(Votes, k)
    BY DEF SafetyInv, GoodState
  <2> QED  BY <2>1, <2>2, VotesOneGood DEF OneGood
<1> QED  BY <1>1, SafetyInvariant, PTL

\* The interpreter never stops on a view change with two blocks (NoFatal).
THEOREM NoConflictingViewChange == ASSUME Resilient PROVE Spec => []NoFatal
<1>1. SafetyInv => NoFatal
  BY DEF SafetyInv, NoFatal
<1> QED  BY <1>1, SafetyInvariant, PTL
=============================================================================
