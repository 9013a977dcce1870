------------------------- MODULE DepgraphWakeProofs -------------------------
(***************************************************************************)
(* Proofs about the loop of depgraph.process: it finds each reverse          *)
(* dependency it looks up, and it wakes up each block that it could.         *)
(***************************************************************************)
EXTENDS DepgraphProofs

\* WakeInv of the blocks let through R, the sets W of the blocks on the lists, the
\* pending blocks P, and the queue, the rest of the list and the seen set of the loop.
Wake(R, W, P, queue, todo, seen) ==
    /\ \A b \in P : \A d \in Deps[b] : b \notin R /\ d \notin R => b \in W[d]
    /\ \A d \in Block : \A b \in W[d] : b \in P /\ d \in Deps[b]
    /\ \A d \in R : W[d] # {} => \E i \in 1 .. Len(queue) : queue[i] = d
    /\ \A i \in 1 .. Len(queue) : queue[i] \in R
    /\ todo # {} => Len(queue) > 0 /\ todo \subseteq W[queue[1]]
    /\ \A i \in 1 .. Len(queue) : \A d \in Block :
          queue[i] \in W[d] => \E j \in 1 .. i - 1 : queue[j] = d
    /\ \A b \in seen \ R : ~(Deps[b] \subseteq R)
    /\ \A b \in P \ R :
          \/ ~(Deps[b] \subseteq R)
          \/ b \in todo
          \/ \E i \in 2 .. Len(queue) : queue[i] # queue[1] /\ b \in W[queue[i]]

Closed(R) == \A b \in R : Deps[b] \subseteq R

\* The lists after addPending.
Listing(W, b, R) == [d \in Block |-> IF d \in Deps[b] \ R THEN W[d] \cup {b} ELSE W[d]]

\* Nothing waits in an empty graph.
LEMMA WakeEmpty ==
    ASSUME NEW R \in SUBSET Block, NEW W, \A d \in Block : W[d] = {}
    PROVE  Wake(R, W, {}, <<>>, {}, {})
  BY DEF Wake

\* A block from in that lacks something is put on the lists of what it lacks.
LEMMA WakeHeldBack ==
    ASSUME NEW R \in SUBSET Block, NEW W \in [Block -> SUBSET Block], NEW P \in SUBSET Block,
           NEW queue \in Seq(Block), NEW T \in SUBSET Block, NEW U \in SUBSET Block,
           NEW seen \in SUBSET Block, NEW b \in Block,
           Wake(R, W, P, queue, T, seen), b \notin R, ~(Deps[b] \subseteq R),
           T \subseteq U \cup {b}, U \subseteq T
    PROVE  Wake(R, Listing(W, b, R), P \cup {b}, queue, U, seen \cup {b})
  <1> DEFINE V == Listing(W, b, R)
  <1>1. \A d \in Block : V[d] = IF d \in Deps[b] \ R THEN W[d] \cup {b} ELSE W[d]
    BY DEF Listing
  <1>2. Deps[b] \subseteq Block
    BY DepgraphAssumption
  <1> HIDE DEF V
  <1>3. ASSUME NEW c \in P \cup {b}, NEW d \in Deps[c], c \notin R, d \notin R PROVE c \in V[d]
    <2>1. c \in Block /\ d \in Block
      BY DepgraphAssumption
    <2>2. CASE c = b
      BY <1>1, <1>3, <2>1, <2>2
    <2>3. CASE c \in P
      <3>1. c \in W[d]
        BY <1>3, <2>3 DEF Wake
      <3> QED
        BY <3>1, <1>1, <2>1
    <2> QED
      BY <2>2, <2>3
  <1>4. ASSUME NEW d \in Block, NEW c \in V[d] PROVE c \in P \cup {b} /\ d \in Deps[c]
    <2>1. CASE c \in W[d]
      BY <2>1 DEF Wake
    <2>2. CASE c \notin W[d]
      BY <2>2, <1>1
    <2> QED
      BY <2>1, <2>2
  <1>5. \A d \in R : V[d] # {} => \E i \in 1 .. Len(queue) : queue[i] = d
    BY <1>1 DEF Wake
  <1>6. \A i \in 1 .. Len(queue) : queue[i] \in R
    BY DEF Wake
  <1>7. U # {} => Len(queue) > 0 /\ U \subseteq V[queue[1]]
    <2> SUFFICES ASSUME U # {} PROVE Len(queue) > 0 /\ U \subseteq V[queue[1]]
      OBVIOUS
    <2>1. Len(queue) > 0 /\ T \subseteq W[queue[1]]
      BY DEF Wake
    <2>2. 1 \in 1 .. Len(queue)
      BY <2>1
    <2>3. queue[1] \in R
      BY <2>2, <1>6
    <2> QED
      BY <2>1, <2>3, <1>1
  <1>8. \A i \in 1 .. Len(queue) : \A d \in Block :
          queue[i] \in V[d] => \E j \in 1 .. i - 1 : queue[j] = d
    <2> SUFFICES ASSUME NEW i \in 1 .. Len(queue), NEW d \in Block, queue[i] \in V[d]
                 PROVE  \E j \in 1 .. i - 1 : queue[j] = d
      OBVIOUS
    <2>1. queue[i] \in R /\ queue[i] # b
      BY <1>6
    <2>2. queue[i] \in W[d]
      BY <1>1, <2>1
    <2> QED
      BY <2>2 DEF Wake
  <1>9. \A c \in (seen \cup {b}) \ R : ~(Deps[c] \subseteq R)
    BY DEF Wake
  <1>10. ASSUME NEW c \in (P \cup {b}) \ R, Deps[c] \subseteq R, c \notin U
         PROVE  \E i \in 2 .. Len(queue) : queue[i] # queue[1] /\ c \in V[queue[i]]
    <2>1. c # b /\ c \in P \ R /\ c \notin T
      BY <1>10
    <2>2. PICK i \in 2 .. Len(queue) : queue[i] # queue[1] /\ c \in W[queue[i]]
      BY <2>1, <1>10 DEF Wake
    <2>3. i \in 1 .. Len(queue)
      OBVIOUS
    <2>4. c \in V[queue[i]]
      BY <2>2, <2>3, <1>6, <1>1
    <2> QED
      BY <2>2, <2>4
  <1> QED
    BY <1>3, <1>4, <1>5, <1>6, <1>7, <1>8, <1>9, <1>10 DEF Wake, V

\* A block from in that was let through before wakes nothing up.
LEMMA WakeAgain ==
    ASSUME NEW R \in SUBSET Block, NEW W \in [Block -> SUBSET Block], NEW P \in SUBSET Block,
           NEW b \in Block, Wake(R, W, P, <<>>, {}, {}), Closed(R), b \in R
    PROVE  Wake(R, W, P, <<b>>, W[b], {b})
  <1>1. \A d \in R : W[d] = {}
    BY DEF Wake
  <1>2. \A d \in Block : b \notin W[d]
    BY <1>1 DEF Wake, Closed
  <1>3. Len(<<b>>) = 1 /\ <<b>>[1] = b /\ 1 \in 1 .. 1
    OBVIOUS
  <1> DEFINE q == <<b>>
  <1>4. Len(q) = 1 /\ q[1] = b
    OBVIOUS
  <1> HIDE DEF q
  <1>5. Wake(R, W, P, q, W[b], {b})
    BY <1>1, <1>2, <1>4 DEF Wake
  <1> QED
    BY <1>5 DEF q

\* A block from in that is let through now wakes up those on its list.
LEMMA WakeFirst ==
    ASSUME NEW R \in SUBSET Block, NEW W \in [Block -> SUBSET Block], NEW P \in SUBSET Block,
           NEW b \in Block, Wake(R, W, P, <<>>, {}, {}), b \notin R, Deps[b] \subseteq R
    PROVE  Wake(R \cup {b}, W, P, <<b>>, W[b], {b})
  <1>1. \A d \in R : W[d] = {}
    BY DEF Wake
  <1>2. \A d \in Block : b \notin W[d]
    BY <1>1 DEF Wake
  <1> DEFINE q == <<b>>
  <1>3. Len(q) = 1 /\ q[1] = b
    OBVIOUS
  <1>4. \A c \in P \ R : ~(Deps[c] \subseteq R)
    BY DEF Wake
  <1> HIDE DEF q
  <1>5. ASSUME NEW c \in P \ (R \cup {b}), Deps[c] \subseteq R \cup {b} PROVE c \in W[b]
    <2>1. b \in Deps[c]
      BY <1>4, <1>5
    <2> QED
      BY <2>1, <1>5 DEF Wake
  <1>6. Wake(R \cup {b}, W, P, q, W[b], {b})
    BY <1>1, <1>2, <1>3, <1>5 DEF Wake
  <1> QED
    BY <1>6 DEF q

\* A reverse dependency that was let through before is queued once more.
LEMMA WakeQueuedAgain ==
    ASSUME NEW R \in SUBSET Block, NEW W \in [Block -> SUBSET Block], NEW P \in SUBSET Block,
           NEW queue \in Seq(Block), NEW T \in SUBSET Block, NEW U \in SUBSET Block,
           NEW seen \in SUBSET Block, NEW b \in T,
           Wake(R, W, P, queue, T, seen), Closed(R), b \in R, T \subseteq U \cup {b}, U \subseteq T
    PROVE  Wake(R, W, P, Append(queue, b), U, {})
  <1> DEFINE q == Append(queue, b)
             n == Len(queue)
  <1>1. /\ n \in Nat /\ Len(q) = n + 1 /\ q[n + 1] = b
        /\ \A i \in 1 .. n : q[i] = queue[i]
    OBVIOUS
  <1> HIDE DEF q
  <1>2. n > 0 /\ T \subseteq W[queue[1]]
    BY DEF Wake
  <1>3. q[1] = queue[1]
    BY <1>1, <1>2
  <1> HIDE DEF n
  <1>4. \A d \in R : W[d] # {} => \E i \in 1 .. Len(q) : q[i] = d
    <2> SUFFICES ASSUME NEW d \in R, W[d] # {} PROVE \E i \in 1 .. Len(q) : q[i] = d
      OBVIOUS
    <2>1. PICK i \in 1 .. n : queue[i] = d
      BY DEF Wake, n
    <2>2. i \in 1 .. Len(q) /\ q[i] = d
      BY <2>1, <1>1
    <2> QED
      BY <2>2
  <1>5. \A i \in 1 .. Len(q) : q[i] \in R
    <2>1. \A i \in 1 .. n : queue[i] \in R
      BY DEF Wake, n
    <2> QED
      BY <1>1, <2>1
  <1>6. U # {} => Len(q) > 0 /\ U \subseteq W[q[1]]
    BY <1>1, <1>2, <1>3
  <1>7. ASSUME NEW i \in 1 .. Len(q), NEW d \in Block, q[i] \in W[d]
        PROVE  \E j \in 1 .. i - 1 : q[j] = d
    <2>1. CASE i \in 1 .. n
      <3>1. queue[i] \in W[d]
        BY <1>1, <1>7, <2>1
      <3>2. PICK j \in 1 .. i - 1 : queue[j] = d
        BY <3>1, <2>1 DEF Wake, n
      <3>3. q[j] = d
        BY <3>2, <2>1, <1>1
      <3> QED
        BY <3>3
    <2>2. CASE i = n + 1
      <3>1. b \in W[d]
        BY <1>1, <1>7, <2>2
      <3>2. d \in R
        BY <3>1 DEF Wake, Closed
      <3>3. PICK j \in 1 .. n : queue[j] = d
        BY <3>1, <3>2 DEF Wake, n
      <3>4. j \in 1 .. i - 1 /\ q[j] = d
        BY <3>3, <2>2, <1>1
      <3> QED
        BY <3>4
    <2> QED
      BY <2>1, <2>2, <1>1
  <1>8. ASSUME NEW c \in P \ R, Deps[c] \subseteq R, c \notin U
        PROVE  \E i \in 2 .. Len(q) : q[i] # q[1] /\ c \in W[q[i]]
    <2>1. c \notin T
      BY <1>8
    <2>2. PICK i \in 2 .. n : queue[i] # queue[1] /\ c \in W[queue[i]]
      BY <1>8, <2>1 DEF Wake, n
    <2>3. i \in 2 .. Len(q) /\ q[i] = queue[i]
      BY <2>2, <1>1
    <2> QED
      BY <2>2, <2>3, <1>3
  <1>9. Wake(R, W, P, q, U, {})
    <2>1. /\ \A c \in P : \A d \in Deps[c] : c \notin R /\ d \notin R => c \in W[d]
          /\ \A d \in Block : \A c \in W[d] : c \in P /\ d \in Deps[c]
      BY DEF Wake
    <2> QED
      BY <2>1, <1>4, <1>5, <1>6, <1>7, <1>8 DEF Wake
  <1> QED
    BY <1>9 DEF q

\* A reverse dependency that is let through now is queued, and those on its list
\* will be tried.
LEMMA WakeQueued ==
    ASSUME NEW R \in SUBSET Block, NEW W \in [Block -> SUBSET Block], NEW P \in SUBSET Block,
           NEW queue \in Seq(Block), NEW T \in SUBSET Block, NEW U \in SUBSET Block,
           NEW seen \in SUBSET Block, NEW b \in T,
           Wake(R, W, P, queue, T, seen), b \notin R, Deps[b] \subseteq R,
           T \subseteq U \cup {b}, U \subseteq T
    PROVE  Wake(R \cup {b}, W, P, Append(queue, b), U, {})
  <1> DEFINE q == Append(queue, b)
             n == Len(queue)
             S == R \cup {b}
  <1>1. /\ n \in Nat /\ Len(q) = n + 1 /\ q[n + 1] = b
        /\ \A i \in 1 .. n : q[i] = queue[i]
    OBVIOUS
  <1> HIDE DEF q
  <1>2. n > 0 /\ T \subseteq W[queue[1]]
    BY DEF Wake
  <1>3. q[1] = queue[1] /\ 1 \in 1 .. n
    BY <1>1, <1>2
  <1> HIDE DEF n
  <1>4. \A i \in 1 .. n : queue[i] \in R
    BY DEF Wake, n
  <1>5. ASSUME NEW d \in S, W[d] # {} PROVE \E i \in 1 .. Len(q) : q[i] = d
    <2>1. CASE d = b
      BY <2>1, <1>1
    <2>2. CASE d \in R
      <3>1. PICK i \in 1 .. n : queue[i] = d
        BY <1>5, <2>2 DEF Wake, n
      <3>2. i \in 1 .. Len(q) /\ q[i] = d
        BY <3>1, <1>1
      <3> QED
        BY <3>2
    <2> QED
      BY <2>1, <2>2
  <1>6. \A i \in 1 .. Len(q) : q[i] \in S
    BY <1>1, <1>4
  <1>7. U # {} => Len(q) > 0 /\ U \subseteq W[q[1]]
    BY <1>1, <1>2, <1>3
  <1>8. ASSUME NEW i \in 1 .. Len(q), NEW d \in Block, q[i] \in W[d]
        PROVE  \E j \in 1 .. i - 1 : q[j] = d
    <2>1. CASE i \in 1 .. n
      <3>1. queue[i] \in W[d]
        BY <1>1, <1>8, <2>1
      <3>2. PICK j \in 1 .. i - 1 : queue[j] = d
        BY <3>1, <2>1 DEF Wake, n
      <3>3. q[j] = d
        BY <3>2, <2>1, <1>1
      <3> QED
        BY <3>3
    <2>2. CASE i = n + 1
      <3>1. b \in W[d]
        BY <1>1, <1>8, <2>2
      <3>2. d \in R
        BY <3>1 DEF Wake
      <3>3. PICK j \in 1 .. n : queue[j] = d
        BY <3>1, <3>2 DEF Wake, n
      <3>4. j \in 1 .. i - 1 /\ q[j] = d
        BY <3>3, <2>2, <1>1
      <3> QED
        BY <3>4
    <2> QED
      BY <2>1, <2>2, <1>1
  <1>9. ASSUME NEW c \in P \ S, Deps[c] \subseteq S, c \notin U
        PROVE  \E i \in 2 .. Len(q) : q[i] # q[1] /\ c \in W[q[i]]
    <2>1. CASE b \in Deps[c]
      <3>1. c \in W[b]
        BY <1>9, <2>1 DEF Wake
      <3>2. n + 1 \in 2 .. Len(q) /\ q[n + 1] # q[1]
        BY <1>1, <1>2, <1>3, <1>4
      <3> QED
        BY <3>1, <3>2, <1>1
    <2>2. CASE b \notin Deps[c]
      <3>1. Deps[c] \subseteq R /\ c \notin T /\ c \in P \ R
        BY <1>9, <2>2
      <3>2. PICK i \in 2 .. n : queue[i] # queue[1] /\ c \in W[queue[i]]
        BY <3>1 DEF Wake, n
      <3>3. i \in 2 .. Len(q) /\ q[i] = queue[i]
        BY <3>2, <1>1
      <3> QED
        BY <3>2, <3>3, <1>3
    <2> QED
      BY <2>1, <2>2
  <1>10. Wake(S, W, P, q, U, {})
    <2>1. /\ \A c \in P : \A d \in Deps[c] : c \notin S /\ d \notin S => c \in W[d]
          /\ \A d \in Block : \A c \in W[d] : c \in P /\ d \in Deps[c]
      BY DEF Wake
    <2> QED
      BY <2>1, <1>5, <1>6, <1>7, <1>8, <1>9 DEF Wake
  <1> QED
    BY <1>10 DEF q

\* A reverse dependency that was tried since the last success is skipped.
LEMMA WakeSkipped ==
    ASSUME NEW R \in SUBSET Block, NEW W \in [Block -> SUBSET Block], NEW P \in SUBSET Block,
           NEW queue \in Seq(Block), NEW T \in SUBSET Block, NEW U \in SUBSET Block,
           NEW seen \in SUBSET Block, NEW b \in seen,
           Wake(R, W, P, queue, T, seen), T \subseteq U \cup {b}, U \subseteq T
    PROVE  Wake(R, W, P, queue, U, seen)
  <1>1. ASSUME NEW c \in P \ R, Deps[c] \subseteq R, c \notin U
        PROVE  \E i \in 2 .. Len(queue) : queue[i] # queue[1] /\ c \in W[queue[i]]
    <2>1. c # b
      BY <1>1 DEF Wake
    <2>2. c \notin T
      BY <2>1, <1>1
    <2> QED
      BY <2>2, <1>1 DEF Wake
  <1>2. U # {} => Len(queue) > 0 /\ U \subseteq W[queue[1]]
    BY DEF Wake
  <1> QED
    BY <1>1, <1>2 DEF Wake

\* The queue without its head, the lists without those of the head, and the list
\* of the new head.
Popped(queue, rest, h) ==
    /\ Len(queue) > 0
    /\ queue[1] = h
    /\ Len(rest) = Len(queue) - 1
    /\ \A i \in 1 .. Len(queue) - 1 : rest[i] = queue[i + 1]
Cleared(W, V, h) == \A d \in Block : V[d] = IF d = h THEN {} ELSE W[d]
NextTodo(rest, V, U) ==
    /\ Len(rest) = 0 => U = {}
    /\ Len(rest) > 0 => U = V[rest[1]]

\* The head of the queue leaves it: it is on no list any more, and its own list goes.
LEMMA WakeNext ==
    ASSUME NEW R \in SUBSET Block, NEW W \in [Block -> SUBSET Block], NEW P \in SUBSET Block,
           NEW queue \in Seq(Block), NEW rest \in Seq(Block), NEW seen \in SUBSET Block,
           NEW h \in Block, NEW Q \in SUBSET Block, NEW V \in [Block -> SUBSET Block],
           NEW U \in SUBSET Block, NEW seen2 \in SUBSET Block,
           Wake(R, W, P, queue, {}, seen),
           Popped(queue, rest, h), Cleared(W, V, h), P \ {h} \subseteq Q, Q \subseteq P,
           NextTodo(rest, V, U), seen2 \subseteq seen
    PROVE  Wake(R, V, Q, rest, U, seen2)
  <1> USE DEF Popped, Cleared, NextTodo
  <1> DEFINE n == Len(queue)
  <1>1. n \in Nat /\ n > 0 /\ 1 \in 1 .. n /\ Len(rest) = n - 1
    OBVIOUS
  <1>2. h \in R /\ \A i \in 1 .. n : queue[i] \in R
    BY <1>1 DEF Wake
  <1>3. \A d \in Block : h \notin W[d]
    <2> SUFFICES ASSUME NEW d \in Block, h \in W[d] PROVE FALSE
      OBVIOUS
    <2>1. \E j \in 1 .. 1 - 1 : queue[j] = d
      BY <1>1 DEF Wake
    <2> QED
      BY <2>1
  <1>4. ASSUME NEW c \in Q, NEW d \in Deps[c], c \notin R, d \notin R PROVE c \in V[d]
    <2>1. d \in Block /\ d # h
      BY <1>2, <1>4, DepgraphAssumption
    <2>2. c \in W[d]
      BY <1>4 DEF Wake
    <2> QED
      BY <2>1, <2>2
  <1>5. ASSUME NEW d \in Block, NEW c \in V[d] PROVE c \in Q /\ d \in Deps[c]
    <2>1. c \in W[d] /\ d # h
      OBVIOUS
    <2>2. c \in P /\ d \in Deps[c]
      BY <2>1 DEF Wake
    <2> QED
      BY <2>1, <2>2, <1>3
  <1>6. ASSUME NEW d \in R, V[d] # {} PROVE \E i \in 1 .. Len(rest) : rest[i] = d
    <2>1. W[d] # {} /\ d # h
      BY <1>6
    <2>2. PICK i \in 1 .. n : queue[i] = d
      BY <2>1 DEF Wake
    <2>3. i # 1
      BY <2>1, <2>2
    <2>4. i - 1 \in 1 .. Len(rest) /\ rest[i - 1] = d
      BY <2>2, <2>3, <1>1
    <2> QED
      BY <2>4
  <1>7. ASSUME NEW i \in 1 .. Len(rest) PROVE rest[i] \in R
    <2>1. i + 1 \in 1 .. n /\ rest[i] = queue[i + 1]
      BY <1>1
    <2> QED
      BY <2>1, <1>2
  <1>8. U # {} => Len(rest) > 0 /\ U \subseteq V[rest[1]]
    OBVIOUS
  <1>9. ASSUME NEW i \in 1 .. Len(rest), NEW d \in Block, rest[i] \in V[d]
        PROVE  \E j \in 1 .. i - 1 : rest[j] = d
    <2>1. i + 1 \in 1 .. n /\ rest[i] = queue[i + 1] /\ queue[i + 1] \in W[d] /\ d # h
      BY <1>1, <1>9
    <2>2. PICK j \in 1 .. (i + 1) - 1 : queue[j] = d
      BY <2>1 DEF Wake
    <2>3. j # 1
      BY <2>1, <2>2
    <2>4. j - 1 \in 1 .. i - 1 /\ j - 1 \in 1 .. n - 1
      BY <2>1, <2>3
    <2>5. rest[j - 1] = queue[(j - 1) + 1] /\ (j - 1) + 1 = j
      BY <2>4
    <2> QED
      BY <2>2, <2>4, <2>5
  <1>10. \A c \in seen2 \ R : ~(Deps[c] \subseteq R)
    BY DEF Wake
  <1>11. ASSUME NEW c \in Q \ R, Deps[c] \subseteq R, c \notin U
         PROVE  \E i \in 2 .. Len(rest) : rest[i] # rest[1] /\ c \in V[rest[i]]
    <2>1. PICK i \in 2 .. n : queue[i] # queue[1] /\ c \in W[queue[i]]
      BY <1>11 DEF Wake
    <2>2. i - 1 \in 1 .. n - 1 /\ rest[i - 1] = queue[i]
      BY <2>1, <1>1
    <2>3. c \in V[rest[i - 1]]
      <3>1. i \in 1 .. n
        BY <1>1
      <3>2. queue[i] \in Block /\ queue[i] # h
        BY <3>1, <2>1, <1>2
      <3>3. V[queue[i]] = W[queue[i]]
        BY <3>2
      <3> QED
        BY <2>1, <2>2, <3>3
    <2>4. rest[i - 1] # rest[1]
      BY <2>2, <2>3, <1>1, <1>11
    <2>5. i - 1 \in 2 .. Len(rest)
      BY <2>2, <2>4, <1>1
    <2> QED
      BY <2>3, <2>4, <2>5
  <1> QED
    BY <1>4, <1>5, <1>6, <1>7, <1>8, <1>9, <1>10, <1>11 DEF Wake

-----------------------------------------------------------------------------
(* The loop *)

Lists == [d \in Block |-> Range(await[d])]
LoopWake == Wake(Range(Order), Lists, pending, proc.queue, Range(proc.todo), proc.seen)

\* The sets the loop works on.
LEMMA LoopTypes ==
    ASSUME TypeOK
    PROVE  /\ Range(Order) \in SUBSET Block
           /\ Lists \in [Block -> SUBSET Block]
           /\ \A d \in Block : Lists[d] = Range(await[d])
           /\ pending \in SUBSET Block
           /\ proc.queue \in Seq(Block)
           /\ proc.todo \in Seq(Block)
           /\ Range(proc.todo) \in SUBSET Block
           /\ proc.seen \in SUBSET Block
  <1>1. \A d \in Block : await[d] \in Seq(Block)
    BY DEF TypeOK
  <1>2. \A d \in Block : Range(await[d]) \subseteq Block
    BY <1>1, RangeMember
  <1>3. proc.queue \in Seq(Block) /\ proc.todo \in Seq(Block) /\ proc.seen \in SUBSET Block
    BY DEF TypeOK
  <1>4. Range(proc.todo) \subseteq Block
    BY <1>3, RangeMember
  <1> QED
    BY <1>2, <1>3, <1>4, RangeOrder DEF Lists, TypeOK

\* WakeInv says Wake of the state.
LEMMA WakeForm == TypeOK => (WakeInv <=> LoopWake /\ (proc.queue = <<>> => proc = Idle))
  <1> SUFFICES ASSUME TypeOK PROVE WakeInv <=> LoopWake /\ (proc.queue = <<>> => proc = Idle)
    OBVIOUS
  <1>1. \A d \in Block : Lists[d] = Range(await[d])
    BY LoopTypes
  <1>2. \A i \in 1 .. Len(proc.queue) : proc.queue[i] \in Block
    BY LoopTypes
  <1>3. Range(Order) \subseteq Block
    BY LoopTypes
  <1>4. pending \subseteq Block /\ \A b \in Block : Deps[b] \subseteq Block
    BY LoopTypes, DepgraphAssumption
  <1>5. /\ \A i \in 2 .. Len(proc.queue) : Lists[proc.queue[i]] = Range(await[proc.queue[i]])
        /\ Len(proc.queue) > 0 => Lists[proc.queue[1]] = Range(await[proc.queue[1]])
    BY <1>1, <1>2, LoopTypes
  <1> DEFINE R == Range(Order)
             q == proc.queue
  <1>6. (\A b \in pending : \A d \in Deps[b] : b \notin R /\ d \notin R => b \in Lists[d])
        <=> (\A b \in pending : \A d \in Deps[b] : b \notin R /\ d \notin R => b \in Range(await[d]))
    BY <1>1, <1>4
  <1>7. (\A d \in Block : \A b \in Lists[d] : b \in pending /\ d \in Deps[b])
        <=> (\A d \in Block : \A b \in Range(await[d]) : b \in pending /\ d \in Deps[b])
    BY <1>1
  <1>8. (\A d \in R : Lists[d] # {} => \E i \in 1 .. Len(q) : q[i] = d)
        <=> (\A d \in R : Range(await[d]) # {} => \E i \in 1 .. Len(q) : q[i] = d)
    BY <1>1, <1>3
  <1>9. (Range(proc.todo) # {} => Len(q) > 0 /\ Range(proc.todo) \subseteq Lists[q[1]])
        <=> (Range(proc.todo) # {} => Len(q) > 0 /\ Range(proc.todo) \subseteq Range(await[q[1]]))
    BY <1>5
  <1>10. (\A i \in 1 .. Len(q) : \A d \in Block :
             q[i] \in Lists[d] => \E j \in 1 .. i - 1 : q[j] = d)
         <=> (\A i \in 1 .. Len(q) : \A d \in Block :
                 q[i] \in Range(await[d]) => \E j \in 1 .. i - 1 : q[j] = d)
    BY <1>1
  <1>11. \A b : (\E i \in 2 .. Len(q) : q[i] # q[1] /\ b \in Lists[q[i]])
                <=> (\E i \in 2 .. Len(q) : q[i] # q[1] /\ b \in Range(await[q[i]]))
    BY <1>5
  <1> QED
    BY <1>6, <1>7, <1>8, <1>9, <1>10, <1>11, Zenon DEF WakeInv, LoopWake, Wake

\* The same after a step.
LEMMA WakeFormNext ==
    TypeOK' /\ LoopWake' /\ (proc.queue = <<>> => proc = Idle)' => WakeInv'
  BY WakeForm, PTL

\* What was let through is closed under reference.
LEMMA OrderClosed ==
    ASSUME InclusionInv
    PROVE  Closed(Range(Order))
  <1> SUFFICES ASSUME NEW b \in Range(Order), NEW d \in Deps[b] PROVE d \in Range(Order)
    BY DEF Closed
  <1>1. Order \in Seq(Block)
    BY RangeOrder DEF InclusionInv
  <1>2. PICK i \in 1 .. Len(Order) : Order[i] = b
    BY <1>1, RangeMember
  <1>3. PICK j \in 1 .. i - 1 : Order[j] = d
    BY <1>2 DEF InclusionInv, CausalOrder
  <1>4. j \in 1 .. Len(Order)
    BY <1>1
  <1> QED
    BY <1>1, <1>3, <1>4, RangeMember

\* The lists after addPending, as sets.
LEMMA ListsAfter ==
    ASSUME TypeOK, TypeOK', NEW b \in Block, addPending(b, Deps[b] \ Range(Order))
    PROVE  Lists' = Listing(Lists, b, Range(Order)) /\ pending' = pending \cup {b}
  <1>1. ASSUME NEW d \in Block
        PROVE  Range(await'[d]) = IF d \in Deps[b] \ Range(Order) THEN Range(await[d]) \cup {b}
                                  ELSE Range(await[d])
    <2>1. await[d] \in Seq(Block)
      BY DEF TypeOK
    <2>2. await'[d] = IF d \in Deps[b] \ Range(Order) /\ b \notin Range(await[d])
                      THEN Append(await[d], b) ELSE await[d]
      BY DEF addPending
    <2>3. Range(Append(await[d], b)) = Range(await[d]) \cup {b}
      BY <2>1, RangeAppend
    <2> QED
      BY <2>2, <2>3
  <1> QED
    BY <1>1 DEF Lists, Listing, addPending

\* The loop takes the next block of in.
LEMMA WakeProcess ==
    ASSUME InclusionInv, InclusionInv', WakeInv, process
    PROVE  WakeInv'
  <1> DEFINE b == Head(in)
             R == Range(Order)
  <1>1. TypeOK /\ TypeOK' /\ LoopWake /\ proc = Idle
    BY WakeForm DEF InclusionInv, process
  <1>2. b \in Block
    BY <1>1, RangeTail DEF process, TypeOK
  <1>3. PICK cache \in Pruned :
           /\ processBlock(b, cache)
           /\ proc' = IF Through(b, cache)
                      THEN [queue |-> <<b>>, todo |-> await[b], seen |-> {b}, first |-> TRUE]
                      ELSE Idle
    BY DEF process
  <1>4. UNCHANGED <<log, refs>>
    BY DEF process, store
  <1>5. /\ cache \in [Block -> {"absent", "false", "true"}]
        /\ \A c \in Block : cache[c] = "absent" \/ cache[c] = icache[c]
    BY <1>1, PrunedCache
  <1>6. /\ Wake(R, Lists, pending, <<>>, {}, {})
        /\ R \in SUBSET Block /\ Lists \in [Block -> SUBSET Block] /\ pending \in SUBSET Block
        /\ Lists[b] = Range(await[b])
    BY <1>1, <1>2, RangeEmpty, LoopTypes DEF LoopWake, Idle
  <1> HIDE DEF b
  <1>7. CASE b \in R /\ Order' = Order /\ UNCHANGED <<await, pending>>
    <2>1. Through(b, cache)
      BY <1>2, <1>3, <1>4, <1>5, <1>7, ProcessBlockEffect
    <2>2. proc' = [queue |-> <<b>>, todo |-> await[b], seen |-> {b}, first |-> TRUE]
      BY <1>3, <2>1
    <2>3. Wake(R, Lists, pending, <<b>>, Lists[b], {b})
      BY <1>2, <1>6, <1>7, WakeAgain, OrderClosed
    <2>4. LoopWake'
      BY <1>6, <1>7, <2>2, <2>3 DEF LoopWake, Lists
    <2>5. proc'.queue # <<>>
      BY <2>2
    <2> QED
      BY <1>1, <2>4, <2>5, WakeFormNext
  <1>8. CASE /\ b \notin R /\ ~(Deps[b] \subseteq R) /\ Order' = Order
             /\ addPending(b, Deps[b] \ R)
    <2>1. ~Through(b, cache)
      BY <1>2, <1>3, <1>4, <1>5, <1>8, ProcessBlockEffect
    <2>2. proc' = Idle
      BY <1>3, <2>1
    <2>3. Lists' = Listing(Lists, b, R) /\ pending' = pending \cup {b}
      BY <1>1, <1>2, <1>8, ListsAfter
    <2>4. Wake(R, Listing(Lists, b, R), pending \cup {b}, <<>>, {}, {} \cup {b})
      <3>1. /\ <<>> \in Seq(Block)
            /\ {} \in SUBSET Block
            /\ {} \subseteq {} \cup {b}
            /\ {} \subseteq {}
        OBVIOUS
      <3> HIDE DEF R
      <3> QED
        BY <1>2, <1>6, <1>8, <3>1, WakeHeldBack, Zenon
    <2>5. Wake(R, Lists', pending', <<>>, {}, {})
      BY <2>3, <2>4 DEF Wake
    <2>6. LoopWake'
      BY <1>8, <2>2, <2>5, RangeEmpty DEF LoopWake, Idle
    <2> QED
      BY <1>1, <2>2, <2>6, WakeFormNext
  <1>9. CASE /\ b \notin R /\ Deps[b] \subseteq R /\ Order' = Append(Order, b)
             /\ UNCHANGED <<await, pending>>
    <2>1. Through(b, cache)
      BY <1>2, <1>3, <1>4, <1>5, <1>9, ProcessBlockEffect
    <2>2. proc' = [queue |-> <<b>>, todo |-> await[b], seen |-> {b}, first |-> TRUE]
      BY <1>3, <2>1
    <2>3. Wake(R \cup {b}, Lists, pending, <<b>>, Lists[b], {b})
      BY <1>2, <1>6, <1>9, WakeFirst
    <2>4. Range(Order)' = R \cup {b}
      BY <1>1, <1>2, <1>9, RangeOrder, RangeAppend
    <2>5. LoopWake'
      BY <1>6, <1>9, <2>2, <2>3, <2>4 DEF LoopWake, Lists
    <2>6. proc'.queue # <<>>
      BY <2>2
    <2> QED
      BY <1>1, <2>5, <2>6, WakeFormNext
  <1> QED
    BY <1>2, <1>3, <1>4, <1>5, <1>7, <1>8, <1>9, ProcessBlockEffect

\* The loop takes the next reverse dependency.
LEMMA WakeRevdep ==
    ASSUME InclusionInv, InclusionInv', WakeInv, processRevdep
    PROVE  WakeInv'
  <1> DEFINE b == Head(proc.todo)
             R == Range(Order)
             T == Range(proc.todo)
             U == Range(Tail(proc.todo))
  <1>1. TypeOK /\ TypeOK' /\ LoopWake /\ proc.todo # <<>>
    BY WakeForm DEF InclusionInv, processRevdep
  <1>2. b \in Block /\ T = {b} \cup U
    BY <1>1, RangeTail DEF TypeOK
  <1>3. /\ Wake(R, Lists, pending, proc.queue, T, proc.seen)
        /\ R \in SUBSET Block /\ Lists \in [Block -> SUBSET Block] /\ pending \in SUBSET Block
        /\ proc.queue \in Seq(Block) /\ T \in SUBSET Block /\ proc.seen \in SUBSET Block
    BY <1>1, LoopTypes DEF LoopWake
  <1>4. b \in T /\ U \in SUBSET Block /\ T \subseteq U \cup {b} /\ U \subseteq T
    BY <1>2, <1>3
  <1>5. Len(proc.queue) > 0
    BY <1>3, <1>4 DEF Wake
  <1>6. \A c : Len(Append(proc.queue, c)) > 0
    BY <1>3
  <1>7. UNCHANGED <<log, refs>>
    BY DEF processRevdep, store
  <1>8. proc \in [queue : Seq(Block), todo : Seq(Block), seen : SUBSET Block, first : BOOLEAN]
    BY <1>1 DEF TypeOK
  <1>9. ASSUME LoopWake', Len(proc'.queue) > 0 PROVE WakeInv'
    <2>1. proc'.queue # <<>>
      BY <1>9
    <2> QED
      BY <1>1, <1>9, <2>1, WakeFormNext
  <1>10. CASE /\ b \in proc.seen
              /\ proc' = [proc EXCEPT !.todo = Tail(@)]
              /\ UNCHANGED graph
    <2>1. Order' = Order /\ Lists' = Lists /\ pending' = pending
      BY <1>7, <1>10 DEF Order, Lists, graph
    <2>2. proc'.queue = proc.queue /\ proc'.todo = Tail(proc.todo) /\ proc'.seen = proc.seen
      BY <1>8, <1>10
    <2>3. Wake(R, Lists, pending, proc.queue, U, proc.seen)
      <3> HIDE DEF b, R, T, U
      <3> QED
        BY <1>3, <1>4, <1>10, WakeSkipped, Zenon
    <2>4. LoopWake'
      BY <2>1, <2>2, <2>3 DEF LoopWake
    <2> QED
      BY <1>5, <1>9, <2>2, <2>4
  <1>11. CASE /\ b \notin proc.seen
              /\ processBlock(b, icache)
              /\ proc' = [proc EXCEPT !.todo = Tail(@), !.seen = SeenAfter(b),
                                      !.queue = IF Through(b, icache) THEN Append(@, b) ELSE @]
    <2> DEFINE X == Through(b, icache)
               S == SeenAfter(b)
    <2>1. /\ proc'.todo = Tail(proc.todo) /\ proc'.seen = S
          /\ proc'.queue = IF X THEN Append(proc.queue, b) ELSE proc.queue
      <3> HIDE DEF b, X, S
      <3> QED
        BY <1>8, <1>11 DEF X, S
    <2>2. S = IF X THEN {} ELSE proc.seen \cup {b}
      BY DEF SeenAfter
    <2>3. icache \in [Block -> {"absent", "false", "true"}]
      BY <1>1 DEF TypeOK
    <2>4. /\ X <=> b \in R \/ Deps[b] \subseteq R
          /\ \/ b \in R /\ Order' = Order /\ UNCHANGED <<await, pending>>
             \/ /\ b \notin R /\ ~(Deps[b] \subseteq R) /\ Order' = Order
                /\ addPending(b, Deps[b] \ R)
             \/ /\ b \notin R /\ Deps[b] \subseteq R /\ Order' = Append(Order, b)
                /\ UNCHANGED <<await, pending>>
      BY <1>2, <1>7, <1>11, <2>3, ProcessBlockEffect
    <2> HIDE DEF b, X, S
    <2>5. CASE b \in R /\ Order' = Order /\ UNCHANGED <<await, pending>>
      <3>1. Wake(R, Lists, pending, Append(proc.queue, b), U, {})
        <4>1. Closed(R)
          BY OrderClosed
        <4> HIDE DEF R, T, U
        <4> QED
          BY <1>3, <1>4, <2>5, <4>1, WakeQueuedAgain, Zenon
      <3>2. Lists' = Lists
        BY <2>5 DEF Lists
      <3>3. LoopWake'
        BY <2>1, <2>2, <2>4, <2>5, <3>1, <3>2 DEF LoopWake
      <3> QED
        BY <1>6, <1>9, <2>1, <2>4, <2>5, <3>3
    <2>6. CASE /\ b \notin R /\ ~(Deps[b] \subseteq R) /\ Order' = Order
               /\ addPending(b, Deps[b] \ R)
      <3>1. Wake(R, Listing(Lists, b, R), pending \cup {b}, proc.queue, U, proc.seen \cup {b})
        <4> HIDE DEF R, T, U
        <4> QED
          BY <1>2, <1>3, <1>4, <2>6, WakeHeldBack, Zenon
      <3>2. Lists' = Listing(Lists, b, R) /\ pending' = pending \cup {b}
        BY <1>1, <1>2, <2>6, ListsAfter
      <3>3. LoopWake'
        BY <2>1, <2>2, <2>4, <2>6, <3>1, <3>2 DEF LoopWake
      <3> QED
        BY <1>5, <1>9, <2>1, <2>4, <2>6, <3>3
    <2>7. CASE /\ b \notin R /\ Deps[b] \subseteq R /\ Order' = Append(Order, b)
               /\ UNCHANGED <<await, pending>>
      <3>1. Wake(R \cup {b}, Lists, pending, Append(proc.queue, b), U, {})
        <4> HIDE DEF R, T, U
        <4> QED
          BY <1>3, <1>4, <2>7, WakeQueued, Zenon
      <3>2. Lists' = Lists
        BY <2>7 DEF Lists
      <3>3. Range(Order)' = R \cup {b}
        BY <1>1, <1>2, <2>7, RangeOrder, RangeAppend
      <3>4. LoopWake'
        BY <2>1, <2>2, <2>4, <2>7, <3>1, <3>2, <3>3 DEF LoopWake
      <3> QED
        BY <1>6, <1>9, <2>1, <2>4, <2>7, <3>4
    <2> QED
      BY <2>4, <2>5, <2>6, <2>7
  <1> QED
    BY <1>10, <1>11 DEF processRevdep

\* The loop is done with the head of its queue.
LEMMA WakeNextStep ==
    ASSUME InclusionInv, InclusionInv', WakeInv, processNext
    PROVE  WakeInv'
  <1> DEFINE h == Head(proc.queue)
             rest == Tail(proc.queue)
             R == Range(Order)
  <1>1. TypeOK /\ TypeOK' /\ LoopWake /\ proc.queue # <<>> /\ proc.todo = <<>>
    BY WakeForm DEF InclusionInv, processNext
  <1>2. /\ Wake(R, Lists, pending, proc.queue, {}, proc.seen)
        /\ R \in SUBSET Block /\ Lists \in [Block -> SUBSET Block] /\ pending \in SUBSET Block
        /\ proc.queue \in Seq(Block) /\ proc.seen \in SUBSET Block
    BY <1>1, LoopTypes, RangeEmpty DEF LoopWake
  <1>3. /\ rest \in Seq(Block) /\ h \in Block /\ Len(rest) = Len(proc.queue) - 1
        /\ \A i \in 1 .. Len(proc.queue) - 1 : rest[i] = proc.queue[i + 1]
        /\ proc.queue[1] = h /\ Len(proc.queue) > 0
    <2>1. /\ rest \in Seq(Block) /\ h \in Block /\ Len(rest) = Len(proc.queue) - 1
          /\ \A i \in 1 .. Len(proc.queue) - 1 : rest[i] = proc.queue[i + 1]
          /\ h = proc.queue[1] /\ Len(proc.queue) >= 1
      BY <1>1, <1>2, RangeTail
    <2>2. Len(proc.queue) \in Nat
      BY <1>2
    <2> HIDE DEF h, rest
    <2> QED
      BY <2>1, <2>2
  <1>4. /\ await' = [await EXCEPT ![h] = <<>>]
        /\ pending' = IF proc.first THEN pending ELSE pending \ {h}
        /\ proc' = IF rest = <<>> THEN Idle
                   ELSE [proc EXCEPT !.queue = rest, !.todo = await'[Head(rest)], !.first = FALSE]
        /\ Order' = Order
    BY DEF processNext, AwaitWithout, Order, store
  <1> HIDE DEF h, rest
  <1>5. Lists' \in [Block -> SUBSET Block] /\ \A d \in Block : Lists'[d] = Range(await'[d])
    <2>1. \A d \in Block : await'[d] \in Seq(Block)
      BY <1>1 DEF TypeOK
    <2>2. \A d \in Block : Range(await'[d]) \subseteq Block
      BY <2>1, RangeMember
    <2> QED
      BY <2>2 DEF Lists
  <1>6. \A d \in Block : Lists'[d] = IF d = h THEN {} ELSE Lists[d]
    <2>1. \A d \in Block : await'[d] = IF d = h THEN <<>> ELSE await[d]
      BY <1>1, <1>4 DEF TypeOK
    <2> QED
      BY <2>1, <1>5, RangeEmpty DEF Lists
  <1>7. Popped(proc.queue, rest, h) /\ Cleared(Lists, Lists', h)
    BY <1>3, <1>6 DEF Popped, Cleared
  <1>8. pending \ {h} \subseteq pending' /\ pending' \subseteq pending /\ pending' \in SUBSET Block
    BY <1>2, <1>4
  <1>9. proc \in [queue : Seq(Block), todo : Seq(Block), seen : SUBSET Block, first : BOOLEAN]
    BY <1>1 DEF TypeOK
  <1>10. ASSUME NEW U \in SUBSET Block, NEW seen \in SUBSET Block,
                NextTodo(rest, Lists', U), seen \subseteq proc.seen
         PROVE  Wake(R, Lists', pending', rest, U, seen)
    <2>1. rest \in Seq(Block) /\ h \in Block /\ Lists' \in [Block -> SUBSET Block]
      BY <1>3, <1>5
    <2> DEFINE V == Lists'
               Q == pending'
               W == Lists
               P == pending
               queue == proc.queue
               all == proc.seen
    <2> HIDE DEF R, V, Q, W, P, queue, all
    <2>2. /\ R \in SUBSET Block /\ W \in [Block -> SUBSET Block] /\ P \in SUBSET Block
          /\ queue \in Seq(Block) /\ rest \in Seq(Block) /\ all \in SUBSET Block
          /\ h \in Block /\ Q \in SUBSET Block /\ V \in [Block -> SUBSET Block]
      BY <1>2, <1>8, <2>1 DEF V, Q, W, P, queue, all
    <2>3. Wake(R, W, P, queue, {}, all) /\ Popped(queue, rest, h) /\ Cleared(W, V, h)
      BY <1>2, <1>7 DEF V, W, P, queue, all
    <2>4. P \ {h} \subseteq Q /\ Q \subseteq P /\ NextTodo(rest, V, U) /\ seen \subseteq all
      BY <1>8, <1>10 DEF V, Q, P, all
    <2>5. Wake(R, V, Q, rest, U, seen)
      BY <2>2, <2>3, <2>4, WakeNext
    <2> QED
      BY <2>5 DEF V, Q
  <1>11. CASE rest = <<>>
    <2>1. proc' = Idle /\ Len(rest) = 0
      BY <1>4, <1>11
    <2>2. Wake(R, Lists', pending', rest, {}, {})
      <3> HIDE DEF R
      <3>1. {} \in SUBSET Block /\ {} \subseteq proc.seen /\ NextTodo(rest, Lists', {})
        BY <2>1 DEF NextTodo
      <3> QED
        BY <1>10, <3>1
    <2>3. LoopWake'
      <3>1. proc'.queue = rest /\ Range(proc'.todo) = {} /\ proc'.seen = {}
        BY <1>11, <2>1, RangeEmpty DEF Idle
      <3> QED
        BY <1>4, <2>2, <3>1 DEF LoopWake
    <2> QED
      BY <1>1, <2>1, <2>3, WakeFormNext
  <1>12. CASE rest # <<>>
    <2>1. Len(rest) > 0 /\ Len(rest) # 0 /\ Head(rest) = rest[1] /\ rest[1] \in Block
      BY <1>3, <1>12
    <2>2. proc'.queue = rest /\ proc'.todo = await'[rest[1]] /\ proc'.seen = proc.seen
      BY <1>4, <1>9, <1>12, <2>1
    <2>3. Range(proc'.todo) = Lists'[rest[1]] /\ Lists'[rest[1]] \in SUBSET Block
      BY <1>5, <2>1, <2>2
    <2>4. Wake(R, Lists', pending', rest, Lists'[rest[1]], proc.seen)
      <3> HIDE DEF R
      <3>1. proc.seen \subseteq proc.seen /\ NextTodo(rest, Lists', Lists'[rest[1]])
        BY <2>1 DEF NextTodo
      <3> QED
        BY <1>10, <2>3, <1>2, <3>1
    <2>5. LoopWake'
      BY <1>4, <2>2, <2>3, <2>4 DEF LoopWake
    <2>6. proc'.queue # <<>>
      BY <1>12, <2>2
    <2> QED
      BY <1>1, <2>5, <2>6, WakeFormNext
  <1> QED
    BY <1>11, <1>12

\* Every step keeps WakeInv.
LEMMA WakeStep == InclusionInv /\ InclusionInv' /\ WakeInv /\ [Next]_vars => WakeInv'
  <1> SUFFICES ASSUME InclusionInv, InclusionInv', WakeInv, [Next]_vars PROVE WakeInv'
    OBVIOUS
  <1>1. CASE Order' = Order /\ UNCHANGED <<await, pending, proc>>
    BY <1>1 DEF WakeInv
  <1>2. CASE UNCHANGED <<log, refs, blocks, await, pending, proc>>
    <2>1. Order' = Order
      BY <1>2 DEF Order
    <2> QED
      BY <1>1, <1>2, <2>1
  <1>3. CASE getBlocks
    <2>1. Order' = Order
      BY <1>3, OrderTaken DEF InclusionInv
    <2> QED
      BY <1>1, <1>3, <2>1 DEF getBlocks
  <1>4. CASE setOwnBlock
    <2>1. Order' = Order
      BY <1>4, OrderSaved DEF InclusionInv
    <2> QED
      BY <1>1, <1>4, <2>1 DEF setOwnBlock, graph
  <1>5. CASE Restart
    <2>1. /\ \A d \in Block : await'[d] = <<>>
          /\ pending' = {} /\ proc' = Idle
      BY <1>5 DEF Restart, getNotIncluded, NoWaiting
    <2>2. /\ proc'.queue = <<>> /\ Len(proc'.queue) = 0 /\ Range(proc'.todo) = {} /\ proc'.seen = {}
          /\ \A d \in Block : Range(await'[d]) = {}
      BY <2>1, RangeEmpty DEF Idle
    <2>3. Range(Order)' \subseteq Block
      <3>1. Order' \in Seq(Block)
        BY <1>5 DEF Restart, getNotIncluded, InclusionInv, TypeOK, Order, store
      <3> QED
        BY <3>1, RangeMember
    <2>4. Wake(Range(Order)', Lists', {}, <<>>, {}, {})
      BY <2>2, <2>3, WakeEmpty DEF Lists
    <2>5. LoopWake'
      BY <2>1, <2>2, <2>4 DEF LoopWake
    <2> QED
      BY <2>1, <2>5, WakeFormNext DEF InclusionInv
  <1> QED
    BY <1>2, <1>3, <1>4, <1>5, WakeProcess, WakeRevdep, WakeNextStep
       DEF Next, Handler, Process, GenBlocks, vars, setBlock, add, actuallyIncluded, store, graph

-----------------------------------------------------------------------------
(* Theorems about the loop *)

\* The lists, the pending blocks and the queue of the loop in depgraph.process
\* stay in step.
THEOREM WakeInvariant == Spec => []WakeInv
  <1>1. Init => WakeInv
    <2> SUFFICES ASSUME Init PROVE WakeInv
      OBVIOUS
    <2>1. /\ proc.queue = <<>> /\ Len(proc.queue) = 0 /\ Range(proc.todo) = {} /\ proc.seen = {}
          /\ \A d \in Block : Range(await[d]) = {}
          /\ pending = {} /\ proc = Idle
      BY RangeEmpty DEF Init, NoWaiting, Idle
    <2>2. Range(Order) = {}
      BY RangeEmpty DEF Init, Order
    <2> QED
      BY <2>1, <2>2 DEF WakeInv
  <1> QED
    BY <1>1, WakeStep, InclusionInvariant, PTL DEF Spec

\* depgraph.process never looks up a block that is not pending, so processBlock
\* is never called with a missing block.
THEOREM RevdepsArePending == Spec => []PendingFound
  <1>1. InclusionInv /\ WakeInv => PendingFound
    <2> SUFFICES ASSUME InclusionInv, WakeInv, proc.todo # <<>> PROVE Head(proc.todo) \in pending
      BY DEF PendingFound
    <2>1. TypeOK /\ LoopWake
      BY WakeForm DEF InclusionInv
    <2>2. Head(proc.todo) \in Range(proc.todo)
      BY <2>1, RangeTail, LoopTypes
    <2>3. Len(proc.queue) > 0 /\ Head(proc.todo) \in Lists[proc.queue[1]]
      BY <2>1, <2>2 DEF LoopWake, Wake
    <2>4. proc.queue[1] \in Block
      BY <2>1, <2>3, LoopTypes
    <2> QED
      BY <2>1, <2>3, <2>4 DEF LoopWake, Wake
  <1> QED
    BY <1>1, WakeInvariant, InclusionInvariant, PTL

\* A block is held back only while it lacks a block, and it is on the list of
\* each one it lacks.
THEOREM EveryWakeupHappens == Spec => []NoLostWakeup
  <1>1. InclusionInv /\ WakeInv => NoLostWakeup
    <2> SUFFICES ASSUME InclusionInv, WakeInv, proc = Idle, NEW b \in pending,
                        ~isIncluded(b, icache)
                 PROVE  /\ Missing(b, icache) # {}
                        /\ \A d \in Missing(b, icache) : b \in Range(await[d])
      BY DEF NoLostWakeup
    <2>1. TypeOK /\ b \in Block /\ Deps[b] \subseteq Block
      BY DepgraphAssumption DEF InclusionInv, TypeOK
    <2>2. icache \in [Block -> {"absent", "false", "true"}]
      BY <2>1 DEF TypeOK
    <2>3. \A c \in Block : isIncluded(c, icache) <=> c \in Range(Order)
      BY <2>2, Truth
    <2>4. b \notin Range(Order) /\ Missing(b, icache) = Deps[b] \ Range(Order)
      BY <2>1, <2>3 DEF Missing
    <2>5. Range(proc.todo) = {} /\ Len(proc.queue) = 0
      BY RangeEmpty DEF Idle
    <2> QED
      BY <2>4, <2>5 DEF WakeInv
  <1> QED
    BY <1>1, WakeInvariant, InclusionInvariant, PTL
=============================================================================
