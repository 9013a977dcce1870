----------------------------- MODULE KeysProofs -----------------------------
(***************************************************************************)
(* What the store relies on in its keys, for all nodes and rounds that are  *)
(* small numbers, which the rounds of the first 95 days are at one a second, *)
(* and for hashes of any bytes.                                              *)
(***************************************************************************)
EXTENDS Keys, SequenceTheorems, TLAPS

SmallID == [Node : SmallValue, Round : SmallValue, Hash : Seq(Byte)]

\* The three bytes of a small number: none is zero, and they give the number back.
LEMMA SmallBytes ==
    ASSUME NEW v \in SmallValue
    PROVE  /\ Encode(v) = EncodeSmall(v)
           /\ Len(Encode(v)) = 3
           /\ Encode(v)[1] \in 128 .. 254
           /\ Encode(v)[2] \in 1 .. 255
           /\ Encode(v)[3] \in 1 .. 255
           /\ v = ((Encode(v)[1] - 128) * 255 + (Encode(v)[2] - 1)) * 255 + (Encode(v)[3] - 1)
  <1>0. v \in Nat /\ v < maxSmall /\ maxSmall \in Nat
    BY DEF SmallValue, maxSmall
  <1>1. Encode(v) = EncodeSmall(v)
    BY <1>0 DEF Encode
  <1> DEFINE a == (v \div 255) \div 255
             b == (v \div 255) % 255
             c == v % 255
  <1>2. Encode(v)[1] = 128 + a /\ Encode(v)[2] = b + 1 /\ Encode(v)[3] = c + 1 /\ Len(Encode(v)) = 3
    BY <1>1 DEF EncodeSmall
  <1>3. v \in Nat /\ v < 127 * 255 * 255
    BY <1>0 DEF maxSmall
  <1>4. a \in 0 .. 126 /\ b \in 0 .. 254 /\ c \in 0 .. 254 /\ v = (a * 255 + b) * 255 + c
    BY <1>3, SMT
  <1> HIDE DEF a, b, c
  <1>5. /\ Encode(v)[1] \in 128 .. 254 /\ Encode(v)[2] \in 1 .. 255 /\ Encode(v)[3] \in 1 .. 255
        /\ v = ((Encode(v)[1] - 128) * 255 + (Encode(v)[2] - 1)) * 255 + (Encode(v)[3] - 1)
    BY <1>2, <1>4, SMT
  <1> QED
    BY <1>1, <1>2, <1>5

\* A number is read back as it was written (Encode and Decode of internal/lexinum).
THEOREM SmallReadBack ==
    ASSUME NEW v \in SmallValue
    PROVE  Decode(Encode(v)) = v
  BY SmallBytes DEF Decode, DecodeSmall

\* Three digits in base 255 order numbers as they order themselves.
LEMMA DigitOrder ==
    ASSUME NEW a \in Int, NEW b \in Int, NEW c \in Int,
           NEW x \in Int, NEW y \in Int, NEW z \in Int,
           1 <= b, b <= 255, 1 <= c, c <= 255, 1 <= y, y <= 255, 1 <= z, z <= 255,
           ((a - 128) * 255 + (b - 1)) * 255 + (c - 1) < ((x - 128) * 255 + (y - 1)) * 255 + (z - 1)
    PROVE  a < x \/ (a = x /\ b < y) \/ (a = x /\ b = y /\ c < z)
  <1>1. a <= x
    BY SMT
  <1>2. CASE a = x
    BY <1>2, SMT
  <1> QED
    BY <1>1, <1>2, SMT

\* The order of two small numbers is that of the first byte in which they differ.
LEMMA SmallOrder ==
    ASSUME NEW v \in SmallValue, NEW w \in SmallValue, v < w
    PROVE  \E k \in 1 .. 3 : /\ \A j \in 1 .. k - 1 : Encode(v)[j] = Encode(w)[j]
                             /\ Encode(v)[k] < Encode(w)[k]
  <1> DEFINE a == Encode(v)[1]
             b == Encode(v)[2]
             c == Encode(v)[3]
             x == Encode(w)[1]
             y == Encode(w)[2]
             z == Encode(w)[3]
  <1>1. /\ a \in 128 .. 254 /\ b \in 1 .. 255 /\ c \in 1 .. 255
        /\ v = ((a - 128) * 255 + (b - 1)) * 255 + (c - 1)
    BY SmallBytes
  <1>2. /\ x \in 128 .. 254 /\ y \in 1 .. 255 /\ z \in 1 .. 255
        /\ w = ((x - 128) * 255 + (y - 1)) * 255 + (z - 1)
    BY SmallBytes
  <1> HIDE DEF a, b, c, x, y, z
  <1>3. a < x \/ (a = x /\ b < y) \/ (a = x /\ b = y /\ c < z)
    BY <1>1, <1>2, DigitOrder
  <1> QED
    <2>1. CASE a < x
      BY <2>1, SMT DEF a, x
    <2>2. CASE a = x /\ b < y
      BY <2>2, SMT DEF a, b, x, y
    <2>3. CASE a = x /\ b = y /\ c < z
      BY <2>3, SMT DEF a, b, c, x, y, z
    <2> QED
      BY <1>3, <2>1, <2>2, <2>3

\* The order of the bytes is the order of the numbers, so an iterator of badger meets the
\* rounds of a node in their order (Encode of internal/lexinum).
THEOREM SmallInOrder ==
    ASSUME NEW v \in SmallValue, NEW w \in SmallValue, v < w
    PROVE  Less(Encode(v), Encode(w))
  <1> DEFINE e == Encode(v)
             g == Encode(w)
  <1>1. Len(e) = 3 /\ Len(g) = 3
    BY SmallBytes
  <1>2. PICK k \in 1 .. 3 : (\A j \in 1 .. k - 1 : e[j] = g[j]) /\ e[k] < g[k]
    BY SmallOrder
  <1>3. k <= 3 + 1
    OBVIOUS
  <1> HIDE DEF e, g
  <1>4. Less(e, g)
    BY <1>1, <1>2, <1>3, Zenon DEF Less
  <1> QED
    BY <1>4 DEF e, g

\* What a concatenation consists of.
LEMMA Joined ==
    ASSUME NEW s \in Seq(Byte), NEW t \in Seq(Byte)
    PROVE  /\ s \o t \in Seq(Byte)
           /\ Len(s \o t) = Len(s) + Len(t)
           /\ \A k \in 1 .. Len(s) : (s \o t)[k] = s[k]
           /\ \A k \in 1 .. Len(t) : (s \o t)[k + Len(s)] = t[k]
  <1> DEFINE u == s \o t
  <1>1. /\ u \in Seq(Byte)
        /\ Len(u) = Len(s) + Len(t)
        /\ \A i \in 1 .. Len(s) + Len(t) : u[i] = IF i <= Len(s) THEN s[i] ELSE t[i - Len(s)]
    BY ConcatProperties
  <1>2. Len(s) \in Nat /\ Len(t) \in Nat
    OBVIOUS
  <1> DEFINE m == Len(s)
             n == Len(t)
  <1>3. m \in Nat /\ n \in Nat /\ \A i \in 1 .. m + n : u[i] = IF i <= m THEN s[i] ELSE t[i - m]
    BY <1>1, <1>2
  <1> HIDE DEF u, m, n
  <1>4. \A k \in 1 .. m : u[k] = s[k]
    BY <1>3
  <1>5. \A k \in 1 .. n : u[k + m] = t[k]
    <2> TAKE k \in 1 .. n
    <2>1. k + m \in 1 .. m + n /\ ~(k + m <= m) /\ (k + m) - m = k
      BY <1>3
    <2> QED
      BY <1>3, <2>1
  <1> QED
    BY <1>1, <1>4, <1>5 DEF u, m, n

\* A small number is written in three bytes.
LEMMA SmallSeq ==
    ASSUME NEW v \in SmallValue
    PROVE  Encode(v) \in Seq(Byte) /\ Len(Encode(v)) = 3
  <1>1. /\ Encode(v) = <<128 + (v \div 255) \div 255, ((v \div 255) % 255) + 1, (v % 255) + 1>>
        /\ Len(Encode(v)) = 3
    BY SmallBytes DEF EncodeSmall
  <1>2. Encode(v) = <<Encode(v)[1], Encode(v)[2], Encode(v)[3]>>
    BY <1>1
  <1>3. Encode(v)[1] \in Byte /\ Encode(v)[2] \in Byte /\ Encode(v)[3] \in Byte
    BY SmallBytes, SMT DEF Byte
  <1> HIDE DEF Encode
  <1>4. \A x, y, z \in Byte : <<x, y, z>> \in Seq(Byte)
    OBVIOUS
  <1> QED
    BY <1>1, <1>2, <1>3, <1>4

\* Where the parts of an encoded ID are.
LEMMA IDShape ==
    ASSUME NEW id \in SmallID
    PROVE  LET d == encodeBlockID(id)
           IN  /\ d \in Seq(Byte)
               /\ Len(d) = 8 + Len(id.Hash)
               /\ \A k \in 1 .. 3 : d[k] = Encode(id.Node)[k] /\ d[k + 4] = Encode(id.Round)[k]
               /\ d[4] = 0 /\ d[8] = 0
               /\ \A k \in 1 .. Len(id.Hash) : d[k + 8] = id.Hash[k]
  <1>1. id.Node \in SmallValue /\ id.Round \in SmallValue /\ id.Hash \in Seq(Byte)
    BY DEF SmallID
  <1> DEFINE e == Encode(id.Node)
             g == Encode(id.Round)
             h == id.Hash
  <1>2. e \in Seq(Byte) /\ Len(e) = 3 /\ g \in Seq(Byte) /\ Len(g) = 3
    BY <1>1, SmallSeq
  <1>3. <<0>> \in Seq(Byte) /\ Len(<<0>>) = 1 /\ <<0>>[1] = 0
    BY DEF Byte
  <1>4. encodeBlockID(id) = (((e \o <<0>>) \o g) \o <<0>>) \o h
    BY DEF encodeBlockID
  <1> HIDE DEF e, g, h
  <1> DEFINE d1 == e \o <<0>>
  <1>5. /\ d1 \in Seq(Byte) /\ Len(d1) = 4
        /\ d1[1] = e[1] /\ d1[2] = e[2] /\ d1[3] = e[3] /\ d1[4] = 0
    <2>1. /\ d1 \in Seq(Byte)
          /\ Len(d1) = Len(e) + Len(<<0>>)
          /\ \A k \in 1 .. Len(e) : d1[k] = e[k]
          /\ \A k \in 1 .. Len(<<0>>) : d1[k + Len(e)] = <<0>>[k]
      BY <1>2, <1>3, Joined
    <2> HIDE DEF d1
    <2> QED
      BY <2>1, <1>2, <1>3
  <1> HIDE DEF d1
  <1> DEFINE d2 == d1 \o g
  <1>6. /\ d2 \in Seq(Byte) /\ Len(d2) = 7
        /\ d2[1] = d1[1] /\ d2[2] = d1[2] /\ d2[3] = d1[3] /\ d2[4] = d1[4]
        /\ d2[5] = g[1] /\ d2[6] = g[2] /\ d2[7] = g[3]
    <2>1. /\ d2 \in Seq(Byte)
          /\ Len(d2) = Len(d1) + Len(g)
          /\ \A k \in 1 .. Len(d1) : d2[k] = d1[k]
          /\ \A k \in 1 .. Len(g) : d2[k + Len(d1)] = g[k]
      BY <1>2, <1>5, Joined
    <2> HIDE DEF d2
    <2> QED
      BY <2>1, <1>2, <1>5
  <1> HIDE DEF d2
  <1> DEFINE d3 == d2 \o <<0>>
  <1>7. /\ d3 \in Seq(Byte) /\ Len(d3) = 8
        /\ \A k \in 1 .. 7 : d3[k] = d2[k]
        /\ d3[8] = 0
    <2>1. /\ d3 \in Seq(Byte)
          /\ Len(d3) = Len(d2) + Len(<<0>>)
          /\ \A k \in 1 .. Len(d2) : d3[k] = d2[k]
          /\ \A k \in 1 .. Len(<<0>>) : d3[k + Len(d2)] = <<0>>[k]
      BY <1>3, <1>6, Joined
    <2> HIDE DEF d3
    <2> QED
      BY <2>1, <1>3, <1>6
  <1> HIDE DEF d3
  <1> DEFINE d4 == d3 \o h
  <1>8. /\ d4 \in Seq(Byte) /\ Len(d4) = 8 + Len(h)
        /\ \A k \in 1 .. 8 : d4[k] = d3[k]
        /\ \A k \in 1 .. Len(h) : d4[k + 8] = h[k]
    <2>1. h \in Seq(Byte) /\ Len(h) \in Nat
      BY <1>1 DEF h
    <2>2. /\ d4 \in Seq(Byte)
          /\ Len(d4) = Len(d3) + Len(h)
          /\ \A k \in 1 .. Len(d3) : d4[k] = d3[k]
          /\ \A k \in 1 .. Len(h) : d4[k + Len(d3)] = h[k]
      BY <2>1, <1>7, Joined
    <2> HIDE DEF d4
    <2> QED
      BY <2>1, <2>2, <1>7
  <1>9. encodeBlockID(id) = d4
    BY <1>4 DEF d1, d2, d3
  <1> HIDE DEF d4
  <1>10. \A k \in 1 .. 3 : d4[k] = e[k] /\ d4[k + 4] = g[k]
    <2>1. d4[1] = e[1] /\ d4[2] = e[2] /\ d4[3] = e[3]
      BY <1>5, <1>6, <1>7, <1>8
    <2>2. d4[5] = g[1] /\ d4[6] = g[2] /\ d4[7] = g[3]
      BY <1>6, <1>7, <1>8
    <2> QED
      BY <2>1, <2>2, SMT
  <1>11. d4[4] = 0 /\ d4[8] = 0
    BY <1>5, <1>6, <1>7, <1>8
  <1> QED
    BY <1>8, <1>9, <1>10, <1>11 DEF e, g, h

\* A part of a byte string, found again by its place.
LEMMA Part ==
    ASSUME NEW d \in Seq(Byte), NEW t \in Seq(Byte), NEW m \in Nat,
           m + Len(t) <= Len(d), \A k \in 1 .. Len(t) : d[k + m] = t[k]
    PROVE  SubSeq(d, m + 1, m + Len(t)) = t
  <1> DEFINE n == Len(t)
             l == Len(d)
             p == SubSeq(d, m + 1, m + n)
  <1>1. n \in Nat /\ l \in Nat /\ m + n <= l
    BY LenProperties
  <1>2. \A i \in 1 .. l : d[i] \in Byte
    BY ElementOfSeq
  <1>3. \A i \in 1 .. n : d[i + m] = t[i]
    OBVIOUS
  <1> HIDE DEF n, l
  <1>4. \A i \in m + 1 .. m + n : d[i] \in Byte
    BY <1>1, <1>2
  <1>5. m + 1 \in Int /\ m + n \in Int
    BY <1>1
  <1>6. /\ p \in Seq(Byte)
        /\ Len(p) = IF m + 1 <= m + n THEN (m + n) - (m + 1) + 1 ELSE 0
        /\ \A i \in 1 .. (m + n) - (m + 1) + 1 : p[i] = d[(m + 1) + i - 1]
    BY <1>4, <1>5, SubSeqProperties
  <1> HIDE DEF p
  <1>7. Len(p) = n /\ (m + n) - (m + 1) + 1 = n
    BY <1>1, <1>6
  <1>8. \A i \in 1 .. n : p[i] = t[i]
    <2> TAKE i \in 1 .. n
    <2>1. (m + 1) + i - 1 = i + m
      BY <1>1
    <2> QED
      BY <1>3, <1>6, <1>7, <2>1
  <1>9. p = t
    BY <1>6, <1>7, <1>8, SeqEqual DEF n
  <1> QED
    BY <1>9 DEF p, n

\* The zero before which there is none.
LEMMA FirstZero ==
    ASSUME NEW d, NEW from \in Nat, NEW n \in Nat, Len(d) = n,
           NEW k \in from .. n, d[k] = 0, \A j \in from .. k - 1 : d[j] # 0
    PROVE  ZeroFrom(d, from) = k
  <1> DEFINE P(i) == d[i] = 0 /\ \A j \in from .. i - 1 : d[j] # 0
  <1>1. k \in from .. Len(d) /\ P(k)
    OBVIOUS
  <1>2. \A i \in from .. Len(d) : P(i) => i = k
    OBVIOUS
  <1>3. ZeroFrom(d, from) = CHOOSE i \in from .. Len(d) : P(i)
    BY DEF ZeroFrom
  <1> HIDE DEF P
  <1> QED
    BY <1>1, <1>2, <1>3

\* A block's node, round and hash are read back from an encoded ID: the zeros that end the
\* numbers are the first two, whatever bytes the hash has (encodeBlockID and decodeBlockID
\* of store.go).
THEOREM IDReadBack ==
    ASSUME NEW id \in SmallID
    PROVE  decodeBlockID(encodeBlockID(id)) = id
  <1> DEFINE d == encodeBlockID(id)
             e == Encode(id.Node)
             g == Encode(id.Round)
             h == id.Hash
  <1>1. id.Node \in SmallValue /\ id.Round \in SmallValue /\ h \in Seq(Byte) /\ Len(h) \in Nat
    BY DEF SmallID
  <1>2. /\ d \in Seq(Byte) /\ Len(d) = 8 + Len(h)
        /\ \A k \in 1 .. 3 : d[k] = e[k] /\ d[k + 4] = g[k]
        /\ d[4] = 0 /\ d[8] = 0
        /\ \A k \in 1 .. Len(h) : d[k + 8] = h[k]
    BY IDShape
  <1>3. e \in Seq(Byte) /\ Len(e) = 3 /\ g \in Seq(Byte) /\ Len(g) = 3
    BY <1>1, SmallSeq
  <1>4. /\ e[1] # 0 /\ e[2] # 0 /\ e[3] # 0
        /\ g[1] # 0 /\ g[2] # 0 /\ g[3] # 0
    <2>1. \A v \in SmallValue : Encode(v)[1] # 0 /\ Encode(v)[2] # 0 /\ Encode(v)[3] # 0
      BY SmallBytes
    <2> QED
      BY <1>1, <2>1
  <1>5. Decode(e) = id.Node /\ Decode(g) = id.Round
    BY <1>1, SmallReadBack
  <1> HIDE DEF d, e, g
  <1>6. ZeroFrom(d, 1) = 4
    <2>1. \A j \in 1 .. 4 - 1 : d[j] # 0
      BY <1>2, <1>4
    <2>2. 4 \in 1 .. 8 + Len(h) /\ 8 + Len(h) \in Nat
      BY <1>1
    <2> QED
      BY <1>2, <2>1, <2>2, FirstZero
  <1>7. ZeroFrom(d, 5) = 8
    <2>1. d[5] = g[1] /\ d[6] = g[2] /\ d[7] = g[3]
      BY <1>2
    <2>2. \A j \in 5 .. 8 - 1 : d[j] # 0
      BY <2>1, <1>4
    <2>3. 8 \in 5 .. 8 + Len(h) /\ 8 + Len(h) \in Nat
      BY <1>1
    <2> QED
      BY <1>2, <2>2, <2>3, FirstZero
  <1>8. SubSeq(d, 1, 3) = e
    <2>1. 0 + Len(e) <= Len(d) /\ \A k \in 1 .. Len(e) : d[k + 0] = e[k]
      BY <1>1, <1>2, <1>3
    <2>2. SubSeq(d, 0 + 1, 0 + Len(e)) = e
      BY <2>1, <1>2, <1>3, Part
    <2> QED
      BY <2>2, <1>3
  <1>9. SubSeq(d, 5, 7) = g
    <2>1. 4 + Len(g) <= Len(d) /\ \A k \in 1 .. Len(g) : d[k + 4] = g[k]
      BY <1>1, <1>2, <1>3
    <2>2. SubSeq(d, 4 + 1, 4 + Len(g)) = g
      BY <2>1, <1>2, <1>3, Part
    <2> QED
      BY <2>2, <1>3
  <1>10. SubSeq(d, 9, Len(d)) = h
    <2>1. SubSeq(d, 8 + 1, 8 + Len(h)) = h
      BY <1>1, <1>2, Part
    <2> QED
      BY <2>1, <1>2
  <1>11. decodeBlockID(d) = [Node |-> Decode(e), Round |-> Decode(g), Hash |-> h]
    <2>1. decodeBlockID(d) = [Node |-> Decode(SubSeq(d, 1, 4 - 1)),
                              Round |-> Decode(SubSeq(d, 4 + 1, 8 - 1)),
                              Hash |-> SubSeq(d, 8 + 1, Len(d))]
      <3>1. ZeroFrom(d, 4 + 1) = 8
        BY <1>7
      <3> QED
        BY <1>6, <3>1 DEF decodeBlockID
    <2>2. 4 - 1 = 3 /\ 4 + 1 = 5 /\ 8 - 1 = 7 /\ 8 + 1 = 9
      OBVIOUS
    <2>3. SubSeq(d, 1, 4 - 1) = e /\ SubSeq(d, 4 + 1, 8 - 1) = g /\ SubSeq(d, 8 + 1, Len(d)) = h
      BY <2>2, <1>8, <1>9, <1>10
    <2> QED
      BY <2>1, <2>3, Zenon
  <1>12. id = [Node |-> id.Node, Round |-> id.Round, Hash |-> h]
    BY DEF SmallID
  <1> QED
    BY <1>5, <1>11, <1>12 DEF d

\* The bytes of a block's key.
LEMMA KeyShape ==
    ASSUME NEW id \in SmallID
    PROVE  LET b == blockKey(id)
           IN  /\ Len(b) \in Nat /\ Len(b) >= 9
               /\ b[1] = 1 /\ b[5] = 0
               /\ \A k \in 1 .. 3 : b[k + 1] = Encode(id.Node)[k] /\ b[k + 5] = Encode(id.Round)[k]
  <1> DEFINE d == encodeBlockID(id)
             b == <<1>> \o d
             n == Len(id.Hash)
  <1>1. /\ d \in Seq(Byte) /\ Len(d) = 8 + n
        /\ \A k \in 1 .. 3 : d[k] = Encode(id.Node)[k] /\ d[k + 4] = Encode(id.Round)[k]
        /\ d[4] = 0
    BY IDShape
  <1>2. n \in Nat
    BY DEF SmallID
  <1>3. <<1>> \in Seq(Byte) /\ Len(<<1>>) = 1 /\ <<1>>[1] = 1
    BY DEF Byte
  <1> HIDE DEF d, n
  <1>4. /\ Len(b) = Len(<<1>>) + Len(d)
        /\ \A k \in 1 .. Len(<<1>>) : b[k] = <<1>>[k]
        /\ \A k \in 1 .. Len(d) : b[k + Len(<<1>>)] = d[k]
    BY <1>1, <1>3, Joined
  <1>5. blockKey(id) = b
    BY DEF blockKey, blockPrefix, d
  <1> HIDE DEF b
  <1>6. Len(b) = 9 + n /\ b[1] = 1 /\ \A k \in 1 .. 8 + n : b[k + 1] = d[k]
    BY <1>1, <1>2, <1>3, <1>4
  <1>7. b[5] = d[4]
    <2>1. 4 \in 1 .. 8 + n /\ 4 + 1 = 5
      BY <1>2
    <2> QED
      BY <1>6, <2>1
  <1>8. \A k \in 1 .. 3 : b[k + 1] = d[k] /\ b[k + 5] = d[k + 4]
    <2> TAKE k \in 1 .. 3
    <2>1. k \in 1 .. 8 + n /\ k + 4 \in 1 .. 8 + n /\ (k + 4) + 1 = k + 5
      BY <1>2
    <2> QED
      BY <1>6, <2>1
  <1> QED
    BY <1>1, <1>2, <1>5, <1>6, <1>7, <1>8

\* The bytes of the prefix and of the start of a scan.
LEMMA SeekShape ==
    ASSUME NEW node \in SmallValue, NEW since \in Nat, since + 1 \in SmallValue
    PROVE  LET p == prefix(node)
               s == seek(node, since)
           IN  /\ Len(p) = 5 /\ Len(s) = 8
               /\ p[1] = 1 /\ p[5] = 0
               /\ \A k \in 1 .. 5 : s[k] = p[k]
               /\ \A k \in 1 .. 3 : p[k + 1] = Encode(node)[k] /\ s[k + 5] = Encode(since + 1)[k]
  <1> DEFINE e == Encode(node)
             g == Encode(since + 1)
  <1>1. e \in Seq(Byte) /\ Len(e) = 3 /\ g \in Seq(Byte) /\ Len(g) = 3
    BY SmallSeq
  <1>2. /\ <<1>> \in Seq(Byte) /\ Len(<<1>>) = 1 /\ <<1>>[1] = 1
        /\ <<0>> \in Seq(Byte) /\ Len(<<0>>) = 1 /\ <<0>>[1] = 0
    BY DEF Byte
  <1> HIDE DEF e, g
  <1> DEFINE q == <<1>> \o e
  <1>3. q \in Seq(Byte) /\ Len(q) = 4 /\ q[1] = 1 /\ q[2] = e[1] /\ q[3] = e[2] /\ q[4] = e[3]
    <2>1. /\ q \in Seq(Byte)
          /\ Len(q) = Len(<<1>>) + Len(e)
          /\ \A k \in 1 .. Len(<<1>>) : q[k] = <<1>>[k]
          /\ \A k \in 1 .. Len(e) : q[k + Len(<<1>>)] = e[k]
      BY <1>1, <1>2, Joined
    <2> HIDE DEF q
    <2> QED
      BY <2>1, <1>1, <1>2
  <1> HIDE DEF q
  <1> DEFINE p == q \o <<0>>
  <1>4. p \in Seq(Byte) /\ Len(p) = 5 /\ p[5] = 0 /\ \A k \in 1 .. 4 : p[k] = q[k]
    <2>1. /\ p \in Seq(Byte)
          /\ Len(p) = Len(q) + Len(<<0>>)
          /\ \A k \in 1 .. Len(q) : p[k] = q[k]
          /\ \A k \in 1 .. Len(<<0>>) : p[k + Len(q)] = <<0>>[k]
      BY <1>2, <1>3, Joined
    <2> HIDE DEF p
    <2> QED
      BY <2>1, <1>2, <1>3
  <1> HIDE DEF p
  <1> DEFINE s == p \o g
  <1>5. /\ Len(s) = 8
        /\ \A k \in 1 .. 5 : s[k] = p[k]
        /\ \A k \in 1 .. 3 : s[k + 5] = g[k]
    <2>1. /\ Len(s) = Len(p) + Len(g)
          /\ \A k \in 1 .. Len(p) : s[k] = p[k]
          /\ \A k \in 1 .. Len(g) : s[k + Len(p)] = g[k]
      BY <1>1, <1>4, Joined
    <2> HIDE DEF s
    <2> QED
      BY <2>1, <1>1, <1>4
  <1>6. prefix(node) = p /\ seek(node, since) = s
    BY DEF prefix, seek, blockPrefix, p, q, e, g
  <1> HIDE DEF s
  <1>7. \A k \in 1 .. 3 : p[k + 1] = e[k]
    <2>1. p[2] = e[1] /\ p[3] = e[2] /\ p[4] = e[3]
      BY <1>3, <1>4
    <2> QED
      BY <2>1, SMT
  <1>8. p[1] = 1
    BY <1>3, <1>4
  <1> QED
    BY <1>4, <1>5, <1>6, <1>7, <1>8 DEF e, g

\* The first of three positions that differ.
LEMMA FirstOfThree ==
    ASSUME NEW g, NEW y
    PROVE  (\E k \in 1 .. 3 : (\A j \in 1 .. k - 1 : g[j] = y[j]) /\ g[k] < y[k])
             <=> \/ g[1] < y[1]
                 \/ g[1] = y[1] /\ g[2] < y[2]
                 \/ g[1] = y[1] /\ g[2] = y[2] /\ g[3] < y[3]
  <1> DEFINE P(k) == (\A j \in 1 .. k - 1 : g[j] = y[j]) /\ g[k] < y[k]
  <1>1. P(1) <=> g[1] < y[1]
    BY SMT
  <1>2. P(2) <=> g[1] = y[1] /\ g[2] < y[2]
    BY SMT
  <1>3. P(3) <=> g[1] = y[1] /\ g[2] = y[2] /\ g[3] < y[3]
    BY SMT
  <1> HIDE DEF P
  <1>4. (\E k \in 1 .. 3 : P(k)) <=> P(1) \/ P(2) \/ P(3)
    BY SMT
  <1> QED
    BY <1>1, <1>2, <1>3, <1>4 DEF P

\* Of two byte strings that agree in the first five bytes, the next three decide.
LEMMA TailDecides ==
    ASSUME NEW b, NEW s,
           b[1] = s[1], b[2] = s[2], b[3] = s[3], b[4] = s[4], b[5] = s[5],
           b[1] \in Int, b[2] \in Int, b[3] \in Int, b[4] \in Int, b[5] \in Int
    PROVE  (\E k \in 1 .. 8 : (\A j \in 1 .. k - 1 : b[j] = s[j]) /\ b[k] < s[k])
             <=> \/ b[6] < s[6]
                 \/ b[6] = s[6] /\ b[7] < s[7]
                 \/ b[6] = s[6] /\ b[7] = s[7] /\ b[8] < s[8]
  <1> DEFINE P(k) == (\A j \in 1 .. k - 1 : b[j] = s[j]) /\ b[k] < s[k]
  <1>1. ~P(1) /\ ~P(2) /\ ~P(3) /\ ~P(4) /\ ~P(5)
    BY SMT
  <1>2. \A j \in 1 .. 5 : b[j] = s[j]
    BY SMT
  <1>3. P(6) <=> b[6] < s[6]
    BY <1>2, SMT
  <1>4. P(7) <=> b[6] = s[6] /\ b[7] < s[7]
    BY <1>2, SMT
  <1>5. P(8) <=> b[6] = s[6] /\ b[7] = s[7] /\ b[8] < s[8]
    BY <1>2, SMT
  <1> HIDE DEF P
  <1>6. (\E k \in 1 .. 8 : P(k)) <=> P(6) \/ P(7) \/ P(8)
    BY <1>1, SMT
  <1> QED
    BY <1>3, <1>4, <1>5, <1>6 DEF P

\* The order of byte strings of which the first has at least the eight bytes of the other.
LEMMA LessOfEight ==
    ASSUME NEW b, NEW s, NEW n \in Nat, Len(b) = n, n >= 9, Len(s) = 8
    PROVE  Less(b, s) <=> \E k \in 1 .. 8 : (\A j \in 1 .. k - 1 : b[j] = s[j]) /\ b[k] < s[k]
  <1> DEFINE P(k) == \A j \in 1 .. k - 1 : b[j] = s[j]
             Q(k) == b[k] < s[k]
  <1>1. Less(b, s) <=> \E k \in 1 .. 8 : k <= n + 1 /\ P(k) /\ (k <= n => Q(k))
    BY Zenon DEF Less
  <1>2. \A k \in 1 .. 8 : k <= n + 1 /\ k <= n
    OBVIOUS
  <1> HIDE DEF P, Q
  <1>3. Less(b, s) <=> \E k \in 1 .. 8 : P(k) /\ Q(k)
    BY <1>1, <1>2, Zenon
  <1> QED
    BY <1>3 DEF P, Q

\* A scan of getMissing goes over the blocks of its node with a later round, all of them,
\* and over no others: it starts at the first of them and ends with the prefix (the Seek
\* and the ValidForPrefix of getMissing of store.go).
THEOREM ScanIsExact ==
    ASSUME NEW id \in SmallID, NEW node \in SmallValue,
           NEW since \in Nat, since + 1 \in SmallValue
    PROVE  Scanned(blockKey(id), seek(node, since), prefix(node))
             <=> id.Node = node /\ id.Round > since
  <1> DEFINE b == blockKey(id)
             p == prefix(node)
             s == seek(node, since)
             e == Encode(id.Node)
             x == Encode(node)
             g == Encode(id.Round)
             y == Encode(since + 1)
  <1>1. id.Node \in SmallValue /\ id.Round \in SmallValue /\ id.Round \in Nat
    BY DEF SmallID, SmallValue
  <1>2. /\ Len(b) \in Nat /\ Len(b) >= 9 /\ b[1] = 1 /\ b[5] = 0
        /\ \A k \in 1 .. 3 : b[k + 1] = e[k] /\ b[k + 5] = g[k]
    BY KeyShape
  <1>3. /\ Len(p) = 5 /\ Len(s) = 8 /\ p[1] = 1 /\ p[5] = 0
        /\ \A k \in 1 .. 5 : s[k] = p[k]
        /\ \A k \in 1 .. 3 : p[k + 1] = x[k] /\ s[k + 5] = y[k]
    BY SeekShape
  <1>4. \A v \in SmallValue : /\ Encode(v)[1] \in Int /\ Encode(v)[2] \in Int /\ Encode(v)[3] \in Int
                              /\ v = ((Encode(v)[1] - 128) * 255 + (Encode(v)[2] - 1)) * 255 + (Encode(v)[3] - 1)
    BY SmallBytes
  <1>5. (e[1] = x[1] /\ e[2] = x[2] /\ e[3] = x[3]) <=> id.Node = node
    <2>1. id.Node = node => (e[1] = x[1] /\ e[2] = x[2] /\ e[3] = x[3])
      OBVIOUS
    <2>2. /\ id.Node = ((e[1] - 128) * 255 + (e[2] - 1)) * 255 + (e[3] - 1)
          /\ node = ((x[1] - 128) * 255 + (x[2] - 1)) * 255 + (x[3] - 1)
      BY <1>1, <1>4
    <2> HIDE DEF e, x
    <2> QED
      BY <2>1, <2>2, Zenon
  <1>6. /\ \A k \in 1 .. 3 : x[k] \in Int /\ g[k] \in Int /\ y[k] \in Int
    <2>1. /\ x[1] \in Int /\ x[2] \in Int /\ x[3] \in Int
          /\ g[1] \in Int /\ g[2] \in Int /\ g[3] \in Int
          /\ y[1] \in Int /\ y[2] \in Int /\ y[3] \in Int
      BY <1>1, <1>4
    <2> HIDE DEF x, g, y
    <2> QED
      BY <2>1, SMT
  <1>7. id.Round < since + 1 => \E k \in 1 .. 3 : (\A j \in 1 .. k - 1 : g[j] = y[j]) /\ g[k] < y[k]
    BY <1>1, SmallOrder
  <1>8. since + 1 < id.Round => \E k \in 1 .. 3 : (\A j \in 1 .. k - 1 : y[j] = g[j]) /\ y[k] < g[k]
    BY <1>1, SmallOrder
  <1>9. since + 1 = id.Round => y = g
    OBVIOUS
  <1>10. Scanned(b, s, p) <=> ~Less(b, s) /\ 5 <= Len(b) /\ \A k \in 1 .. 5 : b[k] = p[k]
    <2> HIDE DEF b, s, p
    <2> QED
      BY <1>3 DEF Scanned, ValidForPrefix
  <1> DEFINE before == \E k \in 1 .. 3 : (\A j \in 1 .. k - 1 : g[j] = y[j]) /\ g[k] < y[k]
  <1> HIDE DEF b, p, s, e, x, g, y
  <1>11. (\A k \in 1 .. 5 : b[k] = p[k]) <=> id.Node = node
    <2>1. b[2] = e[1] /\ b[3] = e[2] /\ b[4] = e[3] /\ p[2] = x[1] /\ p[3] = x[2] /\ p[4] = x[3]
      BY <1>2, <1>3
    <2>2. (\A k \in 1 .. 5 : b[k] = p[k]) <=> (e[1] = x[1] /\ e[2] = x[2] /\ e[3] = x[3])
      BY <2>1, <1>2, <1>3, SMT
    <2> QED
      BY <2>2, <1>5
  <1>12. before <=> id.Round < since + 1
    <2>1. CASE id.Round < since + 1
      BY <2>1, <1>7
    <2>2. CASE since + 1 < id.Round
      <3>1. ~ before
        BY <2>2, <1>6, <1>8
      <3> QED
        BY <3>1, <2>2, <1>1
    <2>3. CASE since + 1 = id.Round
      <3>1. ~ before
        BY <2>3, <1>6, <1>9
      <3> QED
        BY <3>1, <2>3, <1>1
    <2> HIDE DEF before
    <2> QED
      BY <2>1, <2>2, <2>3, <1>1
  <1>13. ASSUME id.Node = node
         PROVE  Less(b, s) <=> before
    <2>1. s[1] = 1 /\ s[2] = x[1] /\ s[3] = x[2] /\ s[4] = x[3] /\ s[5] = 0
      BY <1>3
    <2>2. /\ b[1] = s[1] /\ b[2] = s[2] /\ b[3] = s[3] /\ b[4] = s[4] /\ b[5] = s[5]
          /\ b[1] \in Int /\ b[2] \in Int /\ b[3] \in Int /\ b[4] \in Int /\ b[5] \in Int
      <3>1. b[1] = p[1] /\ b[2] = p[2] /\ b[3] = p[3] /\ b[4] = p[4] /\ b[5] = p[5]
        BY <1>13, <1>11, SMT
      <3>2. s[1] = p[1] /\ s[2] = p[2] /\ s[3] = p[3] /\ s[4] = p[4] /\ s[5] = p[5]
        BY <1>3, SMT
      <3>3. x[1] \in Int /\ x[2] \in Int /\ x[3] \in Int
        BY <1>6, SMT
      <3> QED
        BY <2>1, <3>1, <3>2, <3>3
    <2>3. b[6] = g[1] /\ b[7] = g[2] /\ b[8] = g[3] /\ s[6] = y[1] /\ s[7] = y[2] /\ s[8] = y[3]
      BY <1>2, <1>3
    <2>4. Less(b, s) <=> \E k \in 1 .. 8 : (\A j \in 1 .. k - 1 : b[j] = s[j]) /\ b[k] < s[k]
      BY <1>2, <1>3, LessOfEight
    <2>5. (\E k \in 1 .. 8 : (\A j \in 1 .. k - 1 : b[j] = s[j]) /\ b[k] < s[k])
            <=> \/ b[6] < s[6]
                \/ b[6] = s[6] /\ b[7] < s[7]
                \/ b[6] = s[6] /\ b[7] = s[7] /\ b[8] < s[8]
      BY <2>2, TailDecides
    <2>6. before <=> \/ g[1] < y[1]
                     \/ g[1] = y[1] /\ g[2] < y[2]
                     \/ g[1] = y[1] /\ g[2] = y[2] /\ g[3] < y[3]
      BY FirstOfThree
    <2> HIDE DEF before
    <2> QED
      BY <2>3, <2>4, <2>5, <2>6, Zenon
  <1>14. (id.Round < since + 1) <=> ~(id.Round > since)
    BY <1>1
  <1> HIDE DEF before
  <1>15. 5 <= Len(b)
    BY <1>2
  <1> QED
    BY <1>10, <1>11, <1>12, <1>13, <1>14, <1>15, Zenon DEF b, p, s
=============================================================================
