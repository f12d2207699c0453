-------------------------- MODULE LinkChannelProofs --------------------------
(***************************************************************************)
(* The proof that a link (Link.tla) implements the channel that            *)
(* PackageChannel.tla describes.  The packages are numbered as they are    *)
(* queued.  So the invariant adds to that of LinkProofs that numbers rise  *)
(* along the queue and along each connection, and that what is on the      *)
(* connection in use comes before what is queued.                          *)
(***************************************************************************)
EXTENDS LinkProofs

\* A piece that ends a package.
Ends(p) == p.m \in Msgs /\ p = Last(Pieces(p.m))
Rising(s) ==
    \A i, j \in 1 .. Len(s) : i < j /\ Ends(s[i]) /\ Ends(s[j]) => s[i].m < s[j].m
Below(s, n) == \A i \in 1 .. Len(s) : Ends(s[i]) => s[i].m < n

QueueRises ==
    /\ \A i, j \in 1 .. Len(out) : i < j => out[i] < out[j]
    /\ \A i \in 1 .. Len(out) : out[i] <= made
WiresRise == \A c \in Conns : Rising(wire[c]) /\ Below(wire[c], made + 1)
QueueFollows == \A k \in 1 .. Len(out) : cur \in Conns => Below(wire[cur], out[k])

\* A sending end that is not connected has closed its connection, and one that
\* is to come has not gone silent.
Fresh ==
    /\ link # "up" => cur \notin alive
    /\ \A c \in silent : c <= cur

Numbers == QueueRises /\ WiresRise /\ QueueFollows /\ Fresh
CInv == IInv /\ Numbers

Step == [Ch!Next]_(Ch!chVars)
-----------------------------------------------------------------------------
(* The last pieces of a stream.                                            *)

\* The last piece of a package names it, and no other piece ends one.
LEMMA EndsFacts ==
    /\ \A m \in Msgs : /\ Last(Pieces(m)) \in AnyPiece
                       /\ Last(Pieces(m)).m = m
                       /\ Last(Pieces(m)) = Piece(m, IF m \in Bare THEN "header_data" ELSE "data")
                       /\ Ends(Last(Pieces(m)))
    /\ \A m \in Msgs \cup {Heartbeat} : ~Ends(Piece(m, "header"))
    /\ \A m \in Msgs \ Bare : ~Ends(Piece(m, "header_data"))
    /\ Heartbeat \notin Msgs /\ Msgs \subseteq Nat
<1>1. Heartbeat \notin Msgs /\ Msgs \subseteq Nat
  BY LinkAssumption DEF Heartbeat, Msgs
<1>2. ASSUME NEW m \in Msgs
      PROVE  /\ Last(Pieces(m)) \in AnyPiece
             /\ Last(Pieces(m)).m = m
             /\ Last(Pieces(m)) = Piece(m, IF m \in Bare THEN "header_data" ELSE "data")
             /\ Ends(Last(Pieces(m)))
  <2>1. m # Heartbeat
    BY <1>1
  <2>2. Last(Pieces(m)) = Piece(m, IF m \in Bare THEN "header_data" ELSE "data")
    <3>1. CASE m \in Bare
      BY <2>1, <3>1, PiecesFacts DEF Last
    <3>2. CASE m \notin Bare
      BY <2>1, <3>2, PiecesFacts DEF Last
    <3> QED
      BY <3>1, <3>2
  <2>3. Last(Pieces(m)) \in AnyPiece /\ Last(Pieces(m)).m = m
    <3>1. CASE m \in Bare
      BY <2>2, <3>1, AfterFacts
    <3>2. CASE m \notin Bare
      BY <2>2, <3>2, AfterFacts
    <3> QED
      BY <3>1, <3>2
  <2> QED
    BY <2>2, <2>3 DEF Ends
<1>3. ASSUME NEW m \in Msgs \cup {Heartbeat}
      PROVE  ~Ends(Piece(m, "header"))
  <2>1. Piece(m, "header").m = m /\ Piece(m, "header").part = "header"
    BY DEF Piece
  <2>2. m \in Msgs => Last(Pieces(m)).part # "header"
    BY <1>2 DEF Piece
  <2> QED
    BY <2>1, <2>2 DEF Ends
<1>4. ASSUME NEW m \in Msgs \ Bare
      PROVE  ~Ends(Piece(m, "header_data"))
  <2>1. Piece(m, "header_data").m = m /\ Piece(m, "header_data").part = "header_data"
    BY DEF Piece
  <2>2. Last(Pieces(m)).part = "data"
    BY <1>2 DEF Piece
  <2> QED
    BY <2>1, <2>2 DEF Ends
<1> QED
  BY <1>1, <1>2, <1>3, <1>4

\* The packages on the way are those whose last piece is.
LEMMA OnWayFacts ==
    ASSUME NEW s
    PROVE  /\ OnWay(s) \subseteq Msgs
           /\ \A m : m \in OnWay(s) <=> \E i \in 1 .. Len(s) : Ends(s[i]) /\ s[i].m = m
<1>1. ASSUME NEW m, m \in OnWay(s)
      PROVE  m \in Msgs /\ \E i \in 1 .. Len(s) : Ends(s[i]) /\ s[i].m = m
  BY <1>1, EndsFacts DEF OnWay
<1>2. ASSUME NEW i \in 1 .. Len(s), Ends(s[i])
      PROVE  s[i].m \in OnWay(s)
  BY <1>2 DEF OnWay, Ends
<1> QED
  BY <1>1, <1>2

\* A bound may be raised.
LEMMA BelowMore ==
    ASSUME NEW s, NEW a \in Nat, NEW b \in Nat, a <= b, Below(s, a)
    PROVE  Below(s, b)
<1> SUFFICES ASSUME NEW i \in 1 .. Len(s), Ends(s[i])
             PROVE  s[i].m < b
  BY DEF Below
<1>1. s[i].m \in Nat /\ s[i].m < a
  BY EndsFacts DEF Ends, Below
<1> QED
  BY <1>1

\* What is left of a stream of which pieces are taken or lost at its ends.
LEMMA PartFacts ==
    ASSUME NEW s \in Seq(AnyPiece), NEW t \in Seq(AnyPiece), NEW d \in Nat,
           \A i \in 1 .. Len(t) : i + d \in 1 .. Len(s) /\ t[i] = s[i + d]
    PROVE  /\ Rising(s) => Rising(t)
           /\ \A n : Below(s, n) => Below(t, n)
           /\ OnWay(t) \subseteq OnWay(s)
<1>1. ASSUME Rising(s)
      PROVE  Rising(t)
  <2> SUFFICES ASSUME NEW i \in 1 .. Len(t), NEW j \in 1 .. Len(t), i < j, Ends(t[i]), Ends(t[j])
               PROVE  t[i].m < t[j].m
    BY DEF Rising
  <2>1. i + d < j + d
    OBVIOUS
  <2> QED
    BY <1>1, <2>1 DEF Rising
<1>2. \A n : Below(s, n) => Below(t, n)
  BY DEF Below
<1>3. OnWay(t) \subseteq OnWay(s)
  BY OnWayFacts
<1> QED
  BY <1>1, <1>2, <1>3

\* The reader takes the first piece: with the last of a package the first
\* package on the way is gone, with any other none.
LEMMA TailFacts ==
    ASSUME NEW s \in Seq(AnyPiece), s # <<>>
    PROVE  /\ Tail(s) \in Seq(AnyPiece)
           /\ Rising(s) => Rising(Tail(s))
           /\ \A n : Below(s, n) => Below(Tail(s), n)
           /\ ~Ends(Head(s)) => OnWay(Tail(s)) = OnWay(s)
           /\ Ends(Head(s)) /\ Rising(s) =>
                /\ Head(s).m \in OnWay(s)
                /\ \A m \in OnWay(s) : Head(s).m <= m
                /\ OnWay(Tail(s)) = OnWay(s) \ {Head(s).m}
<1>1. PICK n \in Nat \ {0} : n = Len(s)
  BY EmptySeq
<1> DEFINE t == Tail(s)
<1>2. t \in Seq(AnyPiece) /\ Len(t) = n - 1 /\ \A i \in 1 .. n - 1 : t[i] = s[i + 1]
  BY <1>1, HeadTailProperties
<1>3. Head(s) = s[1] /\ 1 \in 1 .. n
  BY <1>1
<1> HIDE DEF t
<1>4. /\ Rising(s) => Rising(t)
      /\ \A k : Below(s, k) => Below(t, k)
      /\ OnWay(t) \subseteq OnWay(s)
  <2>1. \A i \in 1 .. Len(t) : i + 1 \in 1 .. Len(s) /\ t[i] = s[i + 1]
    BY <1>1, <1>2
  <2> QED
    BY <1>2, <2>1, PartFacts
<1>5. \A i \in 1 .. n : i = 1 \/ (i - 1 \in 1 .. Len(t) /\ t[i - 1] = s[i])
  BY <1>1, <1>2
<1>6. \A m \in OnWay(s) : m \in OnWay(t) \/ (Ends(s[1]) /\ s[1].m = m)
  BY <1>1, <1>5, OnWayFacts
<1>7. ASSUME Ends(s[1]), Rising(s)
      PROVE  /\ s[1].m \in OnWay(s)
             /\ \A m \in OnWay(t) : s[1].m < m
             /\ s[1].m \in Nat
  <2>1. s[1].m \in OnWay(s)
    BY <1>1, <1>3, <1>7, OnWayFacts
  <2>2. ASSUME NEW m \in OnWay(t)
        PROVE  s[1].m < m
    <3>1. PICK i \in 1 .. Len(t) : Ends(t[i]) /\ t[i].m = m
      BY OnWayFacts
    <3>2. i + 1 \in 1 .. n /\ 1 < i + 1 /\ s[i + 1] = t[i]
      BY <1>1, <1>2
    <3> QED
      BY <1>1, <1>3, <1>7, <3>1, <3>2 DEF Rising
  <2>3. s[1].m \in Nat
    BY <1>7, EndsFacts DEF Ends
  <2> QED
    BY <2>1, <2>2, <2>3
<1>8. ASSUME Ends(s[1]), Rising(s)
      PROVE  /\ \A m \in OnWay(s) : s[1].m <= m
             /\ OnWay(t) = OnWay(s) \ {s[1].m}
  <2>1. OnWay(s) \subseteq Nat
    BY OnWayFacts, EndsFacts
  <2>2. \A m \in OnWay(s) : s[1].m <= m
    BY <1>6, <1>7, <1>8, <2>1
  <2>3. s[1].m \notin OnWay(t)
    BY <1>7, <1>8
  <2> QED
    BY <1>4, <1>6, <2>2, <2>3
<1> QED
  BY <1>2, <1>3, <1>4, <1>6, <1>7, <1>8 DEF t

\* A connection that breaks loses the last packages.
LEMMA PrefixOnWay ==
    ASSUME NEW s \in Seq(AnyPiece), NEW n \in 0 .. Len(s), Rising(s)
    PROVE  /\ SubSeq(s, 1, n) \in Seq(AnyPiece)
           /\ Rising(SubSeq(s, 1, n))
           /\ \A k : Below(s, k) => Below(SubSeq(s, 1, n), k)
           /\ OnWay(SubSeq(s, 1, n)) \subseteq OnWay(s)
           /\ \A m \in OnWay(SubSeq(s, 1, n)) : \A k \in OnWay(s) :
                 k < m => k \in OnWay(SubSeq(s, 1, n))
<1> DEFINE t == SubSeq(s, 1, n)
<1>1. /\ t \in Seq(AnyPiece) /\ Len(t) = n /\ \A i \in 1 .. n : t[i] = s[i]
      /\ n \in Nat /\ Len(s) \in Nat /\ n <= Len(s)
  BY PrefixFacts
<1> HIDE DEF t
<1>2. /\ Rising(t)
      /\ \A k : Below(s, k) => Below(t, k)
      /\ OnWay(t) \subseteq OnWay(s)
  <2>1. \A i \in 1 .. Len(t) : i + 0 \in 1 .. Len(s) /\ t[i] = s[i + 0]
    BY <1>1
  <2> QED
    BY <1>1, <2>1, PartFacts
<1>3. ASSUME NEW m \in OnWay(t), NEW k \in OnWay(s), k < m
      PROVE  k \in OnWay(t)
  <2>1. PICK i \in 1 .. Len(t) : Ends(t[i]) /\ t[i].m = m
    BY OnWayFacts
  <2>2. PICK j \in 1 .. Len(s) : Ends(s[j]) /\ s[j].m = k
    BY OnWayFacts
  <2>3. i \in 1 .. Len(s) /\ s[i] = t[i] /\ m \in Nat /\ k \in Nat
    <3>1. m \in Msgs /\ k \in Msgs
      BY <1>2, OnWayFacts
    <3> QED
      BY <1>1, <3>1, EndsFacts
  <2>4. ~(i < j)
    BY <1>3, <2>1, <2>2, <2>3 DEF Rising
  <2>5. j # i
    BY <1>3, <2>1, <2>2, <2>3
  <2>6. j \in 1 .. Len(t) /\ t[j] = s[j]
    BY <1>1, <2>4, <2>5
  <2> QED
    BY <2>2, <2>6, OnWayFacts
<1> QED
  BY <1>1, <1>2, <1>3 DEF t
\* Only the last piece of a package ends it, and no heartbeat ends one.
LEMMA PieceEnds ==
    ASSUME NEW m \in Msgs \cup {Heartbeat}, NEW i \in 1 .. Len(Pieces(m))
    PROVE  /\ Ends(Pieces(m)[i]) <=> m # Heartbeat /\ i = Len(Pieces(m))
           /\ Pieces(m)[i].m = m
<1>1. PICK n \in 1 .. 3 : n = Len(Pieces(m))
  BY PiecesFacts
<1>2. i \in 1 .. 3 /\ i <= n
  BY <1>1
<1>3. CASE i = n /\ m # Heartbeat
  <2>1. Pieces(m)[i] = Last(Pieces(m)) /\ m \in Msgs
    BY <1>1, <1>3 DEF Last
  <2> QED
    BY <1>1, <1>3, <2>1, EndsFacts
<1>4. CASE i = 1 /\ ~(i = n /\ m # Heartbeat)
  <2>1. Pieces(m)[i] = Piece(m, "header") /\ (m = Heartbeat \/ i # n)
    BY <1>4, PiecesFacts
  <2> QED
    BY <1>1, <2>1, EndsFacts, AfterFacts
<1>5. CASE i = 2 /\ n = 3
  <2>1. m # Heartbeat /\ m \notin Bare
    BY <1>1, <1>5, PiecesFacts
  <2>2. Pieces(m)[i] = Piece(m, "header_data")
    <3>1. i = 2 /\ Len(Pieces(m)) > 1
      BY <1>1, <1>5
    <3> QED
      BY <3>1, PiecesFacts
  <2> QED
    BY <1>1, <1>5, <2>1, <2>2, EndsFacts, AfterFacts
<1>6. n = 1 => m = Heartbeat
  BY <1>1, PiecesFacts
<1>7. m = Heartbeat => n = 1
  BY <1>1, PiecesFacts
<1> QED
  BY <1>2, <1>3, <1>4, <1>5, <1>7

\* A stream that grows: by nothing that ends a package, or by all of package m.
Kept(s, u) ==
    /\ OnWay(u) = OnWay(s)
    /\ Rising(s) => Rising(u)
    /\ \A n \in Nat : Below(s, n) => Below(u, n)
Gained(s, u, m) ==
    /\ OnWay(u) = OnWay(s) \cup {m}
    /\ Rising(s) /\ Below(s, m) => Rising(u)
    /\ \A n \in Nat : Below(s, n) /\ m < n => Below(u, n)

\* Nothing in the new part of the stream ends a package.
LEMMA NothingEnds ==
    ASSUME NEW s \in Seq(AnyPiece), NEW u \in Seq(AnyPiece),
           \A i \in 1 .. Len(s) : i \in 1 .. Len(u) /\ u[i] = s[i],
           \A i \in 1 .. Len(u) : Ends(u[i]) => i \in 1 .. Len(s)
    PROVE  Kept(s, u)
<1>1. ASSUME NEW k
      PROVE  k \in OnWay(u) <=> k \in OnWay(s)
  <2>1. ASSUME k \in OnWay(u)
        PROVE  k \in OnWay(s)
    <3>1. PICK i \in 1 .. Len(u) : Ends(u[i]) /\ u[i].m = k
      BY <2>1, OnWayFacts
    <3> QED
      BY <3>1, OnWayFacts
  <2>2. ASSUME k \in OnWay(s)
        PROVE  k \in OnWay(u)
    <3>1. PICK i \in 1 .. Len(s) : Ends(s[i]) /\ s[i].m = k
      BY <2>2, OnWayFacts
    <3> QED
      BY <3>1, OnWayFacts
  <2> QED
    BY <2>1, <2>2
<1>2. Rising(s) => Rising(u)
  BY DEF Rising
<1>3. \A n \in Nat : Below(s, n) => Below(u, n)
  BY DEF Below
<1> QED
  BY <1>1, <1>2, <1>3 DEF Kept

\* A stream that grows and ends with the last piece of one more package.
LEMMA OneEnds ==
    ASSUME NEW s \in Seq(AnyPiece), NEW u \in Seq(AnyPiece), NEW m \in Msgs,
           NEW z \in 1 .. Len(u), z \notin 1 .. Len(s), Ends(u[z]), u[z].m = m,
           \A i \in 1 .. Len(s) : i \in 1 .. Len(u) /\ u[i] = s[i] /\ i < z,
           \A i \in 1 .. Len(u) : Ends(u[i]) => i \in 1 .. Len(s) \/ i = z
    PROVE  Gained(s, u, m)
<1>1. ASSUME NEW k
      PROVE  k \in OnWay(u) <=> k \in OnWay(s) \/ k = m
  <2>1. ASSUME k \in OnWay(u)
        PROVE  k \in OnWay(s) \/ k = m
    <3>1. PICK i \in 1 .. Len(u) : Ends(u[i]) /\ u[i].m = k
      BY <2>1, OnWayFacts
    <3>2. CASE i \in 1 .. Len(s)
      BY <3>1, <3>2, OnWayFacts
    <3> QED
      BY <3>1, <3>2
  <2>2. ASSUME k \in OnWay(s)
        PROVE  k \in OnWay(u)
    <3>1. PICK i \in 1 .. Len(s) : Ends(s[i]) /\ s[i].m = k
      BY <2>2, OnWayFacts
    <3> QED
      BY <3>1, OnWayFacts
  <2>3. m \in OnWay(u)
    BY OnWayFacts
  <2> QED
    BY <2>1, <2>2, <2>3
<1>2. ASSUME Rising(s), Below(s, m)
      PROVE  Rising(u)
  <2> SUFFICES ASSUME NEW i \in 1 .. Len(u), NEW j \in 1 .. Len(u),
                      i < j, Ends(u[i]), Ends(u[j])
               PROVE  u[i].m < u[j].m
    BY DEF Rising
  <2>1. i \in 1 .. Len(s)
    OBVIOUS
  <2>2. CASE j \in 1 .. Len(s)
    BY <1>2, <2>1, <2>2 DEF Rising
  <2>3. CASE j = z
    <3>1. u[i] = s[i] /\ Ends(s[i])
      BY <2>1
    <3>2. s[i].m < m
      BY <1>2, <2>1, <3>1 DEF Below
    <3> QED
      BY <2>3, <3>1, <3>2
  <2> QED
    BY <2>2, <2>3
<1>3. \A n \in Nat : Below(s, n) /\ m < n => Below(u, n)
  BY DEF Below
<1> QED
  BY <1>1, <1>2, <1>3 DEF Gained

\* What the writer adds to a stream: a package when it has written the last
\* piece of one, nothing before.
LEMMA ChunkOnWay ==
    ASSUME NEW s \in Seq(AnyPiece), NEW m \in Msgs \cup {Heartbeat},
           NEW first \in Nat, NEW end \in Nat,
           0 < first, first <= end, end <= Len(Pieces(m))
    PROVE  /\ end < Len(Pieces(m)) \/ m = Heartbeat =>
                Kept(s, s \o SubSeq(Pieces(m), first, end))
           /\ end = Len(Pieces(m)) /\ m # Heartbeat =>
                Gained(s, s \o SubSeq(Pieces(m), first, end), m)
<1>1. PICK off \in Nat : first = off + 1 /\ off < end
  OBVIOUS
<1>2. PICK t : t = SubSeq(Pieces(m), off + 1, end)
  OBVIOUS
<1>3. PICK l \in Nat : l = Len(Pieces(m)) /\ end <= l
  BY PiecesFacts
<1>4. PICK u : u = s \o t
  OBVIOUS
<1>5. /\ t \in Seq(AnyPiece) /\ Len(t) = end - off
      /\ \A i \in 1 .. end - off : t[i] = Pieces(m)[off + i]
  <2>1. off < end
    BY <1>1
  <2> QED
    BY <2>1, <1>2, ChunkPieces
<1>6. PICK a \in Nat : a = Len(s)
  OBVIOUS
<1>7. PICK b \in Nat \ {0} : b = end - off
  BY <1>1
<1>8. t \in Seq(AnyPiece) /\ Len(t) = b
  BY <1>5, <1>7
<1>9. u \in Seq(AnyPiece) /\ Len(u) = a + b
  BY <1>4, <1>8, <1>6, ConcatProperties
<1>10. \A i \in 1 .. a + b : u[i] = IF i <= a THEN s[i] ELSE t[i - a]
  BY <1>4, <1>8, <1>6
<1>11. ASSUME NEW i \in 1 .. b
      PROVE  /\ Ends(t[i]) <=> m # Heartbeat /\ i = b /\ end = l
             /\ t[i].m = m
  <2>1. off + i \in 1 .. l /\ (off + i = l <=> i = b /\ end = l) /\ t[i] = Pieces(m)[off + i]
    BY <1>1, <1>3, <1>5, <1>7
  <2>2. off + i \in 1 .. Len(Pieces(m))
    BY <1>3, <2>1
  <2>3. /\ Ends(Pieces(m)[off + i]) <=> m # Heartbeat /\ off + i = Len(Pieces(m))
        /\ Pieces(m)[off + i].m = m
    BY <2>2, PieceEnds
  <2> QED
    BY <1>3, <2>1, <2>3
<1>12. ASSUME NEW i \in 1 .. a + b
      PROVE  \/ i \in 1 .. a /\ u[i] = s[i]
             \/ /\ i > a /\ u[i].m = m
                /\ Ends(u[i]) <=> m # Heartbeat /\ i = a + b /\ end = l
  <2>1. CASE i <= a
    BY <1>10, <2>1
  <2>2. CASE i > a
    <3>1. PICK k \in 1 .. b : k = i - a
      BY <2>2
    <3>2. ~(i <= a)
      BY <2>2
    <3>3. u[i] = IF i <= a THEN s[i] ELSE t[i - a]
      BY <1>10
    <3>4. u[i] = t[i - a]
      BY <3>2, <3>3
    <3>5. u[i] = t[k]
      BY <3>1, <3>4, Zenon
    <3>6. k = b <=> i = a + b
      BY <3>1
    <3> QED
      BY <1>11, <2>2, <3>5, <3>6
  <2> QED
    BY <2>1, <2>2
<1>13. \A i \in 1 .. a : i \in 1 .. a + b /\ u[i] = s[i] /\ i < a + b
  BY <1>10
<1>14. ASSUME end < l \/ m = Heartbeat
       PROVE  Kept(s, u)
  <2>1. \A i \in 1 .. a + b : Ends(u[i]) => i \in 1 .. a
    BY <1>12, <1>14
  <2>2. /\ \A i \in 1 .. Len(s) : i \in 1 .. Len(u) /\ u[i] = s[i]
        /\ \A i \in 1 .. Len(u) : Ends(u[i]) => i \in 1 .. Len(s)
    BY <1>6, <1>9, <1>13, <2>1
  <2> QED
    BY <1>9, <2>2, NothingEnds
<1>15. ASSUME end = l, m # Heartbeat
       PROVE  Gained(s, u, m)
  <2>1. PICK z \in 1 .. a + b : z = a + b
    OBVIOUS
  <2>2. z \notin 1 .. a
    BY <2>1
  <2>3. Ends(u[z]) /\ u[z].m = m
    BY <1>12, <1>15, <2>1, <2>2
  <2>4. \A i \in 1 .. a + b : Ends(u[i]) => i \in 1 .. a \/ i = z
    BY <1>12, <2>1
  <2>5. /\ z \in 1 .. Len(u) /\ z \notin 1 .. Len(s) /\ m \in Msgs
        /\ \A i \in 1 .. Len(s) : i \in 1 .. Len(u) /\ u[i] = s[i] /\ i < z
        /\ \A i \in 1 .. Len(u) : Ends(u[i]) => i \in 1 .. Len(s) \/ i = z
    BY <1>6, <1>9, <1>13, <1>15, <2>1, <2>2, <2>4
  <2>6. Ends(u[z]) /\ u[z].m = m /\ z \in 1 .. Len(u)
    BY <2>3, <2>5
  <2> QED
    BY <1>9, <2>5, <2>6, OneEnds
<1>16. u = s \o SubSeq(Pieces(m), first, end)
  BY <1>1, <1>2, <1>4
<1> QED
  BY <1>3, <1>14, <1>15, <1>16
-----------------------------------------------------------------------------
(* The steps.                                                              *)

\* A step that neither the queue, nor a stream, nor what is reported shows.
LEMMA QuietStep ==
    ASSUME CInv, UNCHANGED <<out, made, cur, alive, silent, torn, wire, got>>,
           link' # "up" => cur \notin alive
    PROVE  Numbers' /\ Step
<1>1. Numbers'
  BY DEF CInv, Numbers, QueueRises, WiresRise, QueueFollows, Fresh
<1>2. Ok' = Ok /\ Flight' = Flight /\ Heard' = Heard
  BY DEF Ok, Flight, Heard
<1> QED
  BY <1>1, <1>2 DEF Step, Ch!chVars

\* A step of the channel in which a connection fails.
LEMMA BreakFacts ==
    ASSUME NEW c \in Conns, UNCHANGED <<out, made, cur>>, Ok' = Ok \ {c}, Heard' = Heard,
           NEW kept \in SUBSET Flight[c],
           \A m \in kept : \A n \in Flight[c] : n < m => n \in kept,
           Flight' = [Flight EXCEPT ![c] = kept]
    PROVE  Step
<1>1. Ch!Fail(c)
  BY DEF Ch!Fail
<1>2. Ch!Break(c)
  BY <1>1 DEF Ch!Break
<1> QED
  BY <1>2 DEF Step, Ch!Next

\* It may lose everything.
LEMMA BreakNone ==
    ASSUME NEW c \in Conns, UNCHANGED <<out, made, cur>>, Ok' = Ok \ {c}, Heard' = Heard,
           Flight' = [Flight EXCEPT ![c] = {}]
    PROVE  Step
<1>1. PICK kept : kept = {}
  OBVIOUS
<1>2. /\ kept \in SUBSET Flight[c]
      /\ \A m \in kept : \A n \in Flight[c] : n < m => n \in kept
      /\ Flight' = [Flight EXCEPT ![c] = kept]
  BY <1>1
<1> QED
  BY <1>2, BreakFacts

\* What is on the way.
LEMMA FlightFacts ==
    /\ DOMAIN Flight = Conns
    /\ \A c \in Conns : Flight[c] = IF c \in torn THEN {} ELSE OnWay(wire[c])
    /\ Flight = [c \in Conns |-> Flight[c]]
<1>1. /\ DOMAIN Flight = Conns
      /\ \A c \in Conns : Flight[c] = IF c \in torn THEN {} ELSE OnWay(wire[c])
  BY DEF Flight
<1>2. Flight = [c \in Conns |-> Flight[c]]
  BY DEF Flight
<1> QED
  BY <1>1, <1>2

\* What changes on one connection only.
LEMMA FlightChanges ==
    ASSUME NEW c \in Conns, NEW S,
           S = (IF c \in torn' THEN {} ELSE OnWay(wire'[c])),
           \A k \in Conns \ {c} : (k \in torn' <=> k \in torn) /\ wire'[k] = wire[k]
    PROVE  Flight' = [Flight EXCEPT ![c] = S]
<1>1. Flight' = [k \in Conns |-> IF k \in torn' THEN {} ELSE OnWay(wire'[k])]
  BY DEF Flight
<1>2. [Flight EXCEPT ![c] = S] = [k \in Conns |-> IF k = c THEN S ELSE Flight[k]]
  BY FlightFacts
<1>3. ASSUME NEW k \in Conns
      PROVE  (IF k \in torn' THEN {} ELSE OnWay(wire'[k])) = IF k = c THEN S ELSE Flight[k]
  <2>1. CASE k = c
    BY <2>1
  <2>2. CASE k # c
    BY <2>2, FlightFacts
  <2> QED
    BY <2>1, <2>2
<1> QED
  BY <1>1, <1>2, <1>3

\* SendMessage is a step of the channel or none, and keeps the numbers in order.
LEMMA ChSendMessage ==
    ASSUME CInv, NEW m \in Msgs, SendMessage(m)
    PROVE  Numbers' /\ Step
<1>1. /\ m = made + 1 /\ made' = m /\ out' = Append(out, m)
      /\ UNCHANGED <<cur, link, alive, silent, wire, torn, got>>
  BY DEF SendMessage, receiver, network
<1>2. /\ out \in Seq(Msgs) /\ made \in Nat /\ Msgs \subseteq Nat
  BY LinkAssumption, EndsFacts DEF CInv, IInv, TypeOK
<1>3. PICK n \in Nat : n = Len(out)
  BY <1>2
<1>4. /\ Len(out') = n + 1 /\ out'[n + 1] = m
      /\ \A i \in 1 .. n : out'[i] = out[i]
  BY <1>1, <1>2, <1>3, AppendProperties
<1>5. \A i \in 1 .. n + 1 : i \in 1 .. n \/ i = n + 1
  BY <1>3
<1>6. \A i \in 1 .. n : out[i] \in Nat
  BY <1>2, <1>3, ElementOfSeq
<1>7. QueueRises'
  <2>1. ASSUME NEW i \in 1 .. n + 1
        PROVE  out'[i] <= m
    BY <1>1, <1>2, <1>3, <1>4, <1>5, <1>6 DEF CInv, Numbers, QueueRises
  <2>2. ASSUME NEW i \in 1 .. n + 1, NEW j \in 1 .. n + 1, i < j
        PROVE  out'[i] < out'[j]
    <3>1. i \in 1 .. n /\ out'[i] = out[i] /\ out[i] <= made
      BY <1>3, <1>4, <2>2 DEF CInv, Numbers, QueueRises
    <3>2. CASE j \in 1 .. n
      BY <1>3, <1>4, <2>2, <3>1, <3>2 DEF CInv, Numbers, QueueRises
    <3>3. CASE j = n + 1
      BY <1>1, <1>2, <1>4, <1>6, <3>1, <3>3
    <3> QED
      BY <1>5, <3>2, <3>3
  <2> QED
    BY <1>1, <1>4, <2>1, <2>2 DEF QueueRises
<1>8. WiresRise'
  <2>1. \A c \in Conns : Below(wire[c], made + 1) => Below(wire[c], m + 1)
    BY <1>1, <1>2, BelowMore
  <2> QED
    BY <1>1, <2>1 DEF CInv, Numbers, WiresRise
<1>9. QueueFollows'
  <2> SUFFICES ASSUME NEW k \in 1 .. n + 1, cur \in Conns
               PROVE  Below(wire[cur], out'[k])
    BY <1>1, <1>4 DEF QueueFollows
  <2>1. CASE k \in 1 .. n
    BY <1>3, <1>4, <2>1 DEF CInv, Numbers, QueueFollows
  <2>2. CASE k = n + 1
    BY <1>1, <1>4, <2>2 DEF CInv, Numbers, WiresRise
  <2> QED
    BY <1>5, <2>1, <2>2
<1>10. Fresh'
  BY <1>1 DEF CInv, Numbers, Fresh
<1>11. Ok' = Ok /\ Flight' = Flight /\ Heard' = Heard
  BY <1>1 DEF Ok, Flight, Heard
<1>12. Ch!Send(m)
  BY <1>1, <1>11 DEF Ch!Send
<1> QED
  BY <1>7, <1>8, <1>9, <1>10, <1>12 DEF Numbers, Step, Ch!Next

\* So is a new connection.
LEMMA ChConnect ==
    ASSUME CInv, Connect
    PROVE  Numbers' /\ Step
<1>1. /\ link = "retry" /\ link' = "up" /\ cur' = cur + 1 /\ cur + 1 \in Conns
      /\ cur \in Nat /\ alive' = alive \cup {cur + 1}
      /\ UNCHANGED <<out, made, got, silent, wire, torn>>
  BY LinkAssumption DEF CInv, IInv, TypeOK, Connect, Conns
<1>2. /\ wire[cur + 1] = <<>> /\ cur + 1 \notin torn /\ cur + 1 \notin silent
      /\ cur \notin alive
  <2>1. wire[cur + 1] = <<>> /\ cur + 1 \notin torn
    BY <1>1 DEF CInv, IInv, ConnsFit
  <2> QED
    BY <1>1, <2>1 DEF CInv, Numbers, Fresh
<1>3. QueueRises' /\ WiresRise'
  BY <1>1 DEF CInv, Numbers, QueueRises, WiresRise
<1>4. QueueFollows'
  <2>1. \A n : Below(<<>>, n)
    BY DEF Below
  <2> QED
    BY <1>1, <1>2, <2>1 DEF QueueFollows
<1>5. Fresh'
  <2>1. \A c \in silent : c <= cur => c <= cur + 1
    BY <1>1 DEF CInv, IInv, TypeOK, Conns
  <2> QED
    BY <1>1, <2>1 DEF CInv, Numbers, Fresh
<1>6. Ok' = Ok \cup {cur'} /\ Flight' = Flight /\ Heard' = Heard /\ cur \notin Ok
  BY <1>1, <1>2 DEF Ok, Flight, Heard
<1>7. Ch!Connect
  BY <1>1, <1>6 DEF Ch!Connect
<1> QED
  BY <1>3, <1>4, <1>5, <1>7 DEF Numbers, Step, Ch!Next

\* So is a writer that gives its connection up.
LEMMA ChRetry ==
    ASSUME CInv, ConnectionClosed \/ WriteTimeout
    PROVE  Numbers' /\ Step
<1>1. /\ link = "up" /\ alive' = alive \ {cur}
      /\ UNCHANGED <<out, made, cur, silent, wire, torn, got>>
  BY DEF ConnectionClosed, WriteTimeout, Retry, receiver
<1>2. cur \in Conns
  BY <1>1 DEF CInv, IInv, ConnsFit
<1>3. Numbers'
  BY <1>1 DEF CInv, Numbers, QueueRises, WiresRise, QueueFollows, Fresh
<1>4. Ok' = Ok \ {cur} /\ Heard' = Heard /\ Flight' = Flight
  BY <1>1 DEF Ok, Heard, Flight
<1>5. Flight' = [Flight EXCEPT ![cur] = Flight[cur]]
  BY <1>2, <1>4, FlightFacts
<1> QED
  BY <1>1, <1>2, <1>3, <1>4, <1>5, BreakFacts

\* A reset clears the queue.  The package that tells so is the last one made,
\* so that the queue still follows what is on the way.
LEMMA ChResetSender ==
    ASSUME CInv, NEW m \in Msgs, ResetSender(m)
    PROVE  Numbers' /\ Step
<1>1. /\ m = made + 1 /\ made' = m /\ out' = <<m>>
      /\ torn' = IF w.off > 0 THEN torn \cup {cur} ELSE torn
      /\ UNCHANGED <<cur, link, alive, silent, wire, got>>
  BY DEF ResetSender, receiver, network
<1>2. made \in Nat /\ Msgs \subseteq Nat /\ (w.off > 0 => cur \in Conns)
  <2>1. made \in Nat /\ Msgs \subseteq Nat
    BY LinkAssumption, EndsFacts DEF CInv, IInv, TypeOK
  <2>2. w.off > 0 => cur \in Conns
    BY DEF CInv, IInv, TypeOK, WriterFits, ConnsFit
  <2> QED
    BY <2>1, <2>2
<1>3. Len(out') = 1 /\ out'[1] = m
  BY <1>1
<1>4. QueueRises'
  BY <1>1, <1>2, <1>3 DEF QueueRises
<1>5. WiresRise'
  <2>1. \A c \in Conns : Below(wire[c], made + 1) => Below(wire[c], m + 1)
    BY <1>1, <1>2, BelowMore
  <2> QED
    BY <1>1, <2>1 DEF CInv, Numbers, WiresRise
<1>6. QueueFollows'
  BY <1>1, <1>3 DEF CInv, Numbers, WiresRise, QueueFollows
<1>7. Fresh' /\ Heard' = Heard
  BY <1>1 DEF CInv, Numbers, Fresh, Heard
<1>8. CASE w.off > 0
  <2>1. Ok' = Ok \ {cur}
    BY <1>1, <1>8 DEF Ok
  <2>2. Flight' = [Flight EXCEPT ![cur] = {}]
    BY <1>1, <1>2, <1>8, FlightChanges
  <2>3. Ch!Fail(cur)
    BY <1>1, <1>7, <2>1, <2>2 DEF Ch!Fail
  <2>4. Ch!Reset(m)
    BY <1>1, <1>2, <1>8, <2>3 DEF Ch!Reset
  <2> QED
    BY <1>4, <1>5, <1>6, <1>7, <2>4 DEF Numbers, Step, Ch!Next
<1>9. CASE ~(w.off > 0)
  <2>1. Ok' = Ok /\ Flight' = Flight
    BY <1>1, <1>9 DEF Ok, Flight
  <2>2. Ch!Reset(m)
    BY <1>1, <1>7, <2>1 DEF Ch!Reset
  <2> QED
    BY <1>4, <1>5, <1>6, <1>7, <2>2 DEF Numbers, Step, Ch!Next
<1> QED
  BY <1>8, <1>9

\* A reset of the receiving end in a package tears its connection.
LEMMA ChResetReceiver ==
    ASSUME CInv, NEW c \in Conns, ResetReceiver(c)
    PROVE  Numbers' /\ Step
<1>1. /\ torn' = IF MidPackage(c) THEN torn \cup {c} ELSE torn
      /\ UNCHANGED <<out, made, cur, link, alive, silent, wire, got>>
  BY DEF ResetReceiver, sender, network
<1>2. CASE MidPackage(c)
  <2>1. Numbers'
    BY <1>1 DEF CInv, Numbers, QueueRises, WiresRise, QueueFollows, Fresh
  <2>2. Ok' = Ok \ {c} /\ Heard' = Heard
    BY <1>1, <1>2 DEF Ok, Heard
  <2>3. Flight' = [Flight EXCEPT ![c] = {}]
    BY <1>1, <1>2, FlightChanges
  <2>4. Step
    BY <1>1, <2>2, <2>3, BreakNone
  <2> QED
    BY <2>1, <2>4
<1>3. CASE ~MidPackage(c)
  BY <1>1, <1>3, QuietStep DEF CInv, Numbers, Fresh
<1> QED
  BY <1>2, <1>3

\* Streams that become shorter leave the numbers as they were.
LEMMA ShorterFacts ==
    ASSUME CInv, NEW c \in Conns, NEW t, wire' = [wire EXCEPT ![c] = t],
           Rising(t), \A n : Below(wire[c], n) => Below(t, n),
           UNCHANGED <<out, made, cur>>
    PROVE  /\ QueueRises' /\ WiresRise' /\ QueueFollows'
           /\ wire'[c] = t /\ \A k \in Conns \ {c} : wire'[k] = wire[k]
<1>1. /\ wire'[c] = t /\ \A k \in Conns \ {c} : wire'[k] = wire[k]
  BY DEF CInv, IInv, Types
<1>2. QueueRises'
  BY DEF CInv, Numbers, QueueRises
<1>3. WiresRise'
  <2> SUFFICES ASSUME NEW k \in Conns
               PROVE  Rising(wire'[k]) /\ Below(wire'[k], made + 1)
    BY DEF WiresRise
  <2>1. Rising(wire[k]) /\ Below(wire[k], made + 1)
    BY DEF CInv, Numbers, WiresRise
  <2> QED
    BY <1>1, <2>1
<1>4. QueueFollows'
  <2> SUFFICES ASSUME NEW k \in 1 .. Len(out), cur \in Conns
               PROVE  Below(wire'[cur], out[k])
    BY DEF QueueFollows
  <2>1. Below(wire[cur], out[k])
    BY DEF CInv, Numbers, QueueFollows
  <2> QED
    BY <1>1, <2>1
<1> QED
  BY <1>1, <1>2, <1>3, <1>4

\* The receiving end closes a connection: what is on the way there is lost.
LEMMA ChStopReader ==
    ASSUME CInv, NEW c \in Conns, WrongTag(c) \/ ReadError(c) \/ ReadTimeout(c)
    PROVE  Numbers' /\ Step
<1>1. /\ alive' = alive \ {c} /\ wire' = [wire EXCEPT ![c] = <<>>]
      /\ UNCHANGED <<out, made, cur, link, silent, torn, got>>
  BY DEF WrongTag, ReadError, ReadTimeout, StopReader, sender
<1>2. Rising(<<>>) /\ \A n : Below(<<>>, n)
  BY DEF Rising, Below
<1>3. /\ QueueRises' /\ WiresRise' /\ QueueFollows'
      /\ wire'[c] = <<>> /\ \A k \in Conns \ {c} : wire'[k] = wire[k]
  BY <1>1, <1>2, ShorterFacts
<1>4. Fresh' /\ Ok' = Ok \ {c} /\ Heard' = Heard
  BY <1>1 DEF CInv, Numbers, Fresh, Ok, Heard
<1>5. OnWay(<<>>) = {}
  BY DEF OnWay
<1>6. Flight' = [Flight EXCEPT ![c] = {}]
  BY <1>1, <1>3, <1>5, FlightChanges
<1>7. Step
  BY <1>1, <1>4, <1>6, BreakNone
<1> QED
  BY <1>3, <1>4, <1>7 DEF Numbers

\* A connection that breaks or goes silent loses the last packages on it.
LEMMA ChCut ==
    ASSUME CInv, NEW c \in Conns, Broken(c) \/ Silenced(c)
    PROVE  Numbers' /\ Step
<1>1. PICK n \in 0 .. Len(wire[c]) :
         /\ wire' = [wire EXCEPT ![c] = SubSeq(wire[c], 1, n)]
         /\ \/ alive' = alive \ {c} /\ silent' = silent
            \/ c \in alive /\ alive' = alive /\ silent' = silent \cup {c}
  <2>1. CASE Broken(c)
    <3>1. PICK n \in 0 .. Len(wire[c]) : Lose(c, n)
      BY <2>1 DEF Broken
    <3> QED
      BY <2>1, <3>1 DEF Broken, Lose
  <2>2. CASE Silenced(c)
    <3>1. PICK n \in 0 .. Len(wire[c]) : Lose(c, n)
      BY <2>2 DEF Silenced
    <3> QED
      BY <2>2, <3>1 DEF Silenced, Lose, Sound
  <2> QED
    BY <2>1, <2>2
<1>2. UNCHANGED <<out, made, cur, link, torn, got>>
  BY DEF Broken, Silenced, sender, receiver
<1>3. PICK t : t = SubSeq(wire[c], 1, n)
  OBVIOUS
<1>4. /\ Rising(t)
      /\ \A k : Below(wire[c], k) => Below(t, k)
      /\ OnWay(t) \subseteq OnWay(wire[c])
      /\ \A m \in OnWay(t) : \A k \in OnWay(wire[c]) : k < m => k \in OnWay(t)
  <2>1. wire[c] \in Seq(AnyPiece) /\ Rising(wire[c])
    BY DEF CInv, IInv, Types, Numbers, WiresRise
  <2> QED
    BY <1>3, <2>1, PrefixOnWay
<1>5. /\ QueueRises' /\ WiresRise' /\ QueueFollows'
      /\ wire'[c] = t /\ \A k \in Conns \ {c} : wire'[k] = wire[k]
  BY <1>1, <1>2, <1>3, <1>4, ShorterFacts
<1>6. Fresh'
  <2>1. c \in alive => c <= cur
    BY DEF CInv, IInv, ConnsFit, TypeOK, Conns
  <2> QED
    BY <1>1, <1>2, <2>1 DEF CInv, Numbers, Fresh
<1>7. Ok' = Ok \ {c} /\ Heard' = Heard
  BY <1>1, <1>2 DEF Ok, Heard
<1>8. PICK S : S = IF c \in torn THEN {} ELSE OnWay(t)
  OBVIOUS
<1>9. Flight' = [Flight EXCEPT ![c] = S]
  BY <1>2, <1>5, <1>8, FlightChanges
<1>10. S \in SUBSET Flight[c] /\ \A m \in S : \A k \in Flight[c] : k < m => k \in S
  BY <1>4, <1>8, FlightFacts
<1> QED
  BY <1>2, <1>5, <1>6, <1>7, <1>9, <1>10, BreakFacts DEF Numbers

\* The reader takes a piece that ends no package, and reports nothing.
LEMMA TakeQuietly ==
    ASSUME CInv, NEW c \in Conns, Take(c), c \notin torn => ~Ends(Head(wire[c])),
           UNCHANGED <<out, made, cur, link, alive, silent, torn, got>>
    PROVE  Numbers' /\ Step
<1>1. /\ wire[c] # <<>> /\ wire' = [wire EXCEPT ![c] = Tail(wire[c])]
      /\ wire[c] \in Seq(AnyPiece) /\ Rising(wire[c])
  BY DEF Take, CInv, IInv, Types, Numbers, WiresRise
<1>2. PICK t : t = Tail(wire[c])
  OBVIOUS
<1>3. /\ Rising(t)
      /\ \A n : Below(wire[c], n) => Below(t, n)
      /\ ~Ends(Head(wire[c])) => OnWay(t) = OnWay(wire[c])
  BY <1>1, <1>2, TailFacts
<1>4. /\ QueueRises' /\ WiresRise' /\ QueueFollows'
      /\ wire'[c] = t /\ \A k \in Conns \ {c} : wire'[k] = wire[k]
  BY <1>1, <1>2, <1>3, ShorterFacts
<1>5. Fresh' /\ Ok' = Ok /\ Heard' = Heard
  BY DEF CInv, Numbers, Fresh, Ok, Heard
<1>6. Flight' = Flight
  <2>1. ASSUME NEW k \in Conns
        PROVE  (IF k \in torn' THEN {} ELSE OnWay(wire'[k])) =
               (IF k \in torn THEN {} ELSE OnWay(wire[k]))
    BY <1>3, <1>4
  <2> QED
    BY <2>1 DEF Flight
<1>7. Step
  BY <1>5, <1>6 DEF Step, Ch!chVars
<1> QED
  BY <1>4, <1>5, <1>7 DEF Numbers

\* A reader that takes a header is at most a step of the channel.
LEMMA ChReadHeader ==
    ASSUME CInv, NEW c \in Conns, ReadHeader(c)
    PROVE  Numbers' /\ Step
<1>1. /\ Take(c) /\ wire[c] # <<>> /\ Head(wire[c]).part = "header"
      /\ UNCHANGED <<out, made, cur, link, alive, silent, torn, got>>
  BY DEF ReadHeader, Take, sender
<1>2. PICK p \in AnyPiece : p = Head(wire[c])
  BY <1>1, HeadFacts DEF CInv
<1>3. p = Piece(p.m, "header") /\ p.m \in Msgs \cup {Heartbeat}
  BY <1>1, <1>2 DEF AnyPiece, Piece
<1>4. ~Ends(p)
  BY <1>3, EndsFacts
<1> QED
  BY <1>1, <1>2, <1>4, TakeQuietly

\* What is reported is heard.
LEMMA HeardFacts ==
    ASSUME IInv, NEW c \in Conns, NEW buf \in Seq(AnyPiece), Report(c, buf),
           NEW m, m = IF c \in torn THEN 0 ELSE buf[1].m,
           c \notin torn => m \in Msgs
    PROVE  Heard' = Append(Heard, [conn |-> c, msg |-> m])
<1> DEFINE G == [conn : Conns, buf : Seq(AnyPiece), torn : BOOLEAN]
<1>1. PICK g : g = [conn |-> c, buf |-> buf, torn |-> c \in torn]
  OBVIOUS
<1>2. got \in Seq(G) /\ g \in G /\ got' = Append(got, g)
  BY <1>1 DEF IInv, Types, Report
<1>3. PICK r : r = [conn |-> c, msg |-> m]
  OBVIOUS
<1>4. Reported(g) = r
  <2>1. g.conn = c /\ g.buf = buf /\ g.torn = (c \in torn)
    BY <1>1
  <2>2. (IF g.torn THEN 0 ELSE g.buf[1].m) = m
    BY <2>1
  <2> QED
    BY <1>3, <2>1, <2>2 DEF Reported
<1>5. PICK n \in Nat : n = Len(got)
  BY <1>2
<1> HIDE DEF G
<1>6. /\ Len(got') = n + 1 /\ got'[n + 1] = g
      /\ \A i \in 1 .. n : got'[i] = got[i]
  BY <1>2, <1>5, AppendProperties
<1>7. PICK A : A = {Reported(got[i]) : i \in 1 .. n} \cup {r}
  OBVIOUS
<1>8. /\ Heard \in Seq(A) /\ Len(Heard) = n
      /\ \A i \in 1 .. n : Heard[i] = Reported(got[i])
  BY <1>5, <1>7 DEF Heard
<1>9. /\ Heard' \in Seq(A) /\ Len(Heard') = n + 1
      /\ \A i \in 1 .. n + 1 : Heard'[i] = Reported(got'[i])
  <2>1. Heard' = [i \in 1 .. n + 1 |-> Reported(got'[i])]
    BY <1>6 DEF Heard
  <2>2. \A i \in 1 .. n + 1 : Reported(got'[i]) \in A
    <3> SUFFICES ASSUME NEW i \in 1 .. n + 1
                 PROVE  Reported(got'[i]) \in A
      OBVIOUS
    <3>1. CASE i \in 1 .. n
      BY <1>6, <1>7, <3>1
    <3>2. CASE i = n + 1
      BY <1>4, <1>6, <1>7, <3>2
    <3> QED
      BY <3>1, <3>2
  <2> QED
    BY <2>1, <2>2
<1>10. PICK h : h = Append(Heard, r)
  OBVIOUS
<1>11. /\ h \in Seq(A) /\ Len(h) = n + 1 /\ h[n + 1] = r
       /\ \A i \in 1 .. n : h[i] = Heard[i]
  <2>1. r \in A
    BY <1>7
  <2> QED
    BY <1>8, <1>10, <2>1, AppendProperties
<1>12. ASSUME NEW i \in 1 .. n + 1
       PROVE  Heard'[i] = h[i]
  <2>1. Heard'[i] = Reported(got'[i])
    BY <1>9
  <2>2. CASE i \in 1 .. n
    BY <1>6, <1>8, <1>11, <2>1, <2>2
  <2>3. CASE i = n + 1
    BY <1>4, <1>6, <1>11, <2>1, <2>3
  <2> QED
    BY <2>2, <2>3
<1>13. Heard' = h
  BY <1>9, <1>11, <1>12, SeqEqual
<1> QED
  BY <1>3, <1>10, <1>13

\* The reader takes the last piece of a package and reports it; a torn
\* connection reports what is no package.
LEMMA TakeAndReport ==
    ASSUME CInv, NEW c \in Conns, NEW buf \in Seq(AnyPiece), Take(c), Report(c, buf),
           NEW m, c \notin torn => /\ m \in Msgs /\ Head(wire[c]) = Last(Pieces(m))
                                   /\ buf[1].m = m,
           UNCHANGED <<out, made, cur, link, alive, silent, torn>>
    PROVE  Numbers' /\ Step
<1>1. /\ wire[c] # <<>> /\ wire' = [wire EXCEPT ![c] = Tail(wire[c])]
      /\ wire[c] \in Seq(AnyPiece) /\ Rising(wire[c])
  BY DEF Take, CInv, IInv, Types, Numbers, WiresRise
<1>2. PICK t : t = Tail(wire[c])
  OBVIOUS
<1>3. /\ Rising(t)
      /\ \A n : Below(wire[c], n) => Below(t, n)
      /\ Ends(Head(wire[c])) /\ Rising(wire[c]) =>
            /\ Head(wire[c]).m \in OnWay(wire[c])
            /\ \A k \in OnWay(wire[c]) : Head(wire[c]).m <= k
            /\ OnWay(t) = OnWay(wire[c]) \ {Head(wire[c]).m}
  BY <1>1, <1>2, TailFacts
<1>4. /\ QueueRises' /\ WiresRise' /\ QueueFollows'
      /\ wire'[c] = t /\ \A k \in Conns \ {c} : wire'[k] = wire[k]
  BY <1>1, <1>2, <1>3, ShorterFacts
<1>5. Fresh' /\ Ok' = Ok
  BY DEF CInv, Numbers, Fresh, Ok
<1>6. CASE c \in torn
  <2>1. Heard' = Append(Heard, [conn |-> c, msg |-> 0])
    <3>1. PICK z : z = 0
      OBVIOUS
    <3>2. z = IF c \in torn THEN 0 ELSE buf[1].m
      BY <1>6, <3>1
    <3>3. Heard' = Append(Heard, [conn |-> c, msg |-> z])
      BY <1>6, <3>2, HeardFacts DEF CInv
    <3> QED
      BY <3>1, <3>3
  <2>2. Flight' = Flight
    <3>1. ASSUME NEW k \in Conns
          PROVE  (IF k \in torn' THEN {} ELSE OnWay(wire'[k])) =
                 (IF k \in torn THEN {} ELSE OnWay(wire[k]))
      BY <1>4, <1>6
    <3> QED
      BY <3>1 DEF Flight
  <2>3. Ch!Garble(c)
    BY <1>5, <1>6, <2>1, <2>2 DEF Ch!Garble, Ch!NoPackage, Ok
  <2> QED
    BY <1>4, <1>5, <2>3 DEF Numbers, Step, Ch!Next
<1>7. CASE c \notin torn
  <2>1. Ends(Head(wire[c])) /\ Head(wire[c]).m = m /\ m \in Msgs
    BY <1>7, EndsFacts
  <2>2. Heard' = Append(Heard, [conn |-> c, msg |-> m])
    BY <1>7, HeardFacts DEF CInv
  <2>3. /\ m \in Flight[c] /\ \A k \in Flight[c] : m <= k
    BY <1>1, <1>3, <1>7, <2>1, FlightFacts
  <2>4. Flight' = [Flight EXCEPT ![c] = Flight[c] \ {m}]
    <3>1. PICK S : S = Flight[c] \ {m}
      OBVIOUS
    <3>2. S = IF c \in torn' THEN {} ELSE OnWay(wire'[c])
      BY <1>1, <1>3, <1>4, <1>7, <2>1, <3>1, FlightFacts
    <3>3. Flight' = [Flight EXCEPT ![c] = S]
      BY <1>4, <3>2, FlightChanges
    <3> QED
      BY <3>1, <3>3
  <2>5. Ch!Deliver(c, m)
    BY <1>5, <2>2, <2>3, <2>4 DEF Ch!Deliver
  <2>6. Step
    BY <2>1, <2>5 DEF Step, Ch!Next
  <2> QED
    BY <1>4, <1>5, <2>6 DEF Numbers
<1> QED
  BY <1>6, <1>7

\* In the middle of a package the reader has its header and takes the piece
\* that follows.
LEMMA MidFacts ==
    ASSUME IInv, NEW c \in Conns, MidPackage(c), wire[c] # <<>>,
           NEW m, m = rd[c].header, NEW buf, buf = Append(rd[c].buf, Head(wire[c]))
    PROVE  /\ buf \in Seq(AnyPiece)
           /\ c \notin torn =>
                /\ m \in Msgs /\ buf[1].m = m
                /\ rd[c].step = "header_data" => Head(wire[c]) = Piece(m, "header_data")
                /\ rd[c].step = "data" => m \notin Bare /\ Head(wire[c]) = Piece(m, "data")
<1>1. PICK p \in AnyPiece : p = Head(wire[c])
  BY HeadFacts
<1>2. PICK b \in Seq(AnyPiece) : b = rd[c].buf
  BY DEF IInv, Types, ReaderState
<1>3. /\ buf \in Seq(AnyPiece)
      /\ b # <<>> => buf[1] = b[1]
  <2>1. buf = Append(b, p) /\ buf \in Seq(AnyPiece)
    BY <1>1, <1>2
  <2>2. \A i \in 1 .. Len(b) : buf[i] = b[i]
    BY <2>1, AppendProperties
  <2>3. b # <<>> => 1 \in 1 .. Len(b)
    BY EmptySeq
  <2> QED
    BY <2>1, <2>2, <2>3
<1>4. ASSUME c \notin torn
      PROVE  /\ m \in Msgs /\ b # <<>> /\ b[1] = Piece(m, "header")
             /\ rd[c].step = "header_data" => p = Piece(m, "header_data")
             /\ rd[c].step = "data" => m \notin Bare /\ p = Piece(m, "data")
  <2>1. ReadSoFar(rd[c]) /\ Comes(Place(rd[c]), p)
    BY <1>1, <1>4, HeadFacts DEF IInv, ReadersFit
  <2>2. CASE rd[c].step = "header_data"
    <3>1. Place(rd[c]) = <<m, 1>> /\ Place(rd[c]) # Boundary
      BY <2>2 DEF Place, Boundary
    <3>2. m \in Msgs /\ b = <<Piece(m, "header")>>
      BY <1>2, <2>1, <2>2 DEF ReadSoFar
    <3>3. p = Piece(m, "header_data")
      BY <2>1, <3>1 DEF Comes
    <3> QED
      BY <2>2, <3>2, <3>3
  <2>3. CASE rd[c].step = "data"
    <3>1. Place(rd[c]) = <<m, 2>> /\ Place(rd[c]) # Boundary
      BY <2>3 DEF Place, Boundary
    <3>2. m \in Msgs \ Bare /\ b = <<Piece(m, "header"), Piece(m, "header_data")>>
      BY <1>2, <2>1, <2>3 DEF ReadSoFar
    <3>3. p = Piece(m, "data")
      BY <2>1, <3>1 DEF Comes
    <3> QED
      BY <2>3, <3>2, <3>3
  <2> QED
    BY <2>2, <2>3 DEF MidPackage
<1>5. c \notin torn => buf[1].m = m
  <2>1. m \in Msgs => Piece(m, "header").m = m
    BY AfterFacts
  <2> QED
    BY <1>3, <1>4, <2>1
<1> QED
  BY <1>1, <1>3, <1>4, <1>5

\* So is one that takes the header data.
LEMMA ChReadHeaderData ==
    ASSUME CInv, NEW c \in Conns, ReadHeaderData(c)
    PROVE  Numbers' /\ Step
<1>1. PICK m, buf : m = rd[c].header /\ buf = Append(rd[c].buf, Head(wire[c]))
  OBVIOUS
<1>2. /\ Take(c) /\ wire[c] # <<>> /\ MidPackage(c) /\ rd[c].step = "header_data"
      /\ m \in Bare => Report(c, buf)
      /\ m \notin Bare => UNCHANGED got
      /\ UNCHANGED <<out, made, cur, link, alive, silent, torn>>
  BY <1>1 DEF ReadHeaderData, Take, MidPackage, sender
<1>3. /\ buf \in Seq(AnyPiece)
      /\ c \notin torn => /\ m \in Msgs /\ buf[1].m = m
                          /\ Head(wire[c]) = Piece(m, "header_data")
  BY <1>1, <1>2, MidFacts DEF CInv
<1>4. CASE m \in Bare
  <2>1. c \notin torn => Head(wire[c]) = Last(Pieces(m))
    BY <1>3, <1>4, EndsFacts
  <2> QED
    BY <1>2, <1>3, <1>4, <2>1, TakeAndReport
<1>5. CASE m \notin Bare
  <2>1. c \notin torn => ~Ends(Head(wire[c]))
    BY <1>3, <1>5, EndsFacts
  <2> QED
    BY <1>2, <1>5, <2>1, TakeQuietly
<1> QED
  BY <1>4, <1>5

\* So is one that takes the data.
LEMMA ChReadData ==
    ASSUME CInv, NEW c \in Conns, ReadData(c)
    PROVE  Numbers' /\ Step
<1>1. PICK m, buf : m = rd[c].header /\ buf = Append(rd[c].buf, Head(wire[c]))
  OBVIOUS
<1>2. /\ Take(c) /\ wire[c] # <<>> /\ MidPackage(c) /\ rd[c].step = "data" /\ Report(c, buf)
      /\ UNCHANGED <<out, made, cur, link, alive, silent, torn>>
  BY <1>1 DEF ReadData, Take, MidPackage, sender
<1>3. /\ buf \in Seq(AnyPiece)
      /\ c \notin torn => /\ m \in Msgs /\ buf[1].m = m
                          /\ m \notin Bare /\ Head(wire[c]) = Piece(m, "data")
  BY <1>1, <1>2, MidFacts DEF CInv
<1>4. c \notin torn => Head(wire[c]) = Last(Pieces(m))
  BY <1>3, EndsFacts
<1> QED
  BY <1>2, <1>3, <1>4, TakeAndReport

\* The writer goes on with a package, or ends it: then the package leaves the
\* queue and is on the way, unless the connection has failed.
LEMMA ChWrite ==
    ASSUME CInv, Write
    PROVE  Numbers' /\ Step
<1>1. PICK end \in Nat :
        /\ w.off < end /\ end <= Len(Pieces(w.m))
        /\ wire' = IF Sound(cur)
                   THEN [wire EXCEPT ![cur] = @ \o SubSeq(Pieces(w.m), w.off + 1, end)]
                   ELSE wire
        /\ IF end = Len(Pieces(w.m)) THEN SendOk ELSE UNCHANGED out
  <2>1. PICK n \in 1 .. Len(Pieces(w.m)) - w.off :
          /\ wire' = IF Sound(cur)
                     THEN [wire EXCEPT ![cur] = @ \o SubSeq(Pieces(w.m), w.off + 1, w.off + n)]
                     ELSE wire
          /\ IF w.off + n = Len(Pieces(w.m)) THEN SendOk ELSE UNCHANGED out
    BY DEF Write
  <2>2. w.off + n \in Nat /\ w.off < w.off + n /\ w.off + n <= Len(Pieces(w.m))
    <3>1. w.off \in Nat /\ w.m \in Msgs \cup {Heartbeat}
      BY DEF CInv, IInv, TypeOK, Types
    <3>2. PICK k \in Nat : k = Len(Pieces(w.m))
      BY <3>1, PiecesFacts
    <3> QED
      BY <3>1, <3>2
  <2> QED
    BY <2>1, <2>2, Zenon
<1>2. /\ link = "up" /\ w.step \in {"write_package", "write_heartbeat"}
      /\ UNCHANGED <<made, cur, link, got, alive, silent, torn>>
  BY DEF Write, Writing, receiver
<1>3. /\ w.m \in Msgs \cup {Heartbeat} /\ w.off \in Nat /\ cur \in Conns
      /\ out \in Seq(Msgs) /\ made \in Nat /\ Msgs \subseteq Nat /\ Heartbeat \notin Msgs
      /\ wire \in [Conns -> Seq(AnyPiece)]
      /\ w.step = "write_package" => out # <<>> /\ w.m = Head(out)
      /\ w.step = "write_heartbeat" => w.m = Heartbeat
  BY <1>2, LinkAssumption, EndsFacts
     DEF CInv, IInv, TypeOK, ConnsFit, Types, WriterFits
<1>4. PICK m \in Msgs \cup {Heartbeat} : m = w.m
  BY <1>3
<1>5. PICK off \in Nat : off = w.off
  BY <1>3
<1>6. PICK l \in 1 .. 3 : l = Len(Pieces(m))
  BY PiecesFacts
<1>7. made + 1 \in Nat /\ \A i \in 1 .. Len(out) : out[i] \in Nat
  <2>1. out \in Seq(Msgs) /\ Msgs \subseteq Nat /\ made \in Nat
    BY <1>3
  <2>2. ASSUME NEW i \in 1 .. Len(out)
        PROVE  out[i] \in Nat
    <3>1. out[i] \in Msgs
      BY <2>1
    <3> QED
      BY <2>1, <3>1
  <2>3. made + 1 \in Nat
    BY <2>1
  <2> QED
    BY <2>2, <2>3
<1>8. off < end /\ end <= l
  BY <1>1, <1>4, <1>5, <1>6
<1>9. PICK first \in Nat : first = off + 1
  OBVIOUS
<1>10. PICK s : s = wire[cur] /\ s \in Seq(AnyPiece)
  BY <1>3
<1>11. PICK u : u = s \o SubSeq(Pieces(m), first, end)
  OBVIOUS
<1>12. /\ ~Sound(cur) => wire' = wire
       /\ Sound(cur) => /\ wire'[cur] = u
                        /\ \A c \in Conns \ {cur} : wire'[c] = wire[c]
  <2>1. Sound(cur) => wire' = [wire EXCEPT ![cur] = u]
    BY <1>1, <1>4, <1>5, <1>9, <1>10, <1>11
  <2> QED
    BY <1>1, <1>3, <2>1
<1>13. /\ end < l \/ m = Heartbeat => Kept(s, u)
       /\ end = l /\ m # Heartbeat => Gained(s, u, m)
  <2>1. 0 < first /\ first <= end /\ end <= Len(Pieces(m))
    BY <1>6, <1>8, <1>9
  <2>2. /\ end < Len(Pieces(m)) \/ m = Heartbeat =>
             Kept(s, s \o SubSeq(Pieces(m), first, end))
        /\ end = Len(Pieces(m)) /\ m # Heartbeat =>
             Gained(s, s \o SubSeq(Pieces(m), first, end), m)
    BY <1>10, <2>1, ChunkOnWay
  <2> QED
    BY <1>6, <1>11, <2>2
<1>14. /\ end = l /\ m # Heartbeat => out # <<>> /\ m = Head(out) /\ out' = Tail(out)
       /\ ~(end = l /\ m # Heartbeat) => out' = out
  <2>1. m # Heartbeat <=> w.step = "write_package"
    BY <1>2, <1>3, <1>4
  <2>2. end = l <=> end = Len(Pieces(w.m))
    BY <1>4, <1>6
  <2> QED
    BY <1>1, <1>2, <1>3, <1>4, <2>1, <2>2 DEF SendOk
<1>15. /\ QueueRises /\ QueueFollows /\ WiresRise /\ Fresh
       /\ Rising(s) /\ Below(s, made + 1)
  BY <1>3, <1>10 DEF CInv, Numbers, WiresRise
<1>16. Fresh' /\ Ok' = Ok /\ Heard' = Heard
  BY <1>2, <1>15 DEF Fresh, Ok, Heard
<1>17. CASE ~(end = l /\ m # Heartbeat)
  <2>1. end < l \/ m = Heartbeat
    BY <1>6, <1>8, <1>17
  <2>2. out' = out /\ OnWay(u) = OnWay(s) /\ Rising(u) /\ \A k \in Nat : Below(s, k) => Below(u, k)
    BY <1>13, <1>14, <1>15, <1>17, <2>1 DEF Kept
  <2>3. QueueRises'
    BY <1>2, <1>15, <2>2 DEF QueueRises
  <2>4. \A c \in Conns : /\ Rising(wire[c]) => Rising(wire'[c])
                         /\ \A k \in Nat : Below(wire[c], k) => Below(wire'[c], k)
                         /\ OnWay(wire'[c]) = OnWay(wire[c])
    BY <1>10, <1>12, <2>2
  <2>5. WiresRise' /\ QueueFollows'
    <3>1. WiresRise'
      BY <1>2, <1>7, <1>15, <2>4 DEF WiresRise
    <3>2. QueueFollows'
      BY <1>2, <1>7, <1>15, <2>2, <2>4 DEF QueueFollows
    <3> QED
      BY <3>1, <3>2
  <2>6. Flight' = Flight
    BY <1>2, <2>4 DEF Flight
  <2>7. Step
    BY <1>2, <1>16, <2>2, <2>6 DEF Step, Ch!chVars
  <2> QED
    BY <1>16, <2>3, <2>5, <2>7 DEF Numbers
<1>18. CASE end = l /\ m # Heartbeat
  <2>1. PICK q \in Nat \ {0} : q = Len(out)
    BY <1>3, <1>14, <1>18, EmptySeq
  <2>2. /\ out # <<>> /\ m = out[1] /\ out' = Tail(out) /\ m = Head(out) /\ m \in Nat
        /\ Len(out') = q - 1 /\ \A i \in 1 .. q - 1 : out'[i] = out[i + 1]
    <3>1. out # <<>> /\ m = Head(out) /\ out' = Tail(out) /\ m \in Nat
      BY <1>3, <1>14, <1>18
    <3>2. Len(out') = q - 1 /\ \A i \in 1 .. q - 1 : out'[i] = out[i + 1]
      BY <1>3, <2>1, <3>1, HeadTailProperties
    <3>3. Head(out) = out[1]
      BY <3>1
    <3> QED
      BY <3>1, <3>2, <3>3
  <2>3. \A i \in 1 .. q - 1 : i + 1 \in 1 .. q /\ 1 < i + 1
    BY <2>1
  <2>4. /\ Below(s, m) /\ m <= made
        /\ \A i \in 1 .. q - 1 : m < out'[i] /\ out'[i] <= made
    <3>1. 1 \in 1 .. q
      BY <2>1
    <3>2. Below(s, m) /\ m <= made
      BY <1>3, <1>10, <1>15, <2>1, <2>2, <3>1 DEF QueueFollows, QueueRises
    <3> QED
      BY <1>15, <2>1, <2>2, <2>3, <3>1, <3>2 DEF QueueRises
  <2>5. /\ OnWay(u) = OnWay(s) \cup {m} /\ Rising(u)
        /\ \A k \in Nat : Below(s, k) /\ m < k => Below(u, k)
    BY <1>13, <1>15, <1>18, <2>4 DEF Gained
  <2>6. QueueRises'
    <3>1. ASSUME NEW i \in 1 .. q - 1, NEW j \in 1 .. q - 1, i < j
          PROVE  out'[i] < out'[j]
      <4>1. i + 1 < j + 1 /\ out'[i] = out[i + 1] /\ out'[j] = out[j + 1]
        BY <2>2, <3>1
      <4> QED
        BY <1>15, <2>1, <2>3, <4>1 DEF QueueRises
    <3> QED
      BY <1>2, <2>2, <2>4, <3>1 DEF QueueRises
  <2>7. WiresRise'
    <3>1. m < made + 1 /\ made + 1 \in Nat
      BY <1>3, <2>2, <2>4
    <3>2. Rising(u) /\ Below(u, made + 1)
      BY <1>15, <2>5, <3>1
    <3> SUFFICES ASSUME NEW c \in Conns
                 PROVE  Rising(wire'[c]) /\ Below(wire'[c], made + 1)
      BY <1>2 DEF WiresRise
    <3>3. Rising(wire[c]) /\ Below(wire[c], made + 1)
      BY <1>15 DEF WiresRise
    <3> QED
      BY <1>12, <3>2, <3>3
  <2>8. QueueFollows'
    <3> SUFFICES ASSUME NEW i \in 1 .. q - 1
                 PROVE  Below(wire'[cur], out'[i])
      BY <1>2, <2>2 DEF QueueFollows
    <3>1. Below(s, out'[i])
      BY <1>3, <1>10, <1>15, <2>1, <2>2, <2>3 DEF QueueFollows
    <3>2. Below(u, out'[i])
      <4>1. out'[i] \in Nat
        <5>1. PICK j \in 1 .. q : j = i + 1
          BY <2>3
        <5>2. out[j] \in Nat
          BY <1>7, <2>1
        <5> QED
          BY <2>2, <5>1, <5>2
      <4> QED
        BY <2>4, <2>5, <3>1, <4>1
    <3> QED
      BY <1>10, <1>12, <3>1, <3>2
  <2>9. CASE cur \in Ok
    <3>1. Sound(cur) /\ cur \notin torn
      BY <2>9 DEF Ok, Sound
    <3>2. Flight[cur] = OnWay(s) /\ m \notin OnWay(s)
      <4>1. \A i \in 1 .. Len(s) : Ends(s[i]) => s[i].m # m
        BY <2>2, <2>4 DEF Below
      <4>2. m \notin OnWay(s)
        BY <1>10, <4>1, OnWayFacts
      <4>3. Flight[cur] = OnWay(s)
        BY <1>3, <1>10, <3>1, FlightFacts
      <4> QED
        BY <4>2, <4>3
    <3>3. PICK S : S = Flight[cur] \cup {m}
      OBVIOUS
    <3>4. Flight' = [Flight EXCEPT ![cur] = S]
      <4>1. S = IF cur \in torn' THEN {} ELSE OnWay(wire'[cur])
        BY <1>2, <1>12, <2>5, <3>1, <3>2, <3>3
      <4> QED
        BY <1>2, <1>3, <1>12, <3>1, <4>1, FlightChanges
    <3>5. Ch!Transmit
      BY <1>2, <1>16, <2>2, <2>9, <3>2, <3>3, <3>4 DEF Ch!Transmit
    <3>6. Step
      BY <3>5 DEF Step, Ch!Next
    <3> QED
      BY <1>16, <2>6, <2>7, <2>8, <3>6 DEF Numbers
  <2>10. CASE cur \notin Ok
    <3>1. ~Sound(cur) \/ cur \in torn
      BY <2>10 DEF Ok, Sound
    <3>2. Flight' = Flight
      <4>1. ASSUME NEW c \in Conns
            PROVE  (IF c \in torn' THEN {} ELSE OnWay(wire'[c])) =
                   (IF c \in torn THEN {} ELSE OnWay(wire[c]))
        BY <1>2, <1>12, <3>1
      <4> QED
        BY <4>1 DEF Flight
    <3>3. Ch!Waste
      BY <1>2, <1>3, <1>16, <2>2, <2>10, <3>2 DEF Ch!Waste
    <3>4. Step
      BY <3>3 DEF Step, Ch!Next
    <3> QED
      BY <1>16, <2>6, <2>7, <2>8, <3>4 DEF Numbers
  <2> QED
    BY <2>9, <2>10
<1> QED
  BY <1>17, <1>18
-----------------------------------------------------------------------------
\* At first the numbers are in order and the channel is in its initial state.
LEMMA ChInit == Init => Numbers /\ Ch!Init
<1> SUFFICES ASSUME Init
             PROVE  Numbers /\ Ch!Init
  OBVIOUS
<1>1. /\ out = <<>> /\ made = 0 /\ cur = 0 /\ link = "retry"
      /\ alive = {} /\ silent = {} /\ got = <<>> /\ torn = {}
      /\ \A c \in Conns : wire[c] = <<>>
  BY DEF Init
<1>2. Rising(<<>>) /\ (\A n : Below(<<>>, n)) /\ OnWay(<<>>) = {}
  BY DEF Rising, Below, OnWay
<1>3. Numbers
  <2>1. cur \notin Conns
    BY <1>1, LinkAssumption DEF Conns
  <2> QED
    BY <1>1, <1>2, <2>1 DEF Numbers, QueueRises, WiresRise, QueueFollows, Fresh
<1>4. Ok = {} /\ Heard = <<>>
  <2>1. Ok = {}
    BY <1>1 DEF Ok
  <2>2. Heard = <<>>
    <3>1. Heard = [i \in 1 .. 0 |-> Reported(got[i])]
      BY <1>1 DEF Heard
    <3> QED
      BY <3>1
  <2> QED
    BY <2>1, <2>2
<1>5. Flight = [c \in Conns |-> {}]
  BY <1>1, <1>2 DEF Flight
<1> QED
  BY <1>1, <1>3, <1>4, <1>5 DEF Ch!Init

\* Each step of a link is a step of the channel or none that it shows.
LEMMA ChStep ==
    ASSUME CInv, [Next]_vars
    PROVE  Numbers' /\ Step
<1>1. link # "up" => cur \notin alive
  BY DEF CInv, Numbers, Fresh
<1>2. CASE WriterStep
  <2>1. CASE ExceedMaxRetries \/ PreparePackage \/ PrepareHeartbeat
    <3>1. \/ /\ UNCHANGED <<out, made, cur, alive, silent, torn, wire, got>>
             /\ cur \notin alive
          \/ UNCHANGED <<out, made, cur, link, alive, silent, torn, wire, got>>
      BY <1>1, <2>1
         DEF ExceedMaxRetries, PreparePackage, PrepareHeartbeat, receiver, network
    <3> QED
      BY <1>1, <3>1, QuietStep
  <2> QED
    BY <1>2, <2>1, ChConnect, ChWrite, ChRetry DEF WriterStep
<1>3. CASE Tick \/ SetCanRead \/ UNCHANGED vars
  <2>1. UNCHANGED <<out, made, cur, link, alive, silent, torn, wire, got>>
    BY <1>3 DEF Tick, SetCanRead, vars, sender, receiver, network
  <2> QED
    BY <1>1, <2>1, QuietStep
<1>4. CASE \E m \in Msgs : SendMessage(m) \/ ResetSender(m)
  BY <1>4, ChSendMessage, ChResetSender
<1>5. CASE \E c \in Conns : ReaderStep(c) \/ ResetReceiver(c) \/ Broken(c) \/ Silenced(c)
  <2>1. PICK c \in Conns : ReaderStep(c) \/ ResetReceiver(c) \/ Broken(c) \/ Silenced(c)
    BY <1>5
  <2>2. CASE PrepareReadHeader(c)
    <3>1. UNCHANGED <<out, made, cur, link, alive, silent, torn, wire, got>>
      BY <2>2 DEF PrepareReadHeader, sender, network
    <3> QED
      BY <1>1, <3>1, QuietStep
  <2>3. CASE ReaderStep(c) /\ ~PrepareReadHeader(c)
    BY <2>3, ChReadHeader, ChReadHeaderData, ChReadData, ChStopReader DEF ReaderStep
  <2> QED
    BY <2>1, <2>2, <2>3, ChResetReceiver, ChCut
<1> QED
  BY <1>2, <1>3, <1>4, <1>5 DEF Next

\* The link implements the channel: on each connection packages arrive in
\* order and once, those that are lost are the last ones, and one that was
\* written in part stays at the head of the queue for the next connection
\* (CTaskLinkRpcWriter::Run, CTaskPeerClient::OnPackageSendOk).
THEOREM LinkIsChannel == Spec => Channel
<1>1. Init => CInv /\ Ch!Init
  BY IInvInit, ChInit DEF CInv
<1>2. CInv /\ [Next]_vars => CInv'
  BY IInvInductive, ChStep DEF CInv
<1>3. CInv /\ [Next]_vars => [Ch!Next]_(Ch!chVars)
  BY ChStep DEF Step
<1>4. Spec => []CInv
  BY <1>1, <1>2, PTL DEF Spec
<1> QED
  BY <1>1, <1>3, <1>4, PTL DEF Spec, Channel, Ch!Spec

=============================================================================
