----------------------------- MODULE LinkProofs -----------------------------
(***************************************************************************)
(* Proofs about a link (Link.tla) for every number of packages, connections *)
(* and faults, every capacity of the sockets and every timeout.  The stream  *)
(* of a connection has no frames of its own, so the inductive invariant      *)
(* follows the place in a package across the link: where the reader is,      *)
(* where each piece on the way leaves it, and where the writer goes on.      *)
(***************************************************************************)
EXTENDS Link, SequenceLemmas

AnyPiece == [m : Msgs \cup {Heartbeat}, part : {"header", "header_data", "data"}]

ReaderState ==
    [step : {"none", "prepare", "header", "header_data", "data"},
     header : Msgs \cup {Heartbeat}, buf : Seq(AnyPiece)]

\* A place in the stream: behind piece j of package m, or between two packages.
Boundary == <<0, 0>>
Place(r) ==
    IF r.step = "header_data" THEN <<r.header, 1>>
    ELSE IF r.step = "data" THEN <<r.header, 2>> ELSE Boundary
WriterPlace == IF w.off = 0 THEN Boundary ELSE <<w.m, w.off>>

\* The place behind a piece, and the pieces that may come at a place.
After(p) ==
    IF p.part = "header" /\ p.m # Heartbeat THEN <<p.m, 1>>
    ELSE IF p.part = "header_data" /\ p.m \notin Bare THEN <<p.m, 2>> ELSE Boundary
Comes(pl, p) ==
    IF pl = Boundary THEN p.part = "header"
    ELSE p = Piece(pl[1], IF pl[2] = 1 THEN "header_data" ELSE "data")

\* The pieces s lead from the place pl to EndPlace(pl, s).
Framed(pl, s) ==
    /\ s # <<>> => Comes(pl, s[1])
    /\ \A i \in 1 .. Len(s) - 1 : Comes(After(s[i]), s[i + 1])
EndPlace(pl, s) == IF s = <<>> THEN pl ELSE After(s[Len(s)])

Types ==
    /\ rd \in [Conns -> ReaderState]
    /\ wire \in [Conns -> Seq(AnyPiece)]
    /\ readTime \in [Conns -> 0 .. Timeout]
    /\ got \in Seq([conn : Conns, buf : Seq(AnyPiece), torn : BOOLEAN])

WriterFits ==
    /\ w.step = "prepare" => w.off = 0
    /\ w.step = "write_package" => out # <<>> /\ w.m = Head(out)
    /\ w.step = "write_heartbeat" => w.m = Heartbeat
    /\ w.off < Len(Pieces(w.m))
    /\ link # "up" => w.step = "prepare"

\* A connection to come is as new; one that nobody closed has its reader.
ConnsFit ==
    /\ link = "up" => cur \in Conns
    /\ \A c \in Conns : c > cur => /\ rd[c].step = "none" /\ wire[c] = <<>>
                                  /\ c \notin alive \cup torn
    /\ \A c \in alive : rd[c].step # "none"

\* What a reader has read of a package is the beginning of it.
ReadSoFar(r) ==
    /\ r.step = "header_data" => /\ r.header \in Msgs
                                 /\ r.buf = <<Piece(r.header, "header")>>
    /\ r.step = "data" => /\ r.header \in Msgs \ Bare
                          /\ r.buf = <<Piece(r.header, "header"), Piece(r.header, "header_data")>>

ReadersFit == \A c \in Conns : c \notin torn => ReadSoFar(rd[c])

StreamsFit ==
    \A c \in Conns : c \notin torn =>
        /\ Framed(Place(rd[c]), wire[c])
        /\ link = "up" /\ c = cur /\ Sound(c) => EndPlace(Place(rd[c]), wire[c]) = WriterPlace

\* While the reader waits on an idle connection, the writer's clock for the
\* next heartbeat is not behind the reader's.
ClocksFit ==
    link = "up" /\ Sound(cur) /\ Waiting(cur) /\ wire[cur] = <<>> =>
        /\ readTime[cur] < Timeout
        /\ w.step = "prepare" /\ out = <<>> => readTime[cur] <= hbTime

IInv ==
    /\ TypeOK
    /\ Types
    /\ WriterFits
    /\ ConnsFit
    /\ ReadersFit
    /\ StreamsFit
    /\ ClocksFit
    /\ Intact

----------------------------------------------------------------------------
\* Half the timeout is less than the timeout.
LEMMA HeartbeatTimeFacts ==
    Timeout \in Nat \ {0, 1} /\ HeartbeatTime \in Nat /\ HeartbeatTime < Timeout
BY LinkAssumption DEF HeartbeatTime

\* What follows the pieces of a package, one by one.
LEMMA AfterFacts ==
    ASSUME NEW m \in Msgs \cup {Heartbeat}
    PROVE  /\ \A q \in {"header", "header_data", "data"} :
                Piece(m, q) \in AnyPiece /\ Piece(m, q).part = q /\ Piece(m, q).m = m
           /\ After(Piece(m, "header")) = IF m = Heartbeat THEN Boundary ELSE <<m, 1>>
           /\ After(Piece(m, "header_data")) = IF m \in Bare THEN Boundary ELSE <<m, 2>>
           /\ After(Piece(m, "data")) = Boundary
<1>1. \A q \in {"header", "header_data", "data"} :
                Piece(m, q) \in AnyPiece /\ Piece(m, q).part = q /\ Piece(m, q).m = m
  BY DEF Piece, AnyPiece
<1> QED
  BY <1>1 DEF After

\* The pieces of a package.
LEMMA PiecesFacts ==
    ASSUME NEW m \in Msgs \cup {Heartbeat}
    PROVE  /\ Pieces(m) \in Seq(AnyPiece)
           /\ Len(Pieces(m)) \in 1 .. 3
           /\ Pieces(m)[1] = Piece(m, "header")
           /\ Len(Pieces(m)) > 1 => Pieces(m)[2] = Piece(m, "header_data")
           /\ Len(Pieces(m)) > 2 => Pieces(m)[3] = Piece(m, "data")
           /\ Len(Pieces(m)) = 1 <=> m = Heartbeat
           /\ Len(Pieces(m)) = 2 <=> m # Heartbeat /\ m \in Bare
           /\ Len(Pieces(m)) = 3 <=> m # Heartbeat /\ m \notin Bare
<1> DEFINE h == Piece(m, "header")
           g == Piece(m, "header_data")
           d == Piece(m, "data")
<1>1. h \in AnyPiece /\ g \in AnyPiece /\ d \in AnyPiece
  BY AfterFacts
<1>2. /\ m = Heartbeat => Pieces(m) = <<h>>
      /\ m # Heartbeat /\ m \in Bare => Pieces(m) = <<h, g>>
      /\ m # Heartbeat /\ m \notin Bare => Pieces(m) = <<h, g, d>>
  BY DEF Pieces
<1> HIDE DEF h, g, d
<1>3. /\ m = Heartbeat => Len(Pieces(m)) = 1 /\ Pieces(m)[1] = h
      /\ m # Heartbeat /\ m \in Bare =>
            Len(Pieces(m)) = 2 /\ Pieces(m)[1] = h /\ Pieces(m)[2] = g
      /\ m # Heartbeat /\ m \notin Bare =>
            /\ Len(Pieces(m)) = 3
            /\ Pieces(m)[1] = h /\ Pieces(m)[2] = g /\ Pieces(m)[3] = d
  BY <1>2
<1>4. <<h>> \in Seq(AnyPiece) /\ <<h, g>> \in Seq(AnyPiece) /\ <<h, g, d>> \in Seq(AnyPiece)
  BY <1>1
<1>5. Pieces(m) \in Seq(AnyPiece)
  BY <1>2, <1>4
<1>6. Len(Pieces(m)) \in 1 .. 3
  BY <1>3
<1> QED
  BY <1>3, <1>5, <1>6 DEF h, g, d

\* The place behind each piece of a package, and the one before it.
LEMMA PlacesFacts ==
    ASSUME NEW m \in Msgs \cup {Heartbeat}, NEW i \in 1 .. Len(Pieces(m))
    PROVE  /\ After(Pieces(m)[i]) = IF i = Len(Pieces(m)) THEN Boundary ELSE <<m, i>>
           /\ Comes(IF i = 1 THEN Boundary ELSE <<m, i - 1>>, Pieces(m)[i])
<1>1. \A j \in Nat \ {0} : <<m, j>> # Boundary /\ <<m, j>>[1] = m /\ <<m, j>>[2] = j
  BY DEF Boundary
<1>2. Len(Pieces(m)) \in 1 .. 3 /\ i \in Nat /\ i <= Len(Pieces(m)) /\ (i = 1 \/ i = 2 \/ i = 3)
  <2>1. PICK n \in 1 .. 3 : n = Len(Pieces(m))
    BY PiecesFacts
  <2> QED
    BY <2>1
<1>3. CASE i = 1
  <2>1. Pieces(m)[i] = Piece(m, "header") /\ (m = Heartbeat <=> i = Len(Pieces(m)))
    BY <1>3, PiecesFacts
  <2> QED
    BY <2>1, <1>3, AfterFacts DEF Comes
<1>4. CASE i = 2
  <2>1. Pieces(m)[i] = Piece(m, "header_data") /\ (m \in Bare <=> i = Len(Pieces(m))) /\ i - 1 = 1
    BY <1>2, <1>4, PiecesFacts
  <2> QED
    BY <2>1, <1>1, <1>4, AfterFacts DEF Comes
<1>5. CASE i = 3
  <2>1. Pieces(m)[i] = Piece(m, "data") /\ i = Len(Pieces(m)) /\ i - 1 = 2
    BY <1>2, <1>5, PiecesFacts
  <2> QED
    BY <2>1, <1>1, <1>5, AfterFacts DEF Comes
<1> QED
  BY <1>2, <1>3, <1>4, <1>5

\* The pieces a step of a writer writes.
LEMMA ChunkPieces ==
    ASSUME NEW m \in Msgs \cup {Heartbeat}, NEW off \in Nat, NEW end \in Nat,
           off < end, end <= Len(Pieces(m))
    PROVE  LET t == SubSeq(Pieces(m), off + 1, end)
           IN /\ t \in Seq(AnyPiece)
              /\ Len(t) = end - off
              /\ \A i \in 1 .. end - off : t[i] = Pieces(m)[off + i]
<1> DEFINE s == Pieces(m)
           t == SubSeq(s, off + 1, end)
<1>1. s \in Seq(AnyPiece) /\ Len(s) \in Nat /\ end <= Len(s)
  BY PiecesFacts
<1> HIDE DEF s
<1>2. /\ t \in Seq(AnyPiece) /\ Len(t) = end - off
      /\ \A i \in 1 .. end - off : t[i] = s[off + i]
  <2>1. \A i \in off + 1 .. end : s[i] \in AnyPiece
    <3>1. \A i \in off + 1 .. end : i \in 1 .. Len(s)
      BY <1>1
    <3> QED
      BY <3>1, <1>1, ElementOfSeq
  <2>2. /\ t \in Seq(AnyPiece)
        /\ Len(t) = (IF off + 1 <= end THEN end - (off + 1) + 1 ELSE 0)
        /\ \A i \in 1 .. end - (off + 1) + 1 : t[i] = s[(off + 1) + i - 1]
    BY <2>1, SubSeqProperties
  <2>3. end - (off + 1) + 1 = end - off /\ off + 1 <= end
    OBVIOUS
  <2>4. \A i \in 1 .. end - off : (off + 1) + i - 1 = off + i
    OBVIOUS
  <2> QED
    BY <2>2, <2>3, <2>4
<1> QED
  BY <1>2 DEF s

\* A step of a writer writes pieces that lead from its place to the next.
LEMMA ChunkFacts ==
    ASSUME NEW m \in Msgs \cup {Heartbeat}, NEW off \in Nat, NEW end \in Nat,
           off < end, end <= Len(Pieces(m))
    PROVE  LET t == SubSeq(Pieces(m), off + 1, end)
               pl == IF off = 0 THEN Boundary ELSE <<m, off>>
           IN /\ t \in Seq(AnyPiece)
              /\ Len(t) = end - off
              /\ Framed(pl, t)
              /\ EndPlace(pl, t) = IF end = Len(Pieces(m)) THEN Boundary ELSE <<m, end>>
<1> DEFINE s == Pieces(m)
           t == SubSeq(s, off + 1, end)
           pl == IF off = 0 THEN Boundary ELSE <<m, off>>
<1>1. /\ s \in Seq(AnyPiece) /\ Len(s) \in Nat /\ end <= Len(s)
      /\ \A i \in 1 .. Len(s) :
            /\ After(s[i]) = IF i = Len(s) THEN Boundary ELSE <<m, i>>
            /\ Comes(IF i = 1 THEN Boundary ELSE <<m, i - 1>>, s[i])
  BY PiecesFacts, PlacesFacts
<1> HIDE DEF s
<1>2. /\ t \in Seq(AnyPiece) /\ Len(t) = end - off
      /\ \A i \in 1 .. end - off : t[i] = s[off + i]
  BY ChunkPieces DEF s
<1> HIDE DEF t
<1>4. Comes(pl, t[1])
  <2>1. t[1] = s[off + 1] /\ off + 1 \in 1 .. Len(s) /\ (off + 1) - 1 = off
    BY <1>1, <1>2
  <2>2. Comes(IF off + 1 = 1 THEN Boundary ELSE <<m, (off + 1) - 1>>, t[1])
    BY <2>1, <1>1
  <2> QED
    BY <2>1, <2>2
<1>5. ASSUME NEW i \in 1 .. Len(t) - 1
      PROVE  Comes(After(t[i]), t[i + 1])
  <2>1. /\ t[i] = s[off + i] /\ t[i + 1] = s[off + i + 1]
        /\ off + i \in 1 .. Len(s) /\ off + i + 1 \in 1 .. Len(s)
        /\ off + i # Len(s) /\ off + i + 1 # 1 /\ (off + i + 1) - 1 = off + i
    BY <1>1, <1>2
  <2> QED
    BY <2>1, <1>1
<1>6. EndPlace(pl, t) = IF end = Len(s) THEN Boundary ELSE <<m, end>>
  <2>1. t[Len(t)] = s[end] /\ end \in 1 .. Len(s) /\ t # <<>>
    BY <1>1, <1>2
  <2> QED
    BY <2>1, <1>1 DEF EndPlace
<1> QED
  BY <1>2, <1>4, <1>5, <1>6 DEF Framed, s, t

\* Pieces that are written behind others lead on from where those lead to.
LEMMA FramedConcat ==
    ASSUME NEW pl, NEW s \in Seq(AnyPiece), NEW t \in Seq(AnyPiece), t # <<>>,
           Framed(pl, s), Framed(EndPlace(pl, s), t)
    PROVE  /\ Framed(pl, s \o t)
           /\ EndPlace(pl, s \o t) = EndPlace(EndPlace(pl, s), t)
<1> DEFINE u == s \o t
<1>1. /\ u \in Seq(AnyPiece) /\ Len(u) = Len(s) + Len(t)
      /\ Len(s) \in Nat /\ Len(t) \in Nat \ {0}
      /\ \A i \in 1 .. Len(s) + Len(t) : u[i] = IF i <= Len(s) THEN s[i] ELSE t[i - Len(s)]
      /\ s = <<>> <=> Len(s) = 0
  BY ConcatProperties, EmptySeq
<1> HIDE DEF u
<1>2. u # <<>> /\ EndPlace(pl, u) = After(t[Len(t)])
  BY <1>1 DEF EndPlace
<1>3. Comes(pl, u[1])
  BY <1>1 DEF Framed, EndPlace
<1>4. ASSUME NEW i \in 1 .. Len(u) - 1
      PROVE  Comes(After(u[i]), u[i + 1])
  <2>1. CASE i < Len(s)
    <3>1. i \in 1 .. Len(s) - 1 /\ u[i] = s[i] /\ u[i + 1] = s[i + 1]
      BY <2>1, <1>1
    <3> QED
      BY <3>1 DEF Framed
  <2>2. CASE i = Len(s)
    <3>1. s # <<>> /\ (i + 1) - Len(s) = 1 /\ ~(i + 1 <= Len(s))
      BY <2>2, <1>1
    <3>2. u[i] = s[Len(s)] /\ u[i + 1] = t[1]
      BY <2>2, <3>1, <1>1
    <3>3. EndPlace(pl, s) = After(s[Len(s)])
      BY <3>1 DEF EndPlace
    <3>4. Comes(EndPlace(pl, s), t[1])
      BY DEF Framed
    <3> QED
      BY <3>2, <3>3, <3>4
  <2>3. CASE i > Len(s)
    <3>1. /\ i - Len(s) \in 1 .. Len(t) - 1 /\ (i - Len(s)) + 1 = (i + 1) - Len(s)
          /\ u[i] = t[i - Len(s)] /\ u[i + 1] = t[(i + 1) - Len(s)]
      BY <2>3, <1>1
    <3> QED
      BY <3>1 DEF Framed
  <2> QED
    BY <2>1, <2>2, <2>3, <1>1
<1> QED
  BY <1>2, <1>3, <1>4 DEF Framed, EndPlace, u

\* The reader takes the first piece.
LEMMA FramedTail ==
    ASSUME NEW pl, NEW s \in Seq(AnyPiece), s # <<>>, Framed(pl, s)
    PROVE  /\ Comes(pl, Head(s))
           /\ Framed(After(Head(s)), Tail(s))
           /\ EndPlace(After(Head(s)), Tail(s)) = EndPlace(pl, s)
<1>1. /\ Head(s) = s[1] /\ Tail(s) \in Seq(AnyPiece) /\ Len(s) \in Nat \ {0}
      /\ Len(Tail(s)) = Len(s) - 1
      /\ \A i \in 1 .. Len(s) - 1 : Tail(s)[i] = s[i + 1]
      /\ Tail(s) = <<>> <=> Len(s) = 1
  <2>1. /\ Tail(s) \in Seq(AnyPiece) /\ Len(s) \in Nat \ {0}
        /\ Len(Tail(s)) = Len(s) - 1
        /\ \A i \in 1 .. Len(Tail(s)) : Tail(s)[i] = s[i + 1]
    BY HeadTailProperties, EmptySeq
  <2>2. Tail(s) = <<>> <=> Len(Tail(s)) = 0
    BY <2>1, EmptySeq
  <2>3. Head(s) = s[1]
    OBVIOUS
  <2> QED
    BY <2>1, <2>2, <2>3
<1>2. Comes(pl, Head(s))
  BY <1>1 DEF Framed
<1>3. Tail(s) # <<>> => Comes(After(Head(s)), Tail(s)[1])
  BY <1>1 DEF Framed
<1>4. ASSUME NEW i \in 1 .. Len(Tail(s)) - 1
      PROVE  Comes(After(Tail(s)[i]), Tail(s)[i + 1])
  <2>1. i + 1 \in 1 .. Len(s) - 1 /\ Tail(s)[i] = s[i + 1] /\ Tail(s)[i + 1] = s[(i + 1) + 1]
    BY <1>1
  <2> QED
    BY <2>1 DEF Framed
<1>5. EndPlace(After(Head(s)), Tail(s)) = EndPlace(pl, s)
  BY <1>1 DEF EndPlace
<1> QED
  BY <1>2, <1>3, <1>4, <1>5 DEF Framed

\* A connection that breaks loses the last pieces.
LEMMA FramedPrefix ==
    ASSUME NEW pl, NEW s \in Seq(AnyPiece), Framed(pl, s), NEW n \in 0 .. Len(s)
    PROVE  SubSeq(s, 1, n) \in Seq(AnyPiece) /\ Framed(pl, SubSeq(s, 1, n))
           /\ Len(SubSeq(s, 1, n)) = n
<1> DEFINE t == SubSeq(s, 1, n)
<1>1. /\ t \in Seq(AnyPiece) /\ Len(t) = n /\ Len(s) \in Nat /\ n \in Nat /\ n <= Len(s)
      /\ \A i \in 1 .. n : t[i] = s[i]
      /\ t # <<>> => n # 0
  BY PrefixFacts
<1> HIDE DEF t
<1>2. t # <<>> => s # <<>> /\ Comes(pl, t[1])
  BY <1>1 DEF Framed
<1>3. \A i \in 1 .. Len(t) - 1 : Comes(After(t[i]), t[i + 1])
  BY <1>1 DEF Framed
<1> QED
  BY <1>1, <1>2, <1>3 DEF Framed, t
----------------------------------------------------------------------------
\* What a step leaves that changes neither streams nor readers.
LEMMA QuietFacts ==
    ASSUME IInv,
           UNCHANGED <<cur, alive, silent, wire, rd, got, torn>>,
           link' = "up" => link = "up",
           WriterPlace' = WriterPlace,
           readTime' \in [Conns -> 0 .. Timeout],
           TypeOK', WriterFits', ClocksFit'
    PROVE  IInv'
<1>1. Types'
  BY DEF IInv, Types
<1>2. ConnsFit'
  BY DEF IInv, ConnsFit
<1>3. ReadersFit'
  BY DEF IInv, ReadersFit
<1>4. StreamsFit'
  BY DEF IInv, StreamsFit, Sound
<1>5. Intact'
  BY DEF IInv, Intact
<1> QED
  BY <1>1, <1>2, <1>3, <1>4, <1>5 DEF IInv

\* SendMessage keeps the invariant.
LEMMA SendMessageStep ==
    ASSUME IInv, NEW m \in Msgs, SendMessage(m)
    PROVE  IInv'
<1>1. /\ out \in Seq(Msgs) /\ out' \in Seq(Msgs)
      /\ out' # <<>> /\ (out # <<>> => Head(out') = Head(out))
      /\ made' \in 0 .. MaxMsgs
  BY LinkAssumption DEF IInv, TypeOK, SendMessage, Msgs
<1>2. TypeOK'
  BY <1>1 DEF IInv, TypeOK, SendMessage, receiver, network
<1>3. WriterFits'
  BY <1>1 DEF IInv, WriterFits, SendMessage
<1>4. ClocksFit'
  BY <1>1 DEF IInv, ClocksFit, SendMessage, receiver, network, Sound, Waiting
<1> QED
  BY <1>2, <1>3, <1>4, QuietFacts DEF SendMessage, receiver, network, WriterPlace, IInv, Types

\* SetCanRead keeps the invariant.
LEMMA SetCanReadStep ==
    ASSUME IInv, SetCanRead
    PROVE  IInv'
<1>1. TypeOK'
  BY DEF IInv, TypeOK, SetCanRead, sender, network
<1>2. WriterFits' /\ ClocksFit'
  BY DEF IInv, WriterFits, ClocksFit, SetCanRead, sender, network, Sound, Waiting
<1> QED
  BY <1>1, <1>2, QuietFacts DEF SetCanRead, sender, network, WriterPlace, IInv, Types

\* ExceedMaxRetries keeps the invariant.
LEMMA ExceedStep ==
    ASSUME IInv, ExceedMaxRetries
    PROVE  IInv'
<1>1. TypeOK'
  BY DEF IInv, TypeOK, ExceedMaxRetries, receiver, network
<1>2. WriterFits' /\ ClocksFit'
  BY DEF IInv, WriterFits, ClocksFit, ExceedMaxRetries, receiver, network
<1> QED
  BY <1>1, <1>2, QuietFacts DEF ExceedMaxRetries, receiver, network, WriterPlace, IInv, Types

\* So does a step in which nothing changes.
LEMMA StutterStep ==
    ASSUME IInv, UNCHANGED vars
    PROVE  IInv'
<1>1. TypeOK'
  BY DEF IInv, TypeOK, vars, sender, receiver, network
<1>2. WriterFits' /\ ClocksFit'
  BY DEF IInv, WriterFits, ClocksFit, vars, sender, receiver, network, Sound, Waiting
<1> QED
  BY <1>1, <1>2, QuietFacts DEF vars, sender, receiver, network, WriterPlace, IInv, Types

\* A writer starts with its first piece.
LEMMA PrepareStep ==
    ASSUME IInv, PreparePackage \/ PrepareHeartbeat
    PROVE  IInv'
<1> DEFINE m == IF out # <<>> THEN Head(out) ELSE Heartbeat
<1>1. /\ m \in Msgs \cup {Heartbeat} /\ 0 < Len(Pieces(m))
      /\ out \in Seq(Msgs)
  <2>1. out \in Seq(Msgs)
    BY DEF IInv, TypeOK
  <2>2. m \in Msgs \cup {Heartbeat}
    BY <2>1
  <2> QED
    BY <2>1, <2>2, PiecesFacts
<1>2. /\ w'.m = m /\ w'.off = 0 /\ link = "up" /\ w.step = "prepare"
      /\ w'.step = IF out # <<>> THEN "write_package" ELSE "write_heartbeat"
      /\ w' = [step |-> w'.step, m |-> m, off |-> 0]
      /\ UNCHANGED <<out, made, cur, link, receiver, network, torn, faults>>
      /\ hbTime' \in {hbTime, 0} /\ writeTime' = 0
  BY DEF PreparePackage, PrepareHeartbeat
<1> HIDE DEF m
<1>3. TypeOK'
  BY <1>1, <1>2, LinkAssumption DEF IInv, TypeOK, receiver, network
<1>4. WriterFits'
  BY <1>1, <1>2, Zenon DEF IInv, WriterFits, m
<1>5. ClocksFit'
  BY <1>2 DEF IInv, ClocksFit, receiver, network, Sound, Waiting
<1>6. WriterPlace' = WriterPlace
  BY <1>2 DEF IInv, WriterFits, WriterPlace
<1> QED
  BY <1>2, <1>3, <1>4, <1>5, <1>6, QuietFacts DEF receiver, network, IInv, Types

\* Time passes only on a connection that is idle, and there the writer's clock
\* has not come to half the timeout.
LEMMA TickStep ==
    ASSUME IInv, Tick
    PROVE  IInv'
<1>1. /\ UNCHANGED <<out, made, cur, link, w, rd, canRead, got, network, torn, faults>>
      /\ ~WriterBusy /\ (\A c \in Conns : ~ReaderBusy(c))
      /\ hbTime' = (IF link = "up" /\ w.step = "prepare" THEN hbTime + 1 ELSE hbTime)
      /\ writeTime' = (IF link = "up" /\ Writing THEN writeTime + 1 ELSE writeTime)
      /\ readTime' = [c \in Conns |-> IF Waiting(c) THEN readTime[c] + 1 ELSE readTime[c]]
  BY DEF Tick, CountWrite, CountRead
<1>2. /\ link = "up" /\ w.step = "prepare" => out = <<>> /\ ~(hbTime >= HeartbeatTime)
      /\ link = "up" /\ Writing => ~(Room > 0) /\ ~(writeTime >= Timeout)
      /\ \A c \in Conns : Waiting(c) => ~(readTime[c] >= Timeout)
  BY <1>1 DEF WriterBusy, ReaderBusy
<1>3. /\ hbTime \in 0 .. Timeout /\ writeTime \in 0 .. Timeout /\ Timeout \in Nat
      /\ \A c \in Conns : readTime[c] \in 0 .. Timeout
      /\ HeartbeatTime \in Nat /\ HeartbeatTime < Timeout
  BY HeartbeatTimeFacts DEF IInv, TypeOK
<1>4. /\ hbTime' \in 0 .. Timeout /\ writeTime' \in 0 .. Timeout
      /\ readTime' \in [Conns -> 0 .. Timeout]
      /\ \A c \in Conns : readTime'[c] \in 0 .. Timeout
  BY <1>1, <1>2, <1>3
<1>5. TypeOK'
  BY <1>1, <1>4 DEF IInv, TypeOK, network
<1>6. WriterFits'
  BY <1>1 DEF IInv, WriterFits
<1>7. ClocksFit'
  <2> SUFFICES ASSUME link = "up", Sound(cur), Waiting(cur), wire[cur] = <<>>
               PROVE  /\ readTime'[cur] < Timeout
                      /\ w.step = "prepare" /\ out = <<>> => readTime'[cur] <= hbTime'
    BY <1>1 DEF ClocksFit, network, Sound, Waiting
  <2>1. cur \in Conns
    BY DEF IInv, ConnsFit
  <2>2. Room > 0
    <3>1. Len(wire[cur]) = 0 /\ Capacity \in Nat \ {0}
      BY LinkAssumption
    <3> QED
      BY <3>1 DEF Room, Sound
  <2>3. w.step = "prepare"
    BY <1>2, <2>2 DEF IInv, TypeOK, Writing
  <2>4. readTime[cur] <= hbTime
    BY <1>2, <2>3 DEF IInv, ClocksFit
  <2>5. readTime'[cur] = readTime[cur] + 1 /\ hbTime' = hbTime + 1
    BY <1>1, <2>1, <2>3
  <2> QED
    BY <1>2, <1>3, <2>1, <2>3, <2>4, <2>5
<1> QED
  BY <1>1, <1>4, <1>5, <1>6, <1>7, QuietFacts DEF network, WriterPlace
----------------------------------------------------------------------------
\* A connection begins between two packages at both ends.
LEMMA ConnectStep ==
    ASSUME IInv, Connect
    PROVE  IInv'
<1> DEFINE k == cur + 1
<1>1. /\ link = "retry" /\ link' = "up" /\ cur' = k /\ k \in Conns /\ cur < k
      /\ cur \in Nat /\ k \in 0 .. MaxRetries
      /\ alive' = alive \cup {k} /\ rd' = [rd EXCEPT ![k] = NewReader]
      /\ hbTime' = 0 /\ stuck' = 0
      /\ UNCHANGED <<out, made, w, writeTime, readTime, canRead, got, silent, wire, torn, faults>>
  BY LinkAssumption DEF IInv, TypeOK, Connect, Conns
<1>2. wire[k] = <<>> /\ k \notin torn /\ w.step = "prepare" /\ w.off = 0
  BY <1>1 DEF IInv, ConnsFit, WriterFits
<1>3. /\ NewReader \in ReaderState /\ NewReader.step = "prepare" /\ rd \in [Conns -> ReaderState]
      /\ rd' \in [Conns -> ReaderState]
      /\ \A c \in Conns : rd'[c] = IF c = k THEN NewReader ELSE rd[c]
  <2>1. NewReader \in ReaderState /\ NewReader.step = "prepare"
    BY DEF NewReader, ReaderState
  <2>2. rd \in [Conns -> ReaderState]
    BY DEF IInv, Types
  <2> QED
    BY <1>1, <2>1, <2>2
<1> HIDE DEF k
<1>4. TypeOK'
  <2>1. \A c \in Conns : rd'[c].step \in {"none", "prepare", "header", "header_data", "data"}
    BY <1>3 DEF IInv, TypeOK
  <2>2. Timeout \in Nat /\ Capacity \in Nat
    BY LinkAssumption
  <2> QED
    BY <1>1, <2>1, <2>2 DEF IInv, TypeOK
<1>5. Types'
  BY <1>1, <1>3 DEF IInv, Types
<1>6. WriterFits'
  BY <1>1, <1>2 DEF IInv, WriterFits
<1>7. ConnsFit'
  <2>1. \A c \in Conns : c > k => c > cur /\ c # k
    BY <1>1 DEF Conns, k
  <2> QED
    BY <1>1, <1>3, <2>1 DEF IInv, ConnsFit
<1>8. ReadersFit'
  BY <1>1, <1>3 DEF IInv, ReadersFit, ReadSoFar
<1>9. StreamsFit'
  <2> SUFFICES ASSUME NEW c \in Conns, c \notin torn
               PROVE  /\ Framed(Place(rd'[c]), wire[c])
                      /\ c = k => EndPlace(Place(rd'[c]), wire[c]) = WriterPlace
    BY <1>1 DEF StreamsFit, WriterPlace
  <2>1. CASE c = k
    <3>1. Place(rd'[c]) = Boundary /\ WriterPlace = Boundary /\ wire[c] = <<>>
      BY <1>2, <1>3, <2>1 DEF Place, WriterPlace
    <3> QED
      BY <3>1 DEF Framed, EndPlace
  <2>2. CASE c # k
    BY <1>3, <2>2 DEF IInv, StreamsFit
  <2> QED
    BY <2>1, <2>2
<1>10. ClocksFit'
  BY <1>1, <1>3 DEF ClocksFit, Waiting
<1>11. Intact'
  BY <1>1 DEF IInv, Intact
<1> QED
  BY <1>4, <1>5, <1>6, <1>7, <1>8, <1>9, <1>10, <1>11 DEF IInv

\* The pieces written are the next ones of the package: the stream goes on
\* where the writer was.
LEMMA WriteStep ==
    ASSUME IInv, Write
    PROVE  IInv'
<1>1. PICK n \in 1 .. Len(Pieces(w.m)) - w.off :
        /\ n <= Room
        /\ wire' = IF Sound(cur)
                   THEN [wire EXCEPT ![cur] = @ \o SubSeq(Pieces(w.m), w.off + 1, w.off + n)]
                   ELSE wire
        /\ stuck' = IF cur \in silent THEN stuck + n ELSE stuck
        /\ IF w.off + n = Len(Pieces(w.m))
           THEN w' = NewWriter /\ SendOk
           ELSE w' = [w EXCEPT !.off = w.off + n] /\ UNCHANGED out
  BY DEF Write
<1> DEFINE m == w.m
           end == w.off + n
           t == SubSeq(Pieces(m), w.off + 1, end)
<1>2. /\ link = "up" /\ w.step \in {"write_package", "write_heartbeat"} /\ writeTime' = 0
      /\ UNCHANGED <<made, cur, link, hbTime, rd, readTime, canRead, got, alive, silent, torn, faults>>
  BY DEF Write, Writing, receiver
<1>3. /\ m \in Msgs \cup {Heartbeat} /\ w.off \in 0 .. 2 /\ cur \in Conns
      /\ w \in [step : {"prepare", "write_package", "write_heartbeat"},
                m : Msgs \cup {Heartbeat}, off : 0 .. 2]
      /\ out \in Seq(Msgs) /\ stuck \in 0 .. Capacity
      /\ wire \in [Conns -> Seq(AnyPiece)]
      /\ Capacity \in Nat /\ Timeout \in Nat
  BY <1>2, LinkAssumption DEF IInv, TypeOK, ConnsFit, Types
<1>4. /\ end \in Nat /\ w.off \in Nat /\ w.off < end /\ end <= Len(Pieces(m))
      /\ Len(Pieces(m)) \in 1 .. 3
  <2>1. PICK l \in 1 .. 3 : l = Len(Pieces(m))
    BY <1>3, PiecesFacts
  <2> QED
    BY <2>1, <1>1, <1>3
<1>5. /\ t \in Seq(AnyPiece) /\ Len(t) = n /\ t # <<>>
      /\ Framed(WriterPlace, t)
      /\ EndPlace(WriterPlace, t) = IF end = Len(Pieces(m)) THEN Boundary ELSE <<m, end>>
  <2>1. /\ t \in Seq(AnyPiece) /\ Len(t) = end - w.off
        /\ Framed(WriterPlace, t)
        /\ EndPlace(WriterPlace, t) = IF end = Len(Pieces(m)) THEN Boundary ELSE <<m, end>>
    BY <1>3, <1>4, ChunkFacts DEF WriterPlace
  <2>2. end - w.off = n /\ n # 0
    BY <1>3
  <2> QED
    BY <2>1, <2>2
<1>6. /\ end = Len(Pieces(m)) => w'.step = "prepare" /\ w'.off = 0 /\ w'.m = Heartbeat
      /\ end # Len(Pieces(m)) => w'.step = w.step /\ w'.m = m /\ w'.off = end /\ out' = out
      /\ w' \in [step : {"prepare", "write_package", "write_heartbeat"},
                 m : Msgs \cup {Heartbeat}, off : 0 .. 2]
  <2>1. CASE end = Len(Pieces(m))
    BY <2>1, <1>1 DEF NewWriter
  <2>2. CASE end # Len(Pieces(m))
    <3>1. w' = [w EXCEPT !.off = end] /\ out' = out
      BY <1>1, <2>2
    <3>2. end \in 0 .. 2
      <4>1. PICK l \in 1 .. 3 : l = Len(Pieces(m))
        BY <1>4
      <4>2. end \in Nat /\ end <= l /\ end # l
        BY <4>1, <1>4, <2>2
      <4> HIDE DEF end
      <4> QED
        BY <4>2
    <3> HIDE DEF end
    <3> QED
      BY <3>1, <3>2, <1>3, <2>2
  <2> QED
    BY <2>1, <2>2
<1>7. out' \in Seq(Msgs)
  <2>1. w.step = "write_package" => out # <<>>
    BY DEF IInv, WriterFits
  <2>2. out' = out \/ (out # <<>> /\ out' = Tail(out))
    BY <2>1, <1>1, <1>2 DEF SendOk
  <2>3. out # <<>> => Tail(out) \in Seq(Msgs)
    BY <1>3
  <2> QED
    BY <2>2, <2>3, <1>3
<1>8. /\ ~Sound(cur) => wire' = wire
      /\ Sound(cur) => wire' = [wire EXCEPT ![cur] = @ \o t]
  BY <1>1
<1>9. /\ stuck' \in 0 .. Capacity
      /\ Sound(cur) => Len(wire[cur]) + n <= Capacity
  <2>1. PICK l \in Nat : l = Len(wire[cur])
    BY <1>3
  <2> QED
    BY <2>1, <1>1, <1>3 DEF Room, Sound
<1>10. WriterPlace' = EndPlace(WriterPlace, t)
  <2>1. end # 0
    BY <1>4
  <2> QED
    BY <2>1, <1>5, <1>6 DEF WriterPlace
<1> HIDE DEF m, end, t
<1>11. /\ wire' \in [Conns -> Seq(AnyPiece)]
       /\ \A c \in Conns : c # cur => wire'[c] = wire[c]
       /\ Sound(cur) => /\ wire'[cur] = wire[cur] \o t
                        /\ wire'[cur] \in Seq(AnyPiece)
                        /\ Len(wire'[cur]) = Len(wire[cur]) + n
                        /\ wire'[cur] # <<>>
       /\ \A c \in Conns : Len(wire'[c]) <= Capacity
  <2>1. \A c \in Conns : Len(wire[c]) <= Capacity
    BY DEF IInv, TypeOK
  <2>2. CASE ~Sound(cur)
    BY <2>1, <2>2, <1>8, <1>3
  <2>3. CASE Sound(cur)
    <3>1. /\ wire[cur] \o t \in Seq(AnyPiece)
          /\ Len(wire[cur] \o t) = Len(wire[cur]) + n
      <4>1. wire[cur] \in Seq(AnyPiece) /\ t \in Seq(AnyPiece) /\ Len(t) = n
        BY <1>3, <1>5
      <4> QED
        BY <4>1, ConcatProperties
    <3>2. Len(wire[cur]) \in Nat /\ n > 0
      BY <1>3
    <3>3. wire[cur] \o t # <<>>
      BY <3>1, <3>2
    <3>4. /\ wire' \in [Conns -> Seq(AnyPiece)] /\ wire'[cur] = wire[cur] \o t
          /\ \A c \in Conns : c # cur => wire'[c] = wire[c]
      BY <2>3, <1>8, <1>3, <3>1
    <3> QED
      BY <3>1, <3>3, <3>4, <2>1, <1>9, <2>3
  <2> QED
    BY <2>2, <2>3
<1>12. TypeOK'
  BY <1>2, <1>3, <1>6, <1>7, <1>9, <1>11 DEF IInv, TypeOK
<1>13. Types'
  BY <1>2, <1>11 DEF IInv, Types
<1>14. WriterFits'
  <2>1. CASE end = Len(Pieces(m))
    <3>1. 0 < Len(Pieces(Heartbeat))
      BY PiecesFacts
    <3> QED
      BY <2>1, <1>2, <1>6, <3>1 DEF WriterFits
  <2>2. CASE end # Len(Pieces(m))
    <3>1. end < Len(Pieces(m))
      BY <2>2, <1>4
    <3> QED
      BY <2>2, <1>2, <1>6, <3>1 DEF IInv, WriterFits, m
  <2> QED
    BY <2>1, <2>2
<1>15. ConnsFit'
  <2>1. \A c \in Conns : c > cur => wire'[c] = wire[c]
    BY <1>3, <1>11 DEF Conns
  <2> QED
    BY <1>2, <2>1 DEF IInv, ConnsFit
<1>16. ReadersFit'
  BY <1>2 DEF IInv, ReadersFit
<1>17. StreamsFit'
  <2> SUFFICES ASSUME NEW c \in Conns, c \notin torn
               PROVE  /\ Framed(Place(rd[c]), wire'[c])
                      /\ c = cur /\ Sound(c) =>
                            EndPlace(Place(rd[c]), wire'[c]) = WriterPlace'
    BY <1>2 DEF StreamsFit, Sound
  <2>0. /\ Framed(Place(rd[c]), wire[c])
        /\ c = cur /\ Sound(c) => EndPlace(Place(rd[c]), wire[c]) = WriterPlace
    BY <1>2 DEF IInv, StreamsFit
  <2>1. CASE c = cur /\ Sound(c)
    <3>1. wire[c] \in Seq(AnyPiece) /\ wire'[c] = wire[c] \o t
      BY <2>1, <1>3, <1>11
    <3>2. /\ Framed(Place(rd[c]), wire[c])
          /\ EndPlace(Place(rd[c]), wire[c]) = WriterPlace
      BY <2>0, <2>1
    <3>3. t \in Seq(AnyPiece) /\ t # <<>> /\ Framed(EndPlace(Place(rd[c]), wire[c]), t)
      BY <3>2, <1>5
    <3>4. /\ Framed(Place(rd[c]), wire[c] \o t)
          /\ EndPlace(Place(rd[c]), wire[c] \o t) = EndPlace(WriterPlace, t)
      BY <3>1, <3>2, <3>3, FramedConcat
    <3> QED
      BY <3>1, <3>4, <1>10
  <2>2. CASE ~(c = cur /\ Sound(c))
    BY <2>0, <2>2, <1>8, <1>11
  <2> QED
    BY <2>1, <2>2
<1>18. ClocksFit'
  BY <1>2, <1>11 DEF ClocksFit, Sound
<1>19. Intact'
  BY <1>2 DEF IInv, Intact
<1> QED
  BY <1>12, <1>13, <1>14, <1>15, <1>16, <1>17, <1>18, <1>19 DEF IInv

\* The sending end gives the connection up: it has no place any more.
LEMMA RetryStep ==
    ASSUME IInv, ConnectionClosed \/ WriteTimeout
    PROVE  IInv'
<1>1. /\ link' = "retry" /\ w' = NewWriter /\ writeTime' = 0 /\ alive' = alive \ {cur}
      /\ UNCHANGED <<out, made, cur, hbTime, rd, readTime, canRead, got, silent, stuck, wire, torn, faults>>
  BY DEF ConnectionClosed, WriteTimeout, Retry, receiver
<1>2. TypeOK'
  BY <1>1, LinkAssumption DEF IInv, TypeOK, NewWriter
<1>3. Types' /\ Intact' /\ ReadersFit'
  BY <1>1 DEF IInv, Types, Intact, ReadersFit
<1>4. WriterFits'
  <2>1. 0 < Len(Pieces(Heartbeat))
    BY PiecesFacts
  <2> QED
    BY <1>1, <2>1 DEF WriterFits, NewWriter
<1>5. ConnsFit' /\ StreamsFit' /\ ClocksFit'
  BY <1>1 DEF IInv, ConnsFit, StreamsFit, ClocksFit
<1> QED
  BY <1>2, <1>3, <1>4, <1>5 DEF IInv

\* A reset that cuts a package marks the connection.
LEMMA ResetSenderStep ==
    ASSUME IInv, NEW m \in Msgs, ResetSender(m)
    PROVE  IInv'
<1>1. /\ made' = m /\ out' = <<m>> /\ w' = NewWriter /\ hbTime' = 0 /\ writeTime' = 0
      /\ torn' = IF w.off > 0 THEN torn \cup {cur} ELSE torn
      /\ faults < MaxFaults /\ faults' = faults + 1
      /\ UNCHANGED <<cur, link, rd, readTime, canRead, got, alive, silent, stuck, wire>>
  BY DEF ResetSender, Fault, receiver, network
<1>2. w.off > 0 => link = "up" /\ cur \in Conns
  BY DEF IInv, TypeOK, WriterFits, ConnsFit
<1>3. /\ torn' \subseteq Conns /\ torn \subseteq torn'
      /\ \A c \in Conns : c > cur => (c \in torn' <=> c \in torn)
  BY <1>1, <1>2 DEF IInv, TypeOK, Conns
<1>4. TypeOK'
  <2>1. /\ out' \in Seq(Msgs) /\ made' \in 0 .. MaxMsgs /\ faults' \in 0 .. MaxFaults
        /\ w' \in [step : {"prepare", "write_package", "write_heartbeat"},
                   m : Msgs \cup {Heartbeat}, off : 0 .. 2]
        /\ hbTime' \in 0 .. Timeout /\ writeTime' \in 0 .. Timeout
    BY <1>1, LinkAssumption DEF IInv, TypeOK, NewWriter, Msgs
  <2> QED
    BY <1>1, <1>3, <2>1 DEF IInv, TypeOK
<1>5. Types' /\ Intact' /\ ReadersFit'
  BY <1>1, <1>3 DEF IInv, Types, Intact, ReadersFit
<1>6. WriterFits'
  <2>1. 0 < Len(Pieces(Heartbeat))
    BY PiecesFacts
  <2> QED
    BY <1>1, <2>1 DEF WriterFits, NewWriter
<1>7. ConnsFit'
  BY <1>1, <1>3 DEF IInv, ConnsFit
<1>8. StreamsFit'
  <2>1. w.off = 0 => WriterPlace' = WriterPlace
    BY <1>1 DEF WriterPlace, NewWriter
  <2>2. cur \notin torn' => w.off = 0
    BY <1>1 DEF IInv, TypeOK
  <2> QED
    BY <1>1, <1>3, <2>1, <2>2 DEF IInv, StreamsFit, Sound
<1>9. ClocksFit'
  BY <1>1 DEF IInv, ClocksFit, Sound, Waiting
<1> QED
  BY <1>4, <1>5, <1>6, <1>7, <1>8, <1>9 DEF IInv
----------------------------------------------------------------------------
\* A reader goes on behind the piece it has taken.
LEMMA TakeFacts ==
    ASSUME IInv, NEW c \in Conns, Take(c), NEW r \in ReaderState,
           rd' = [rd EXCEPT ![c] = r],
           r.step # "none",
           c \notin torn => ReadSoFar(r) /\ Place(r) = After(Head(wire[c])),
           got' \in Seq([conn : Conns, buf : Seq(AnyPiece), torn : BOOLEAN]), Intact',
           UNCHANGED <<sender, canRead, alive, silent, stuck, torn, faults>>
    PROVE  IInv'
<1>1. /\ wire[c] # <<>> /\ wire' = [wire EXCEPT ![c] = Tail(@)]
      /\ readTime' = [readTime EXCEPT ![c] = 0]
      /\ UNCHANGED <<out, made, cur, link, w, hbTime, writeTime>>
  BY DEF Take, sender
<1>2. /\ wire \in [Conns -> Seq(AnyPiece)] /\ rd \in [Conns -> ReaderState]
      /\ readTime \in [Conns -> 0 .. Timeout] /\ Timeout \in Nat \ {0}
      /\ wire[c] \in Seq(AnyPiece)
  BY LinkAssumption DEF IInv, Types
<1>3. /\ Tail(wire[c]) \in Seq(AnyPiece) /\ Len(Tail(wire[c])) <= Len(wire[c])
  <2>1. Len(wire[c]) \in Nat
    BY <1>2
  <2>2. Tail(wire[c]) \in Seq(AnyPiece) /\ Len(Tail(wire[c])) = Len(wire[c]) - 1
    BY <1>1, <1>2, HeadTailProperties
  <2> QED
    BY <2>1, <2>2
<1>4. /\ \A k \in Conns : wire'[k] = IF k = c THEN Tail(wire[c]) ELSE wire[k]
      /\ \A k \in Conns : rd'[k] = IF k = c THEN r ELSE rd[k]
      /\ \A k \in Conns : readTime'[k] = IF k = c THEN 0 ELSE readTime[k]
  BY <1>1, <1>2
<1>5. Types'
  <2>1. wire' \in [Conns -> Seq(AnyPiece)]
    BY <1>1, <1>2, <1>3
  <2>2. rd' \in [Conns -> ReaderState]
    BY <1>2
  <2>3. readTime' \in [Conns -> 0 .. Timeout]
    BY <1>1, <1>2
  <2> QED
    BY <2>1, <2>2, <2>3 DEF Types
<1>6. TypeOK'
  <2>1. ASSUME NEW k \in Conns
        PROVE  /\ Len(wire'[k]) <= Capacity
               /\ rd'[k].step \in {"none", "prepare", "header", "header_data", "data"}
               /\ readTime'[k] \in 0 .. Timeout
    <3>1. Len(wire'[k]) <= Capacity
      <4>1. /\ Len(Tail(wire[c])) \in Nat /\ Len(wire[c]) \in Nat
            /\ Len(wire[c]) <= Capacity /\ Len(wire[k]) <= Capacity /\ Capacity \in Nat
        BY <1>2, <1>3, LinkAssumption DEF IInv, TypeOK
      <4>2. CASE k = c
        <5> DEFINE t == Tail(wire[c])
        <5>1. /\ wire'[k] = t /\ Len(t) <= Len(wire[c]) /\ Len(t) \in Nat
              /\ Len(wire[c]) \in Nat /\ Len(wire[c]) <= Capacity /\ Capacity \in Nat
          BY <4>1, <4>2, <1>3, <1>4
        <5> HIDE DEF t
        <5> QED
          BY <5>1
      <4>3. CASE k # c
        BY <4>1, <4>3, <1>4
      <4> QED
        BY <4>2, <4>3
    <3>2. rd'[k] \in ReaderState /\ readTime'[k] \in 0 .. Timeout
      BY <1>5 DEF Types
    <3> QED
      BY <3>1, <3>2 DEF ReaderState
  <2> QED
    BY <1>1, <2>1 DEF IInv, TypeOK
<1>7. WriterFits'
  BY <1>1 DEF IInv, WriterFits
<1>8. ConnsFit'
  BY <1>1, <1>4 DEF IInv, ConnsFit
<1>9. ReadersFit'
  BY <1>4 DEF IInv, ReadersFit
<1>10. StreamsFit'
  <2> SUFFICES ASSUME NEW k \in Conns, k \notin torn
               PROVE  /\ Framed(Place(rd'[k]), wire'[k])
                      /\ link = "up" /\ k = cur /\ Sound(k) =>
                            EndPlace(Place(rd'[k]), wire'[k]) = WriterPlace
    BY <1>1 DEF StreamsFit, Sound, WriterPlace
  <2>1. /\ Framed(Place(rd[k]), wire[k])
        /\ link = "up" /\ k = cur /\ Sound(k) =>
              EndPlace(Place(rd[k]), wire[k]) = WriterPlace
    BY DEF IInv, StreamsFit
  <2>2. CASE k = c
    <3>1. /\ Framed(After(Head(wire[c])), Tail(wire[c]))
          /\ EndPlace(After(Head(wire[c])), Tail(wire[c])) = EndPlace(Place(rd[c]), wire[c])
      BY <1>1, <1>2, <2>1, <2>2, FramedTail
    <3> QED
      BY <3>1, <2>1, <2>2, <1>4
  <2>3. CASE k # c
    BY <2>1, <2>3, <1>4
  <2> QED
    BY <2>2, <2>3
<1>11. ClocksFit'
  <2> SUFFICES ASSUME link = "up", Sound(cur), Waiting(cur)', wire'[cur] = <<>>
               PROVE  /\ readTime'[cur] < Timeout
                      /\ w.step = "prepare" /\ out = <<>> => readTime'[cur] <= hbTime
    BY <1>1 DEF ClocksFit, Sound
  <2>1. cur \in Conns /\ hbTime \in 0 .. Timeout
    BY DEF IInv, ConnsFit, TypeOK
  <2>2. CASE cur = c
    BY <2>1, <2>2, <1>2, <1>4
  <2>3. CASE cur # c
    <3>1. /\ wire[cur] = <<>> /\ rd'[cur] = rd[cur] /\ readTime'[cur] = readTime[cur]
          /\ cur' = cur
      BY <2>1, <2>3, <1>1, <1>4
    <3>2. Waiting(cur)
      BY <3>1 DEF Waiting
    <3> QED
      BY <3>1, <3>2 DEF IInv, ClocksFit
  <2> QED
    BY <2>2, <2>3
<1> QED
  BY <1>5, <1>6, <1>7, <1>8, <1>9, <1>10, <1>11 DEF IInv

\* The piece that is taken is one that may come at the reader's place.
LEMMA HeadFacts ==
    ASSUME IInv, NEW c \in Conns, wire[c] # <<>>
    PROVE  /\ Head(wire[c]) \in AnyPiece
           /\ c \notin torn => Comes(Place(rd[c]), Head(wire[c]))
           /\ rd[c] \in ReaderState
<1>1. wire[c] \in Seq(AnyPiece) /\ rd[c] \in ReaderState
  BY DEF IInv, Types
<1>2. c \notin torn => Framed(Place(rd[c]), wire[c])
  BY DEF IInv, StreamsFit
<1> QED
  BY <1>1, <1>2, FramedTail

\* ReadHeader keeps the invariant.
LEMMA ReadHeaderStep ==
    ASSUME IInv, NEW c \in Conns, ReadHeader(c)
    PROVE  IInv'
<1> DEFINE p == Head(wire[c])
           r == IF p.m = Heartbeat THEN NewReader
                ELSE [step |-> "header_data", header |-> p.m, buf |-> <<p>>]
<1>1. /\ Take(c) /\ p.part = "header" /\ rd' = [rd EXCEPT ![c] = r] /\ wire[c] # <<>>
      /\ UNCHANGED <<sender, canRead, got, alive, silent, stuck, torn, faults>>
  BY DEF ReadHeader, Take
<1>2. p \in AnyPiece
  BY <1>1, HeadFacts
<1>3. p = Piece(p.m, "header") /\ p.m \in Msgs \cup {Heartbeat}
  BY <1>1, <1>2 DEF AnyPiece, Piece
<1> HIDE DEF p
<1>4. CASE p.m = Heartbeat
  <2>1. r = NewReader /\ r.step = "prepare"
    BY <1>4 DEF NewReader
  <2>2. r \in ReaderState
    BY <2>1 DEF NewReader, ReaderState
  <2>3. ReadSoFar(r) /\ Place(r) = After(p)
    BY <1>4, <1>1, <2>1 DEF ReadSoFar, Place, After
  <2> HIDE DEF r
  <2> QED
    BY <1>1, <2>1, <2>2, <2>3, TakeFacts DEF p, IInv, Types, Intact
<1>5. CASE p.m # Heartbeat
  <2>1. r.step = "header_data" /\ r.header = p.m /\ r.buf = <<p>> /\ p.m \in Msgs
    BY <1>3, <1>5
  <2>2. r \in ReaderState
    <3>1. <<p>> \in Seq(AnyPiece)
      BY <1>2
    <3> QED
      BY <3>1, <1>3, <1>5 DEF ReaderState
  <2> HIDE DEF r
  <2>3. ReadSoFar(r) /\ Place(r) = After(p)
    BY <1>1, <1>3, <1>5, <2>1 DEF ReadSoFar, Place, After
  <2> QED
    BY <1>1, <2>1, <2>2, <2>3, TakeFacts DEF p, IInv, Types, Intact
<1> QED
  BY <1>4, <1>5

\* What is reported of a connection that no reset has cut is a whole package.
LEMMA ReportFacts ==
    ASSUME IInv, NEW c \in Conns, NEW buf \in Seq(AnyPiece), Report(c, buf),
           c \notin torn => Whole(buf)
    PROVE  /\ got' \in Seq([conn : Conns, buf : Seq(AnyPiece), torn : BOOLEAN])
           /\ Intact'
           /\ rd' = [rd EXCEPT ![c] = NewReader]
           /\ NewReader \in ReaderState /\ NewReader.step = "prepare"
           /\ ReadSoFar(NewReader) /\ Place(NewReader) = Boundary
<1> DEFINE G == [conn : Conns, buf : Seq(AnyPiece), torn : BOOLEAN]
           g == [conn |-> c, buf |-> buf, torn |-> c \in torn]
<1>1. got \in Seq(G) /\ g \in G /\ g.torn = (c \in torn) /\ g.buf = buf
  BY DEF IInv, Types
<1>2. got' = Append(got, g) /\ rd' = [rd EXCEPT ![c] = NewReader]
  BY DEF Report
<1> HIDE DEF G, g
<1>3. /\ got' \in Seq(G) /\ Len(got') = Len(got) + 1 /\ Len(got) \in Nat
      /\ \A i \in 1 .. Len(got) : got'[i] = got[i]
      /\ got'[Len(got) + 1] = g
  BY <1>1, <1>2
<1>4. Intact'
  <2>1. DOMAIN got' = 1 .. Len(got) + 1 /\ DOMAIN got = 1 .. Len(got)
    BY <1>1, <1>3
  <2> SUFFICES ASSUME NEW i \in 1 .. Len(got) + 1
               PROVE  got'[i].torn \/ Whole(got'[i].buf)
    BY <2>1 DEF Intact
  <2>2. CASE i \in 1 .. Len(got)
    BY <1>3, <2>1, <2>2 DEF IInv, Intact
  <2>3. CASE i = Len(got) + 1
    <3>1. got'[i] = g
      BY <1>3, <2>3
    <3> QED
      BY <3>1, <1>1, Zenon
  <2> QED
    BY <2>2, <2>3, <1>3
<1>5. NewReader \in ReaderState /\ NewReader.step = "prepare"
  BY DEF NewReader, ReaderState
<1> QED
  BY <1>2, <1>3, <1>4, <1>5 DEF G, ReadSoFar, Place

\* ReadHeaderData keeps the invariant.
LEMMA ReadHeaderDataStep ==
    ASSUME IInv, NEW c \in Conns, ReadHeaderData(c)
    PROVE  IInv'
<1> DEFINE p == Head(wire[c])
           m == rd[c].header
           buf == Append(rd[c].buf, p)
<1>1. /\ rd[c].step = "header_data" /\ Take(c) /\ wire[c] # <<>>
      /\ m \in Bare => Report(c, buf)
      /\ m \notin Bare => /\ rd' = [rd EXCEPT ![c].step = "data", ![c].buf = buf]
                          /\ UNCHANGED got
      /\ UNCHANGED <<sender, canRead, alive, silent, stuck, torn, faults>>
  BY DEF ReadHeaderData, Take
<1>2. p \in AnyPiece /\ rd[c] \in ReaderState /\ rd \in [Conns -> ReaderState]
  BY <1>1, HeadFacts DEF IInv, Types
<1>3. m \in Msgs \cup {Heartbeat} /\ buf \in Seq(AnyPiece)
  <2>1. rd[c].buf \in Seq(AnyPiece) /\ m \in Msgs \cup {Heartbeat}
    BY <1>2 DEF ReaderState
  <2> HIDE DEF p
  <2> QED
    BY <1>2, <2>1
<1>4. c \notin torn =>
        /\ m \in Msgs /\ rd[c].buf = <<Piece(m, "header")>>
        /\ p = Piece(m, "header_data")
  <2>1. c \notin torn => ReadSoFar(rd[c]) /\ Comes(Place(rd[c]), p)
    BY <1>1, HeadFacts DEF IInv, ReadersFit
  <2>2. Place(rd[c]) = <<m, 1>> /\ Place(rd[c]) # Boundary
    BY <1>1 DEF Place, Boundary
  <2> HIDE DEF p
  <2> QED
    BY <1>1, <2>1, <2>2 DEF ReadSoFar, Comes
<1>5. c \notin torn => /\ buf = <<Piece(m, "header"), Piece(m, "header_data")>>
                       /\ m # Heartbeat /\ buf[1].m = m
                       /\ After(p) = IF m \in Bare THEN Boundary ELSE <<m, 2>>
  <2>1. ASSUME c \notin torn
        PROVE  buf = <<Piece(m, "header"), Piece(m, "header_data")>>
    <3> DEFINE h == Piece(m, "header")
               g == Piece(m, "header_data")
    <3>1. rd[c].buf = <<h>> /\ p = g
      BY <2>1, <1>4
    <3>2. h \in AnyPiece /\ g \in AnyPiece
      BY <1>3, AfterFacts
    <3> HIDE DEF h, g, p
    <3>3. Append(<<h>>, g) = <<h, g>>
      BY <3>2, AppendFacts
    <3> QED
      BY <3>1, <3>3 DEF h, g
  <2>2. c \notin torn => m # Heartbeat /\ After(p) = IF m \in Bare THEN Boundary ELSE <<m, 2>>
    BY <1>3, <1>4, AfterFacts DEF Msgs, Heartbeat
  <2> HIDE DEF buf, p
  <2>3. c \notin torn => buf[1].m = m
    BY <2>1, <1>3, AfterFacts
  <2> QED
    BY <2>1, <2>2, <2>3
<1> HIDE DEF buf, p, m
<1>6. CASE m \in Bare
  <2>1. c \notin torn => Whole(buf)
    BY <1>5, <1>6 DEF Whole, Pieces
  <2>2. Report(c, buf)
    BY <1>1, <1>6
  <2>3. /\ got' \in Seq([conn : Conns, buf : Seq(AnyPiece), torn : BOOLEAN])
        /\ Intact'
        /\ rd' = [rd EXCEPT ![c] = NewReader]
        /\ NewReader \in ReaderState /\ NewReader.step = "prepare"
        /\ ReadSoFar(NewReader) /\ Place(NewReader) = Boundary
    BY <1>3, <2>1, <2>2, ReportFacts
  <2> QED
    BY <1>1, <1>5, <1>6, <2>3, TakeFacts DEF p
<1>7. CASE m \notin Bare
  <2> DEFINE r == [rd[c] EXCEPT !.step = "data", !.buf = buf]
  <2>1. rd' = [rd EXCEPT ![c] = r]
    BY <1>1, <1>2, <1>7
  <2>2. r \in ReaderState /\ r.step = "data" /\ r.header = m /\ r.buf = buf
    BY <1>2, <1>3 DEF ReaderState, m
  <2> HIDE DEF r
  <2>3. Place(r) = <<m, 2>>
    BY <2>2 DEF Place
  <2>4. c \notin torn => ReadSoFar(r) /\ Place(r) = After(p)
    BY <1>4, <1>5, <1>7, <2>2, <2>3 DEF ReadSoFar
  <2> QED
    BY <1>1, <1>7, <2>1, <2>2, <2>4, TakeFacts DEF p, IInv, Types, Intact
<1> QED
  BY <1>6, <1>7

\* ReadData keeps the invariant.
LEMMA ReadDataStep ==
    ASSUME IInv, NEW c \in Conns, ReadData(c)
    PROVE  IInv'
<1> DEFINE p == Head(wire[c])
           m == rd[c].header
           buf == Append(rd[c].buf, p)
<1>1. /\ rd[c].step = "data" /\ Take(c) /\ wire[c] # <<>> /\ Report(c, buf)
      /\ UNCHANGED <<sender, canRead, alive, silent, stuck, torn, faults>>
  BY DEF ReadData, Take
<1>2. p \in AnyPiece /\ rd[c] \in ReaderState /\ rd \in [Conns -> ReaderState]
  BY <1>1, HeadFacts DEF IInv, Types
<1>3. m \in Msgs \cup {Heartbeat} /\ buf \in Seq(AnyPiece)
  <2>1. rd[c].buf \in Seq(AnyPiece) /\ m \in Msgs \cup {Heartbeat}
    BY <1>2 DEF ReaderState
  <2> HIDE DEF p
  <2> QED
    BY <1>2, <2>1
<1>4. c \notin torn =>
        /\ m \in Msgs \ Bare
        /\ rd[c].buf = <<Piece(m, "header"), Piece(m, "header_data")>>
        /\ p = Piece(m, "data")
  <2>1. c \notin torn => ReadSoFar(rd[c]) /\ Comes(Place(rd[c]), p)
    BY <1>1, HeadFacts DEF IInv, ReadersFit
  <2>2. Place(rd[c]) = <<m, 2>> /\ Place(rd[c]) # Boundary
    BY <1>1 DEF Place, Boundary
  <2> HIDE DEF p
  <2> QED
    BY <1>1, <2>1, <2>2 DEF ReadSoFar, Comes
<1>5. c \notin torn => Whole(buf) /\ After(p) = Boundary
  <2> SUFFICES ASSUME c \notin torn
               PROVE  Whole(buf) /\ After(p) = Boundary
    OBVIOUS
  <2> DEFINE h == Piece(m, "header")
             g == Piece(m, "header_data")
             d == Piece(m, "data")
  <2>1. rd[c].buf = <<h, g>> /\ p = d /\ m # Heartbeat /\ m \notin Bare
    BY <1>4 DEF Msgs, Heartbeat
  <2>2. After(p) = Boundary /\ h.m = m /\ h \in AnyPiece /\ g \in AnyPiece /\ d \in AnyPiece
    BY <1>3, <2>1, AfterFacts
  <2>3. Pieces(m) = <<h, g, d>>
    BY <2>1 DEF Pieces
  <2> HIDE DEF h, g, d, p
  <2>4. Append(<<h, g>>, d) = <<h, g, d>> /\ <<h, g, d>>[1] = h
    BY <2>2, AppendFacts
  <2>5. buf = <<h, g, d>>
    BY <2>1, <2>4
  <2> HIDE DEF buf
  <2> QED
    BY <2>2, <2>3, <2>4, <2>5 DEF Whole
<1> HIDE DEF buf, p, m
<1>6. /\ got' \in Seq([conn : Conns, buf : Seq(AnyPiece), torn : BOOLEAN])
      /\ Intact'
      /\ rd' = [rd EXCEPT ![c] = NewReader]
      /\ NewReader \in ReaderState /\ NewReader.step = "prepare"
      /\ ReadSoFar(NewReader) /\ Place(NewReader) = Boundary
  BY <1>1, <1>3, <1>5, ReportFacts
<1> QED
  BY <1>1, <1>5, <1>6, TakeFacts DEF p

\* PrepareReadHeader keeps the invariant.
LEMMA PrepareReadHeaderStep ==
    ASSUME IInv, NEW c \in Conns, PrepareReadHeader(c)
    PROVE  IInv'
<1> DEFINE r == [NewReader EXCEPT !.step = "header"]
<1>1. /\ rd[c].step = "prepare" /\ rd' = [rd EXCEPT ![c] = r]
      /\ readTime' = [readTime EXCEPT ![c] = 0]
      /\ UNCHANGED <<out, made, cur, link, w, hbTime, writeTime, canRead, got,
                     alive, silent, stuck, wire, torn, faults>>
  BY DEF PrepareReadHeader, sender, network
<1>2. r \in ReaderState /\ r.step = "header"
  <2>1. NewReader \in ReaderState
    BY DEF NewReader, ReaderState
  <2> QED
    BY <2>1 DEF ReaderState
<1> HIDE DEF r
<1>3. ReadSoFar(r) /\ Place(r) = Boundary /\ Place(rd[c]) = Boundary
  BY <1>1, <1>2 DEF ReadSoFar, Place
<1>4. /\ rd' \in [Conns -> ReaderState] /\ readTime' \in [Conns -> 0 .. Timeout]
      /\ \A k \in Conns : rd'[k] = IF k = c THEN r ELSE rd[k]
      /\ \A k \in Conns : readTime'[k] = IF k = c THEN 0 ELSE readTime[k]
      /\ Timeout \in Nat \ {0}
  BY <1>1, <1>2, LinkAssumption DEF IInv, Types
<1>5. TypeOK'
  <2>1. \A k \in Conns : rd'[k] \in ReaderState /\ readTime'[k] \in 0 .. Timeout
    BY <1>4
  <2> QED
    BY <1>1, <2>1 DEF IInv, TypeOK, ReaderState
<1>6. Types' /\ WriterFits' /\ Intact'
  BY <1>1, <1>4 DEF IInv, Types, WriterFits, Intact
<1>7. ConnsFit' /\ ReadersFit'
  BY <1>1, <1>2, <1>3, <1>4 DEF IInv, ConnsFit, ReadersFit
<1>8. StreamsFit'
  <2>1. \A k \in Conns : Place(rd'[k]) = Place(rd[k])
    BY <1>3, <1>4
  <2> QED
    BY <1>1, <2>1 DEF IInv, StreamsFit, Sound, WriterPlace
<1>9. ClocksFit'
  <2> SUFFICES ASSUME link = "up", Sound(cur), Waiting(cur)', wire[cur] = <<>>
               PROVE  /\ readTime'[cur] < Timeout
                      /\ w.step = "prepare" /\ out = <<>> => readTime'[cur] <= hbTime
    BY <1>1 DEF ClocksFit, Sound
  <2>1. cur \in Conns /\ hbTime \in 0 .. Timeout /\ cur' = cur
    BY <1>1 DEF IInv, ConnsFit, TypeOK
  <2>2. CASE cur = c
    BY <2>1, <2>2, <1>4
  <2>3. CASE cur # c
    BY <2>1, <2>3, <1>4 DEF IInv, ClocksFit, Waiting
  <2> QED
    BY <2>2, <2>3
<1> QED
  BY <1>5, <1>6, <1>7, <1>8, <1>9 DEF IInv

\* A reader that stops closes its connection: nothing more arrives there.
LEMMA StopReaderFacts ==
    ASSUME IInv, NEW c \in Conns, StopReader(c),
           UNCHANGED <<sender, canRead, got, silent, stuck, torn, faults>>
    PROVE  IInv'
<1>1. /\ rd' = [rd EXCEPT ![c] = NoReader] /\ wire' = [wire EXCEPT ![c] = <<>>]
      /\ readTime' = [readTime EXCEPT ![c] = 0]
      /\ alive' = alive \ {c}
      /\ UNCHANGED <<out, made, cur, link, w, hbTime, writeTime, canRead, got,
                     silent, stuck, torn, faults>>
  BY DEF StopReader, sender
<1>2. /\ NoReader \in ReaderState /\ NoReader.step = "none"
      /\ ReadSoFar(NoReader) /\ Place(NoReader) = Boundary
  <2>1. NewReader \in ReaderState
    BY DEF NewReader, ReaderState
  <2>2. NoReader \in ReaderState /\ NoReader.step = "none"
    BY <2>1 DEF NoReader, ReaderState
  <2> QED
    BY <2>2 DEF ReadSoFar, Place
<1>3. /\ rd' \in [Conns -> ReaderState] /\ readTime' \in [Conns -> 0 .. Timeout]
      /\ wire' \in [Conns -> Seq(AnyPiece)]
      /\ \A k \in Conns : rd'[k] = IF k = c THEN NoReader ELSE rd[k]
      /\ \A k \in Conns : wire'[k] = IF k = c THEN <<>> ELSE wire[k]
      /\ \A k \in Conns : readTime'[k] = IF k = c THEN 0 ELSE readTime[k]
      /\ Capacity \in Nat
  <2>1. <<>> \in Seq(AnyPiece)
    OBVIOUS
  <2> QED
    BY <1>1, <1>2, <2>1, LinkAssumption DEF IInv, Types
<1>4. TypeOK'
  <2>1. \A k \in Conns : rd'[k] \in ReaderState /\ readTime'[k] \in 0 .. Timeout
    BY <1>3
  <2>2. ASSUME NEW k \in Conns
        PROVE  Len(wire'[k]) <= Capacity
    <3>1. CASE k = c
      <4>1. wire'[k] = <<>>
        BY <1>3, <3>1
      <4> QED
        BY <4>1, <1>3
    <3>2. CASE k # c
      BY <1>3, <3>2 DEF IInv, TypeOK
    <3> QED
      BY <3>1, <3>2
  <2> QED
    BY <1>1, <2>1, <2>2 DEF IInv, TypeOK, ReaderState
<1>5. Types' /\ WriterFits' /\ Intact'
  BY <1>1, <1>3 DEF IInv, Types, WriterFits, Intact
<1>6. ConnsFit' /\ ReadersFit'
  BY <1>1, <1>2, <1>3 DEF IInv, ConnsFit, ReadersFit
<1>7. StreamsFit'
  <2> SUFFICES ASSUME NEW k \in Conns, k \notin torn
               PROVE  /\ Framed(Place(rd'[k]), wire'[k])
                      /\ link = "up" /\ k = cur /\ Sound(k)' =>
                            EndPlace(Place(rd'[k]), wire'[k]) = WriterPlace
    BY <1>1 DEF StreamsFit, WriterPlace
  <2>1. CASE k = c
    BY <2>1, <1>1, <1>2, <1>3 DEF Framed, Sound
  <2>2. CASE k # c
    BY <2>2, <1>1, <1>3 DEF IInv, StreamsFit, Sound
  <2> QED
    BY <2>1, <2>2
<1>8. ClocksFit'
  BY <1>1, <1>3 DEF IInv, ConnsFit, ClocksFit, Sound, Waiting
<1> QED
  BY <1>4, <1>5, <1>6, <1>7, <1>8 DEF IInv

\* A reader that fails keeps the invariant.
LEMMA StopReaderStep ==
    ASSUME IInv, NEW c \in Conns, WrongTag(c) \/ ReadError(c) \/ ReadTimeout(c)
    PROVE  IInv'
<1>1. StopReader(c) /\ UNCHANGED <<sender, canRead, got, silent, stuck, torn, faults>>
  BY DEF WrongTag, ReadError, ReadTimeout
<1> QED
  BY <1>1, StopReaderFacts

\* A reset of the receiving end that cuts a package marks the connection, one
\* between two packages changes nothing.
LEMMA ResetReceiverStep ==
    ASSUME IInv, NEW c \in Conns, ResetReceiver(c)
    PROVE  IInv'
<1>1. /\ rd[c].step # "none" /\ rd' = [rd EXCEPT ![c] = NewReader]
      /\ readTime' = [readTime EXCEPT ![c] = 0]
      /\ torn' = IF MidPackage(c) THEN torn \cup {c} ELSE torn
      /\ faults < MaxFaults /\ faults' = faults + 1
      /\ UNCHANGED <<out, made, cur, link, w, hbTime, writeTime, canRead, got,
                     alive, silent, stuck, wire>>
  BY DEF ResetReceiver, Fault, sender, network
<1>2. /\ NewReader \in ReaderState /\ NewReader.step = "prepare"
      /\ ReadSoFar(NewReader) /\ Place(NewReader) = Boundary
  BY DEF NewReader, ReaderState, ReadSoFar, Place
<1>3. /\ rd' \in [Conns -> ReaderState] /\ readTime' \in [Conns -> 0 .. Timeout]
      /\ \A k \in Conns : rd'[k] = IF k = c THEN NewReader ELSE rd[k]
      /\ \A k \in Conns : readTime'[k] = IF k = c THEN 0 ELSE readTime[k]
      /\ Timeout \in Nat \ {0}
  BY <1>1, <1>2, LinkAssumption DEF IInv, Types
<1>4. /\ torn \subseteq torn' /\ torn' \subseteq torn \cup {c} /\ torn' \subseteq Conns
      /\ c \notin torn' => Place(rd[c]) = Boundary
  BY <1>1 DEF IInv, TypeOK, MidPackage, Place
<1>5. TypeOK'
  <2>1. \A k \in Conns : rd'[k] \in ReaderState /\ readTime'[k] \in 0 .. Timeout
    BY <1>3
  <2>2. faults' \in 0 .. MaxFaults
    BY <1>1, LinkAssumption DEF IInv, TypeOK
  <2> QED
    BY <1>1, <1>4, <2>1, <2>2 DEF IInv, TypeOK, ReaderState
<1>6. Types' /\ WriterFits' /\ Intact'
  BY <1>1, <1>3 DEF IInv, Types, WriterFits, Intact
<1>7. ConnsFit'
  BY <1>1, <1>2, <1>3, <1>4 DEF IInv, ConnsFit
<1>8. ReadersFit'
  BY <1>2, <1>3, <1>4 DEF IInv, ReadersFit
<1>9. StreamsFit'
  <2>1. \A k \in Conns : k \notin torn' => Place(rd'[k]) = Place(rd[k])
    BY <1>2, <1>3, <1>4
  <2> QED
    BY <1>1, <1>4, <2>1 DEF IInv, StreamsFit, Sound, WriterPlace
<1>10. ClocksFit'
  <2> SUFFICES ASSUME link = "up", Sound(cur), Waiting(cur)', wire[cur] = <<>>
               PROVE  /\ readTime'[cur] < Timeout
                      /\ w.step = "prepare" /\ out = <<>> => readTime'[cur] <= hbTime
    BY <1>1 DEF ClocksFit, Sound
  <2>1. cur \in Conns /\ hbTime \in 0 .. Timeout /\ cur' = cur
    BY <1>1 DEF IInv, ConnsFit, TypeOK
  <2>2. CASE cur = c
    BY <2>1, <2>2, <1>3
  <2>3. CASE cur # c
    BY <2>1, <2>3, <1>3 DEF IInv, ClocksFit, Waiting
  <2> QED
    BY <2>2, <2>3
<1> QED
  BY <1>5, <1>6, <1>7, <1>8, <1>9, <1>10 DEF IInv

\* A connection that breaks loses the last pieces on the way, and nobody writes
\* to it any more.
LEMMA CutStep ==
    ASSUME IInv, NEW c \in Conns, Broken(c) \/ Silenced(c)
    PROVE  IInv'
<1>1. PICK n \in 0 .. Len(wire[c]) :
         /\ wire' = [wire EXCEPT ![c] = SubSeq(wire[c], 1, n)]
         /\ stuck' = stuck \/ (stuck' = Len(wire[c]) - n)
         /\ alive' \subseteq alive /\ \A k \in Conns : k # c => (k \in alive' <=> k \in alive)
         /\ (silent' = silent /\ c \notin alive') \/ (silent' = silent \cup {c} /\ c \in alive)
  <2>1. CASE Broken(c)
    <3>1. PICK n \in 0 .. Len(wire[c]) : Lose(c, n)
      BY <2>1 DEF Broken
    <3> QED
      BY <2>1, <3>1 DEF Broken, Lose
  <2>2. CASE Silenced(c)
    <3>1. PICK n \in 0 .. Len(wire[c]) : Lose(c, n) /\ stuck' = Len(wire[c]) - n
      BY <2>2 DEF Silenced
    <3> QED
      BY <2>2, <3>1 DEF Silenced, Lose, Sound
  <2> QED
    BY <2>1, <2>2
<1>2. /\ faults < MaxFaults /\ faults' = faults + 1
      /\ UNCHANGED <<out, made, cur, link, w, hbTime, writeTime, rd, readTime, canRead, got, torn>>
  BY DEF Broken, Silenced, Fault, sender, receiver
<1>3. wire \in [Conns -> Seq(AnyPiece)] /\ wire[c] \in Seq(AnyPiece) /\ Len(wire[c]) \in Nat
  BY DEF IInv, Types
<1> DEFINE t == SubSeq(wire[c], 1, n)
<1>4. /\ t \in Seq(AnyPiece) /\ Len(t) = n
      /\ c \notin torn => Framed(Place(rd[c]), t)
  <2>1. t \in Seq(AnyPiece) /\ Len(t) = n
    BY <1>3, PrefixFacts
  <2>2. c \notin torn => Framed(Place(rd[c]), wire[c])
    BY DEF IInv, StreamsFit
  <2> QED
    BY <1>3, <2>1, <2>2, FramedPrefix
<1> HIDE DEF t
<1>5. /\ wire' \in [Conns -> Seq(AnyPiece)]
      /\ \A k \in Conns : wire'[k] = IF k = c THEN t ELSE wire[k]
  BY <1>1, <1>3, <1>4 DEF t
<1>6. /\ Sound(c)' = FALSE
      /\ \A k \in Conns : k # c => Sound(k)' = Sound(k)
  BY <1>1 DEF Sound
<1>7. TypeOK'
  <2>1. \A k \in Conns : Len(wire[k]) <= Capacity
    BY DEF IInv, TypeOK
  <2>2. n \in Nat /\ n <= Len(wire[c]) /\ Capacity \in Nat
    BY <1>3, LinkAssumption
  <2>3. \A k \in Conns : Len(wire'[k]) <= Capacity
    <3> SUFFICES ASSUME NEW k \in Conns
                 PROVE  Len(wire'[k]) <= Capacity
      OBVIOUS
    <3>1. CASE k = c
      BY <1>3, <1>4, <1>5, <2>1, <2>2, <3>1
    <3>2. CASE k # c
      BY <1>5, <2>1, <3>2
    <3> QED
      BY <3>1, <3>2
  <2>4. stuck' \in 0 .. Capacity
    BY <1>1, <1>3, <2>1, <2>2 DEF IInv, TypeOK
  <2>5. faults' \in 0 .. MaxFaults
    BY <1>2, LinkAssumption DEF IInv, TypeOK
  <2>6. alive' \subseteq Conns /\ silent' \subseteq Conns
    BY <1>1 DEF IInv, TypeOK
  <2> QED
    BY <1>2, <2>3, <2>4, <2>5, <2>6 DEF IInv, TypeOK
<1>8. Types' /\ WriterFits' /\ ReadersFit' /\ Intact'
  BY <1>2, <1>5 DEF IInv, Types, WriterFits, ReadersFit, Intact
<1>9. ConnsFit'
  <2>1. ASSUME NEW k \in Conns, k > cur
        PROVE  wire'[k] = <<>>
    <3>1. wire[k] = <<>>
      BY <2>1 DEF IInv, ConnsFit
    <3>2. k = c => n = 0
      BY <3>1
    <3> QED
      BY <1>4, <1>5, <3>1, <3>2, EmptySeq
  <2> QED
    BY <1>1, <1>2, <2>1 DEF IInv, ConnsFit
<1>10. StreamsFit'
  <2> SUFFICES ASSUME NEW k \in Conns, k \notin torn
               PROVE  /\ Framed(Place(rd[k]), wire'[k])
                      /\ link = "up" /\ k = cur /\ Sound(k)' =>
                            EndPlace(Place(rd[k]), wire'[k]) = WriterPlace
    BY <1>2 DEF StreamsFit, WriterPlace
  <2>1. CASE k = c
    BY <2>1, <1>4, <1>5, <1>6
  <2>2. CASE k # c
    BY <2>2, <1>5, <1>6 DEF IInv, StreamsFit
  <2> QED
    BY <2>1, <2>2
<1>11. ClocksFit'
  <2> SUFFICES ASSUME link = "up", Sound(cur)', Waiting(cur), wire'[cur] = <<>>
               PROVE  /\ readTime[cur] < Timeout
                      /\ w.step = "prepare" /\ out = <<>> => readTime[cur] <= hbTime
    BY <1>2 DEF ClocksFit, Waiting
  <2>1. cur \in Conns /\ cur' = cur
    BY <1>2 DEF IInv, ConnsFit
  <2>2. cur # c /\ Sound(cur)
    BY <2>1, <1>1 DEF Sound
  <2> QED
    BY <2>1, <2>2, <1>5 DEF IInv, ClocksFit
<1> QED
  BY <1>7, <1>8, <1>9, <1>10, <1>11 DEF IInv

----------------------------------------------------------------------------
\* The invariant holds at first.
LEMMA IInvInit == Init => IInv
<1> SUFFICES ASSUME Init
             PROVE  IInv
  OBVIOUS
<1>1. /\ out = <<>> /\ made = 0 /\ cur = 0 /\ link = "retry"
      /\ w = NewWriter /\ hbTime = 0 /\ writeTime = 0
      /\ alive = {} /\ silent = {} /\ stuck = 0 /\ canRead = TRUE /\ got = <<>>
      /\ torn = {} /\ faults = 0
      /\ wire = [c \in Conns |-> <<>>]
      /\ rd = [c \in Conns |-> NoReader] /\ readTime = [c \in Conns |-> 0]
  BY DEF Init
<1>2. /\ NoReader \in ReaderState /\ NoReader.step = "none"
      /\ ReadSoFar(NoReader) /\ Place(NoReader) = Boundary
  <2>1. NewReader \in ReaderState
    BY DEF NewReader, ReaderState
  <2>2. NoReader \in ReaderState /\ NoReader.step = "none"
    BY <2>1 DEF NoReader, ReaderState
  <2> QED
    BY <2>2 DEF ReadSoFar, Place
<1>3. /\ <<>> \in Seq(AnyPiece) /\ 0 < Len(Pieces(Heartbeat))
      /\ w.step = "prepare" /\ w.off = 0 /\ w.m = Heartbeat
  BY <1>1, PiecesFacts DEF NewWriter
<1>4. TypeOK
  <2>1. \A c \in Conns : Len(wire[c]) <= Capacity /\ readTime[c] \in 0 .. Timeout
    <3> SUFFICES ASSUME NEW c \in Conns
                 PROVE  Len(wire[c]) <= Capacity /\ readTime[c] \in 0 .. Timeout
      OBVIOUS
    <3>1. wire[c] = <<>> /\ readTime[c] = 0
      BY <1>1
    <3> QED
      BY <3>1, LinkAssumption
  <2> QED
    BY <1>1, <1>2, <2>1, LinkAssumption DEF TypeOK, NewWriter
<1>5. Types
  <2>1. readTime \in [Conns -> 0 .. Timeout]
    BY <1>1, LinkAssumption
  <2>2. rd \in [Conns -> ReaderState] /\ wire \in [Conns -> Seq(AnyPiece)]
    BY <1>1, <1>2, <1>3
  <2> QED
    BY <1>1, <2>1, <2>2 DEF Types
<1>6. WriterFits /\ ConnsFit
  BY <1>1, <1>2, <1>3 DEF WriterFits, ConnsFit
<1>7. ReadersFit /\ ClocksFit /\ Intact
  BY <1>1, <1>2 DEF ReadersFit, ClocksFit, Intact
<1>8. StreamsFit
  BY <1>1, <1>2 DEF StreamsFit, Framed
<1> QED
  BY <1>4, <1>5, <1>6, <1>7, <1>8 DEF IInv

\* Every step keeps the invariant.
LEMMA IInvInductive == IInv /\ [Next]_vars => IInv'
<1> SUFFICES ASSUME IInv, [Next]_vars
             PROVE  IInv'
  OBVIOUS
<1>1. CASE WriterStep
  BY <1>1, ConnectStep, ExceedStep, PrepareStep, WriteStep, RetryStep DEF WriterStep
<1>2. CASE Tick
  BY <1>2, TickStep
<1>3. CASE SetCanRead
  BY <1>3, SetCanReadStep
<1>4. CASE \E m \in Msgs : SendMessage(m) \/ ResetSender(m)
  BY <1>4, SendMessageStep, ResetSenderStep
<1>5. CASE \E c \in Conns : ReaderStep(c) \/ ResetReceiver(c) \/ Broken(c) \/ Silenced(c)
  <2>1. PICK c \in Conns : ReaderStep(c) \/ ResetReceiver(c) \/ Broken(c) \/ Silenced(c)
    BY <1>5
  <2>2. CASE ReaderStep(c)
    BY <2>2, PrepareReadHeaderStep, ReadHeaderStep, ReadHeaderDataStep, ReadDataStep,
       StopReaderStep DEF ReaderStep
  <2> QED
    BY <2>1, <2>2, ResetReceiverStep, CutStep
<1>6. CASE UNCHANGED vars
  BY <1>6, StutterStep
<1> QED
  BY <1>1, <1>2, <1>3, <1>4, <1>5, <1>6 DEF Next

\* The invariant holds in every state of a link.
LEMMA Invariance == Spec => []IInv
BY IInvInit, IInvInductive, PTL DEF Spec

\* The link's state has its type (TypeOK): the writer stays within a package,
\* the sockets within their buffers, the timers within the timeout
\* (CTaskLinkRpcWriter::Run, CSocketReaderWriter).
THEOREM TypeCorrect == Spec => []TypeOK
<1>1. IInv => TypeOK
  BY DEF IInv
<1> QED
  BY <1>1, Invariance, PTL

\* A package that is reported is one package that was sent, all of it, as long
\* as no reset has cut a package on its connection (CTaskLinkRpcReader::Run).
THEOREM PackagesIntact == Spec => []Intact
<1>1. IInv => Intact
  BY DEF IInv
<1> QED
  BY <1>1, Invariance, PTL

\* The reader never gives up a connection that is sound and whose sending end
\* is there: heartbeats come in time (mReadTimer, mHearBeatTime).
THEOREM TimeoutsAreTrue == Spec => NoFalseTimeout
<1>1. IInv => TimeoutIsTrue
  <2> SUFFICES ASSUME IInv, NEW c \in Conns, ReadTimeout(c), link = "up", cur = c, Sound(c)
               PROVE  FALSE
    BY DEF TimeoutIsTrue
  <2>1. Waiting(cur) /\ wire[cur] = <<>> /\ readTime[cur] >= Timeout
    BY DEF ReadTimeout
  <2>2. readTime[cur] < Timeout /\ readTime[cur] \in 0 .. Timeout /\ Timeout \in Nat
    BY <2>1, LinkAssumption DEF IInv, ClocksFit, TypeOK
  <2> QED
    BY <2>1, <2>2
<1> QED
  BY <1>1, Invariance, PTL DEF NoFalseTimeout

=============================================================================
