--------------------------- MODULE SequenceLemmas ---------------------------
(***************************************************************************)
(* What the operations of the models on sequences leave, as facts about the *)
(* length and the elements of the result.  The proof modules share them.    *)
(***************************************************************************)
EXTENDS Integers, SequencesExt, SequenceTheorems, TLAPS

\* What removing one element of a sequence leaves: DelElem on the table.
LEMMA RemoveAtFacts ==
    ASSUME NEW S, NEW s \in Seq(S), NEW i \in 1 .. Len(s)
    PROVE  /\ RemoveAt(s, i) \in Seq(S)
           /\ Len(RemoveAt(s, i)) = Len(s) - 1
           /\ \A j \in 1 .. Len(s) - 1 :
                RemoveAt(s, i)[j] = IF j < i THEN s[j] ELSE s[j + 1]
<1> DEFINE a == SubSeq(s, 1, i - 1)
           b == SubSeq(s, i + 1, Len(s))
<1>0. Len(s) \in Nat
  OBVIOUS
<1>1. RemoveAt(s, i) = a \o b
  BY DEF RemoveAt
<1>2. a \in Seq(S) /\ Len(a) = i - 1 /\ \A j \in 1 .. i - 1 : a[j] = s[j]
  <2>1. i - 1 \in 0 .. Len(s) /\ 1 \in 1 .. Len(s) + 1
    OBVIOUS
  <2>2. \A j \in 1 .. i - 1 : s[j] \in S
    OBVIOUS
  <2> QED
    BY <2>1, <2>2, SubSeqProperties
<1>3. /\ b \in Seq(S)
      /\ Len(b) = Len(s) - i
      /\ \A j \in 1 .. Len(s) - i : b[j] = s[j + i]
  <2>1. i + 1 \in 1 .. Len(s) + 1 /\ Len(s) \in i .. Len(s)
    OBVIOUS
  <2> QED
    BY <2>1, SubSeqProperties
<1> HIDE DEF a, b
<1>4. a \o b \in Seq(S) /\ Len(a \o b) = Len(s) - 1
  <2>1. a \o b \in Seq(S) /\ Len(a \o b) = Len(a) + Len(b)
    BY <1>2, <1>3, ConcatProperties, Zenon
  <2> QED
    BY <2>1, <1>0, <1>2, <1>3
<1>5. ASSUME NEW j \in 1 .. Len(s) - 1
      PROVE  (a \o b)[j] = IF j < i THEN s[j] ELSE s[j + 1]
  <2>1. CASE j < i
    BY <2>1, <1>2, <1>3, ConcatProperties
  <2>2. CASE j >= i
    <3>1. (a \o b)[j] = b[j - (i - 1)]
      BY <2>2, <1>2, <1>3, ConcatProperties
    <3>2. j - (i - 1) \in 1 .. Len(s) - i
      BY <2>2
    <3> QED
      BY <3>1, <3>2, <2>2, <1>3
  <2> QED
    <3>1. j < i \/ j >= i
      OBVIOUS
    <3> QED
      BY <2>1, <2>2, <3>1, Zenon
<1> QED
  BY <1>1, <1>4, <1>5

\* What replacing the last element of a sequence changes: a pass's own frame.
LEMMA SetLastFacts ==
    ASSUME NEW S, NEW s \in Seq(S), s # <<>>, NEW x \in S
    PROVE  /\ [s EXCEPT ![Len(s)] = x] \in Seq(S)
           /\ Len([s EXCEPT ![Len(s)] = x]) = Len(s)
           /\ \A j \in 1 .. Len(s) :
                [s EXCEPT ![Len(s)] = x][j] = IF j = Len(s) THEN x ELSE s[j]
<1>1. Len(s) \in 1 .. Len(s)
  OBVIOUS
<1> QED
  BY <1>1, ExceptSeq

\* The first m elements of a sequence.
LEMMA PrefixFacts ==
    ASSUME NEW S, NEW s \in Seq(S), NEW m \in 0 .. Len(s)
    PROVE  /\ SubSeq(s, 1, m) \in Seq(S)
           /\ Len(SubSeq(s, 1, m)) = m
           /\ \A k \in 1 .. m : SubSeq(s, 1, m)[k] = s[k]
<1>1. Len(s) \in Nat /\ m \in Nat /\ m <= Len(s)
  OBVIOUS
<1>2. \A k \in 1 .. m : s[k] \in S
  BY <1>1
<1>3. /\ SubSeq(s, 1, m) \in Seq(S)
      /\ Len(SubSeq(s, 1, m)) = IF 1 <= m THEN m - 1 + 1 ELSE 0
      /\ \A k \in 1 .. m - 1 + 1 : SubSeq(s, 1, m)[k] = s[1 + k - 1]
  BY <1>1, <1>2, SubSeqProperties
<1>4. m - 1 + 1 = m /\ \A k \in 1 .. m : 1 + k - 1 = k
  BY <1>1
<1>5. Len(SubSeq(s, 1, m)) = m
  BY <1>1, <1>3
<1> QED
  BY <1>3, <1>4, <1>5

\* Appending to a sequence of one or of two elements.
LEMMA AppendFacts ==
    ASSUME NEW S, NEW h \in S, NEW g \in S, NEW d \in S
    PROVE  Append(<<h>>, g) = <<h, g>> /\ Append(<<h, g>>, d) = <<h, g, d>>
<1>1. Append(<<h>>, g) = <<h, g>>
  <2>1. <<h>> \in Seq(S) /\ <<h, g>> \in Seq(S) /\ Append(<<h>>, g) \in Seq(S)
    OBVIOUS
  <2>2. /\ Len(Append(<<h>>, g)) = 2
        /\ Append(<<h>>, g)[1] = h /\ Append(<<h>>, g)[2] = g
    BY <2>1, AppendProperties
  <2>3. \A i \in 1 .. 2 : Append(<<h>>, g)[i] = <<h, g>>[i]
    BY <2>2
  <2> QED
    BY <2>1, <2>2, <2>3, SeqEqual
<1>2. Append(<<h, g>>, d) = <<h, g, d>>
  <2>1. <<h, g>> \in Seq(S) /\ <<h, g, d>> \in Seq(S) /\ Append(<<h, g>>, d) \in Seq(S)
    OBVIOUS
  <2>2. /\ Len(Append(<<h, g>>, d)) = 3
        /\ Append(<<h, g>>, d)[1] = h /\ Append(<<h, g>>, d)[2] = g
        /\ Append(<<h, g>>, d)[3] = d
    BY <2>1, AppendProperties
  <2>3. \A i \in 1 .. 3 : Append(<<h, g>>, d)[i] = <<h, g, d>>[i]
    BY <2>2
  <2> QED
    BY <2>1, <2>2, <2>3, SeqEqual
<1> QED
  BY <1>1, <1>2

\* A sequence is a prefix of itself and of what appending to it leaves.
LEMMA IsPrefixFacts ==
    ASSUME NEW S, NEW s \in Seq(S), NEW x \in S
    PROVE  IsPrefix(s, s) /\ IsPrefix(s, Append(s, x))
<1> DEFINE t == Append(s, x)
<1>1. /\ Len(s) \in Nat /\ t \in Seq(S) /\ Len(t) = Len(s) + 1
      /\ \A i \in 1 .. Len(s) : t[i] = s[i]
  BY AppendProperties
<1>2. Len(s) \in 0 .. Len(t) /\ Len(s) \in 0 .. Len(s)
  BY <1>1
<1>3. /\ SubSeq(s, 1, Len(s)) \in Seq(S) /\ Len(SubSeq(s, 1, Len(s))) = Len(s)
      /\ \A k \in 1 .. Len(s) : SubSeq(s, 1, Len(s))[k] = s[k]
  BY <1>2, PrefixFacts
<1> HIDE DEF t
<1>4. /\ SubSeq(t, 1, Len(s)) \in Seq(S) /\ Len(SubSeq(t, 1, Len(s))) = Len(s)
      /\ \A k \in 1 .. Len(s) : SubSeq(t, 1, Len(s))[k] = t[k]
  BY <1>1, <1>2, PrefixFacts
<1>5. SubSeq(s, 1, Len(s)) = SubSeq(t, 1, Len(s))
  BY <1>1, <1>3, <1>4, SeqEqual
<1>6. Len(s) <= Len(t) /\ Len(s) <= Len(s)
  BY <1>1
<1> QED
  BY <1>5, <1>6 DEF IsPrefix, t

\* Elements that pass from one sequence to the next are neither lost nor
\* reordered: a file, a buffer and what is on the way to it.
LEMMA MoveFacts ==
    ASSUME NEW S, NEW s \in Seq(S), NEW b \in Seq(S), NEW u \in Seq(S), NEW x \in S
    PROVE  /\ s \o b \in Seq(S)
           /\ (s \o b) \o Append(u, x) = Append((s \o b) \o u, x)
           /\ ((s \o b) \o <<>>) \o u = (s \o b) \o u
           /\ (s \o b) \o <<>> = s \o b
           /\ (<<>> \o <<>>) \o u = u
<1> DEFINE f == s \o b
<1>1. f \in Seq(S) /\ <<>> \in Seq(S) /\ <<x>> \in Seq(S)
  BY ConcatProperties
<1> HIDE DEF f
<1>2. f \o Append(u, x) = Append(f \o u, x)
  <2>1. f \o u \in Seq(S) /\ Append(u, x) = u \o <<x>>
    BY <1>1, ConcatProperties, AppendIsConcat
  <2>2. Append(f \o u, x) = (f \o u) \o <<x>>
    BY <2>1, AppendIsConcat
  <2> QED
    BY <1>1, <2>1, <2>2, ConcatAssociative
<1>3. f \o <<>> = f /\ <<>> \o <<>> = <<>> /\ <<>> \o u = u
  BY <1>1, ConcatEmptySeq
<1> QED
  BY <1>1, <1>2, <1>3 DEF f

\* The first element passes on.
LEMMA HeadMoves ==
    ASSUME NEW S, NEW f \in Seq(S), NEW u \in Seq(S), u # <<>>,
           NEW h \in Seq(S), NEW t \in Seq(S), h = <<Head(u)>>, t = Tail(u)
    PROVE  (f \o h) \o t = f \o u
<1>1. Len(h) = 1 /\ h[1] = u[1]
  BY HeadTailProperties
<1>2. Len(t) = Len(u) - 1 /\ \A i \in 1 .. Len(t) : t[i] = u[i + 1]
  BY HeadTailProperties
<1>3. Len(u) \in Nat /\ Len(u) > 0
  BY EmptySeq
<1>4. h \o t \in Seq(S) /\ Len(h \o t) = Len(u)
  BY <1>1, <1>2, <1>3, ConcatProperties
<1>5. ASSUME NEW i \in 1 .. Len(u)
      PROVE  (h \o t)[i] = u[i]
  <2>1. (h \o t)[i] = IF i <= 1 THEN h[i] ELSE t[i - 1]
    BY <1>1, <1>2, <1>3, ConcatProperties
  <2>2. CASE i = 1
    BY <1>1, <2>1, <2>2
  <2>3. CASE i # 1
    <3>1. i - 1 \in 1 .. Len(t) /\ (i - 1) + 1 = i /\ ~(i <= 1)
      BY <1>2, <1>3, <2>3
    <3> QED
      BY <1>2, <2>1, <3>1
  <2> QED
    BY <2>2, <2>3
<1>6. h \o t = u
  BY <1>4, <1>5, SeqEqual
<1>7. (f \o h) \o t = f \o (h \o t)
  BY ConcatAssociative
<1> QED
  BY <1>6, <1>7

=============================================================================
