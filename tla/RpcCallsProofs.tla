--------------------------- MODULE RpcCallsProofs ---------------------------
(***************************************************************************)
(* Proofs about the remote calls of a client (RpcCalls.tla) for every       *)
(* number of calls, buckets and restarts, every hash, every limit of the map *)
(* and every timeout.  The heart of the inductive invariant is that an       *)
(* element of a chain is an open call of this life that sits in the bucket   *)
(* of its id, and that the chains are in the order of the calls: that is why *)
(* no callback is in the map twice and why it leaves with its last event.    *)
(***************************************************************************)
EXTENDS RpcCalls, SequenceLemmas, FiniteSetTheorems

\* The elements of a sequence of calls ascend; so there are no more of them
\* than calls.
Ascending(q) ==
    /\ \A i \in 1 .. Len(q) : i <= q[i]
    /\ \A i, j \in 1 .. Len(q) : i < j => q[i] < q[j]

\* The calls of this life that were registered and have not ended.
Open == {c \in Calls : born[c] = life /\ id[c] # 0 /\ ~Ended(c)}

\* Calls are made in order, and the ids of a life are given out in order.
IdsFollow ==
    /\ \A c, d \in Calls : d < c /\ born[c] # 0 => born[d] # 0
    /\ \A c \in Calls : born[c] = 0 => unique < c /\ id[c] = 0 /\ events[c] = <<>>
    /\ \A c \in Calls : born[c] <= life /\ (born[c] = life => id[c] <= unique)

\* No two calls of one life have the same id.
IdsUnique ==
    \A c, d \in Calls : born[c] = born[d] /\ id[c] = id[d] /\ id[c] # 0 => c = d

ChainsOpen ==
    \A b \in 1 .. Buckets :
        /\ Ascending(chain[b])
        /\ \A c \in ToSet(chain[b]) : c \in Open /\ Hash[id[c]] = b

\* A closure is run with answers to calls that have its own id.
EventsOwn ==
    \A c \in Calls : \A i \in 1 .. Len(events[c]) :
        LET k == events[c][i][2]
        IN k # Nobody => id[k] = id[c] /\ id[c] # 0

Counted == size = Cardinality(Open)

IInv ==
    /\ TypeOK
    /\ IdsFollow
    /\ IdsUnique
    /\ ChainsOpen
    /\ EventsOwn
    /\ EndsOnce
    /\ Counted

----------------------------------------------------------------------------
\* A set of naturals that is not empty has its minimum.
LEMMA MinFacts ==
    ASSUME NEW B \in SUBSET Nat, B # {}
    PROVE  Min(B) \in B /\ \A y \in B : Min(B) <= y
<1> DEFINE R == OpToRel(<, Nat)
<1>1. PICK x \in B : \A y \in B : ~(<<y, x>> \in R)
  BY NatLessThanWellFounded, WFMin, Zenon
<1>2. R = {p \in Nat \X Nat : p[1] < p[2]}
  BY Zenon DEF OpToRel
<1> HIDE DEF R
<1>3. ASSUME NEW y \in B PROVE x <= y
  <2>1. x \in Nat /\ y \in Nat
    OBVIOUS
  <2>2. <<y, x>> \in Nat \X Nat /\ <<y, x>>[1] = y /\ <<y, x>>[2] = x
    BY <2>1
  <2>3. ~(y < x)
    BY <1>1, <1>2, <2>2, Zenon
  <2> QED
    BY <2>1, <2>3
<1> QED
  BY <1>3 DEF Min

\* The types of a chain and of its elements.
LEMMA CallSeq ==
    ASSUME NEW q \in Seq(Calls)
    PROVE  /\ Len(q) \in Nat
           /\ \A j \in 1 .. Len(q) : q[j] \in Calls /\ q[j] \in Nat
           /\ \A e : e \in ToSet(q) <=> \E j \in 1 .. Len(q) : q[j] = e
<1>1. Len(q) \in Nat /\ \A j \in 1 .. Len(q) : q[j] \in Calls
  OBVIOUS
<1>2. Calls \subseteq Nat
  BY DEF Calls
<1>3. \A e : e \in ToSet(q) <=> \E j \in 1 .. Len(q) : q[j] = e
  BY DEF ToSet
<1> QED
  BY <1>1, <1>2, <1>3

\* The elements of a sequence after an element was appended.
LEMMA AppendToSet ==
    ASSUME NEW S, NEW q \in Seq(S), NEW x \in S
    PROVE  ToSet(Append(q, x)) = ToSet(q) \cup {x}
<1>1. /\ Append(q, x) \in Seq(S)
      /\ Len(Append(q, x)) = Len(q) + 1
      /\ \A i \in 1 .. Len(q) : Append(q, x)[i] = q[i]
      /\ Append(q, x)[Len(q) + 1] = x
      /\ Len(q) \in Nat
  BY AppendProperties
<1>2. \A s \in Seq(S) : \A e : e \in ToSet(s) <=> \E i \in 1 .. Len(s) : s[i] = e
  BY DEF ToSet
<1>3. ASSUME NEW e \in ToSet(Append(q, x)) PROVE e \in ToSet(q) \cup {x}
  <2>1. PICK i \in 1 .. Len(q) + 1 : Append(q, x)[i] = e
    BY <1>1, <1>2
  <2>2. i \in 1 .. Len(q) \/ i = Len(q) + 1
    BY <1>1
  <2> QED
    BY <1>1, <1>2, <2>1, <2>2
<1>4. ASSUME NEW e \in ToSet(q) PROVE e \in ToSet(Append(q, x))
  <2>1. PICK i \in 1 .. Len(q) : q[i] = e
    BY <1>2
  <2>2. i \in 1 .. Len(q) + 1
    BY <1>1
  <2> QED
    BY <1>1, <1>2, <2>1, <2>2
<1>5. x \in ToSet(Append(q, x))
  <2>1. Len(q) + 1 \in 1 .. Len(q) + 1
    BY <1>1
  <2> QED
    BY <1>1, <1>2, <2>1
<1> QED
  BY <1>3, <1>4, <1>5

\* A later call goes to the end of a chain.
LEMMA AppendAscending ==
    ASSUME NEW q \in Seq(Calls), Ascending(q), NEW c \in Calls,
           \A d \in ToSet(q) : d < c
    PROVE  Ascending(Append(q, c))
<1> DEFINE r == Append(q, c)
<1>1. /\ Len(r) = Len(q) + 1 /\ Len(q) \in Nat
      /\ \A i \in 1 .. Len(q) : r[i] = q[i] /\ q[i] \in Nat
      /\ r[Len(q) + 1] = c /\ c \in Nat /\ c >= 1
  BY AppendProperties, MaxCallsAssumption DEF Calls
<1>2. \A i \in 1 .. Len(q) : q[i] < c
  BY DEF ToSet
<1>3. Len(q) + 1 <= c
  BY <1>1, <1>2 DEF Ascending
<1> HIDE DEF r
<1> QED
  BY <1>1, <1>2, <1>3 DEF Ascending

----------------------------------------------------------------------------
\* What is left of an ascending chain when one callback is removed.
LEMMA RemoveAscending ==
    ASSUME NEW q \in Seq(Calls), Ascending(q), NEW i \in 1 .. Len(q)
    PROVE  LET r == RemoveAt(q, i)
           IN /\ r \in Seq(Calls)
              /\ Ascending(r)
              /\ Len(r) = Len(q) - 1
              /\ ToSet(r) = ToSet(q) \ {q[i]}
<1> DEFINE r == RemoveAt(q, i)
<1>1. /\ r \in Seq(Calls)
      /\ Len(r) = Len(q) - 1
      /\ \A j \in 1 .. Len(q) - 1 : r[j] = IF j < i THEN q[j] ELSE q[j + 1]
  BY RemoveAtFacts
<1>2. Len(q) \in Nat /\ \A j \in 1 .. Len(q) : q[j] \in Nat
  BY CallSeq
<1>3. \A s \in Seq(Calls) : \A e : e \in ToSet(s) <=> \E j \in 1 .. Len(s) : s[j] = e
  BY CallSeq
<1> HIDE DEF r
<1>a. \A j \in 1 .. Len(q) - 1 :
          \E k \in 1 .. Len(q) : r[j] = q[k] /\ k = IF j < i THEN j ELSE j + 1
  BY <1>1, <1>2
<1>4. Ascending(r)
  <2>1. \A j \in 1 .. Len(q) - 1 : j <= r[j]
    BY <1>a, <1>2 DEF Ascending
  <2>2. ASSUME NEW j \in 1 .. Len(q) - 1, NEW k \in 1 .. Len(q) - 1, j < k
        PROVE  r[j] < r[k]
    BY <2>2, <1>a, <1>2 DEF Ascending
  <2> QED
    BY <2>1, <2>2, <1>1 DEF Ascending
<1>5. ASSUME NEW e \in ToSet(r) PROVE e \in ToSet(q) /\ e # q[i]
  <2>1. PICK j \in 1 .. Len(q) - 1 : r[j] = e
    BY <1>1, <1>3
  <2>2. PICK k \in 1 .. Len(q) : e = q[k] /\ k # i
    BY <2>1, <1>a, <1>2
  <2>3. q[k] # q[i]
    BY <2>2, <1>2 DEF Ascending
  <2> QED
    BY <2>2, <2>3, <1>3
<1>6. ASSUME NEW e \in ToSet(q), e # q[i] PROVE e \in ToSet(r)
  <2>1. PICK j \in 1 .. Len(q) : q[j] = e
    BY <1>3
  <2>2. CASE j < i
    BY <2>1, <2>2, <1>1, <1>2, <1>3
  <2>3. CASE j > i
    <3>1. j - 1 \in 1 .. Len(q) - 1 /\ ~(j - 1 < i) /\ (j - 1) + 1 = j
      BY <2>3, <1>2
    <3> QED
      BY <2>1, <3>1, <1>1, <1>3
  <2> QED
    BY <1>6, <2>1, <2>2, <2>3
<1> QED
  BY <1>1, <1>4, <1>5, <1>6 DEF r

\* The same for Unlink: behind the last callback of the walk, what was
\* appended meanwhile goes with it.
LEMMA UnlinkFacts ==
    ASSUME NEW q \in Seq(Calls), Ascending(q), NEW n \in 1 .. Len(q), NEW i \in 1 .. n
    PROVE  LET r == Unlink(q, n, i)
           IN /\ r \in Seq(Calls)
              /\ Ascending(r)
              /\ Len(r) >= n - 1
              /\ ToSet(r) \subseteq ToSet(q) \ {q[i]}
              /\ i # n => ToSet(r) = ToSet(q) \ {q[i]}
              /\ \A j \in 1 .. n : j # i => q[j] \in ToSet(r)
<1> DEFINE r == Unlink(q, n, i)
<1>1. Len(q) \in Nat /\ n \in Nat /\ i \in 1 .. Len(q) /\ i - 1 \in 0 .. Len(q)
      /\ \A j \in 1 .. Len(q) : q[j] \in Nat
  BY CallSeq
<1>2. \A s \in Seq(Calls) : \A e : e \in ToSet(s) <=> \E j \in 1 .. Len(s) : s[j] = e
  BY CallSeq
<1>3. CASE i # n
  <2>1. r = RemoveAt(q, i)
    BY <1>3 DEF Unlink
  <2>2. /\ r \in Seq(Calls)
        /\ Ascending(r)
        /\ Len(r) = Len(q) - 1
        /\ ToSet(r) = ToSet(q) \ {q[i]}
    BY <1>1, <2>1, RemoveAscending
  <2> HIDE DEF r
  <2>3. \A j \in 1 .. n : j # i => q[j] \in ToSet(q) /\ q[j] # q[i]
    BY <1>1, <1>2 DEF Ascending
  <2> QED
    BY <1>1, <1>3, <2>2, <2>3 DEF r
<1>4. CASE i = n
  <2>1. r = SubSeq(q, 1, i - 1)
    BY <1>4 DEF Unlink
  <2>2. /\ r \in Seq(Calls)
        /\ Len(r) = i - 1
        /\ \A k \in 1 .. i - 1 : r[k] = q[k]
    BY <1>1, <2>1, PrefixFacts
  <2> HIDE DEF r
  <2>3. Ascending(r)
    <3>1. \A j \in 1 .. i - 1 : j \in 1 .. Len(q)
      BY <1>1
    <3> QED
      BY <3>1, <1>1, <2>2 DEF Ascending
  <2>4. ToSet(r) \subseteq ToSet(q) \ {q[i]}
    BY <1>1, <1>2, <2>2 DEF Ascending
  <2>5. \A j \in 1 .. n : j # i => q[j] \in ToSet(r)
    BY <1>1, <1>2, <1>4, <2>2
  <2> QED
    BY <1>1, <1>4, <2>2, <2>3, <2>4, <2>5 DEF r
<1> QED
  BY <1>3, <1>4


----------------------------------------------------------------------------
\* The types of what the functions hold.
LEMMA Types ==
    ASSUME TypeOK
    PROVE  /\ MaxId \in Nat /\ unique \in Nat /\ life \in Nat \ {0}
           /\ \A b \in 1 .. Buckets : chain[b] \in Seq(Calls)
           /\ \A c \in Calls : /\ c \in Nat /\ c >= 1 /\ c <= MaxId
                              /\ id[c] \in Nat /\ born[c] \in Nat
                              /\ events[c] \in Seq(Event)
BY MaxCallsAssumption, BoundsAssumption DEF TypeOK, Calls, MaxId

\* The registered calls are those of the chains.
LEMMA RegisteredElems ==
    \A c : c \in Registered <=> \E b \in 1 .. Buckets : c \in ToSet(chain[b])
BY DEF Registered

\* What is registered is open; what is open is registered or forgotten.
LEMMA RegisteredOpen ==
    ASSUME ChainsOpen
    PROVE  Registered \subseteq Open /\ Forgotten = Open \ Registered
<1>1. Registered \subseteq Open
  BY RegisteredElems DEF ChainsOpen
<1> QED
  BY <1>1 DEF Forgotten, Open

\* There are finitely many calls, and so finitely many that are open.
LEMMA OpenFinite == IsFiniteSet(Open) /\ IsFiniteSet(Calls)
<1>1. IsFiniteSet(1 .. MaxCalls)
  BY MaxCallsAssumption, FS_Interval
<1>2. Open \in SUBSET Calls
  BY DEF Open
<1> QED
  BY <1>1, <1>2, FS_Subset, Zenon DEF Calls

\* The new call of a step: it gets an id that no call of this life has, and
\* goes behind the older calls of one chain.
LEMMA NewCallFacts ==
    ASSUME IInv, NEW c \in Calls, NewCall(c), life' = life
    PROVE  /\ unique' \in 0 .. MaxId
           /\ id' \in [Calls -> 0 .. MaxId] /\ born' \in [Calls -> 0 .. MaxLives]
           /\ born[c] = 0 /\ born'[c] = life
           /\ IsCallbackMapFull => id'[c] = 0
           /\ ~IsCallbackMapFull => id'[c] # 0 /\ id'[c] = unique + 1
           /\ \A d \in Calls : d # c => id'[d] = id[d] /\ born'[d] = born[d]
           /\ \A d, e \in Calls : e < d /\ born'[d] # 0 => born'[e] # 0
           /\ \A d \in Calls : born'[d] = 0 => unique' < d /\ id'[d] = 0
           /\ \A d \in Calls : born'[d] <= life /\ (born'[d] = life => id'[d] <= unique')
           /\ IdsUnique'
<1>1. /\ MaxId \in Nat /\ unique \in Nat /\ life \in Nat \ {0} /\ c \in Nat
      /\ unique < c /\ c <= MaxId /\ MaxId = MaxCalls
      /\ \A d \in Calls : d \in Nat /\ id[d] \in Nat /\ born[d] \in Nat
  BY Types DEF IInv, IdsFollow, NewCall, MaxId
<1>2. /\ born[c] = 0 /\ born' = [born EXCEPT ![c] = life]
      /\ unique' = IF IsCallbackMapFull THEN unique ELSE unique + 1
      /\ id' = [id EXCEPT ![c] = IF IsCallbackMapFull THEN 0 ELSE unique + 1]
      /\ \A d \in 1 .. (c - 1) : born[d] # 0
  BY DEF NewCall, AllocUniqueId
<1>3. /\ id \in [Calls -> 0 .. MaxId] /\ born \in [Calls -> 0 .. MaxLives]
      /\ life \in 1 .. MaxLives
  BY DEF IInv, TypeOK
<1>4. /\ unique' \in 0 .. MaxId /\ unique' \in Nat /\ unique <= unique' /\ unique' <= unique + 1
      /\ id' \in [Calls -> 0 .. MaxId]
      /\ born' \in [Calls -> 0 .. MaxLives]
  BY <1>1, <1>2, <1>3
<1>5. /\ born'[c] = life
      /\ IsCallbackMapFull => id'[c] = 0
      /\ ~IsCallbackMapFull => id'[c] = unique + 1 /\ unique' = unique + 1
      /\ \A d \in Calls : d # c => id'[d] = id[d] /\ born'[d] = born[d]
  BY <1>2, <1>3
<1>6. \A d \in Calls : d < c => born[d] # 0
  BY <1>1, <1>2 DEF Calls
<1>7. \A d \in Calls : d # c /\ born[d] = 0 => c < d
  BY <1>1, <1>6
<1>8. \A d, e \in Calls : e < d /\ born'[d] # 0 => born'[e] # 0
  BY <1>1, <1>5, <1>6, <1>7 DEF IInv, IdsFollow
<1>9. \A d \in Calls : born'[d] = 0 => unique' < d /\ id'[d] = 0
  BY <1>1, <1>4, <1>5, <1>7 DEF IInv, IdsFollow
<1>10. \A d \in Calls : born'[d] <= life /\ (born'[d] = life => id'[d] <= unique')
  BY <1>1, <1>4, <1>5 DEF IInv, IdsFollow
<1>11. IdsUnique'
  <2> SUFFICES ASSUME NEW d \in Calls, NEW e \in Calls, d # e,
                      born'[d] = born'[e], id'[d] = id'[e], id'[d] # 0
               PROVE  FALSE
    BY DEF IdsUnique
  <2>1. \A f \in Calls : f # c /\ born'[f] = life => id'[f] # unique + 1
    BY <1>1, <1>5 DEF IInv, IdsFollow
  <2>2. d # c /\ e # c
    BY <2>1, <1>5
  <2> QED
    BY <2>2, <1>5 DEF IInv, IdsUnique
<1> QED
  BY <1>1, <1>2, <1>4, <1>5, <1>8, <1>9, <1>10, <1>11

\* The chains with the callback of the new call.
LEMMA ChainWithFacts ==
    ASSUME IInv, NEW c \in Calls, NewCall(c), life' = life
    PROVE  LET C == ChainWith(c)
           IN /\ C \in [1 .. Buckets -> Seq(Calls)]
              /\ \A b \in 1 .. Buckets :
                    /\ Ascending(C[b])
                    /\ Len(C[b]) >= Len(chain[b])
                    /\ \A i \in 1 .. Len(chain[b]) : C[b][i] = chain[b][i]
                    /\ ToSet(C[b]) = ToSet(chain[b]) \cup
                        (IF ~IsCallbackMapFull /\ Hash[id'[c]] = b THEN {c} ELSE {})
<1>1. \A b \in 1 .. Buckets : /\ chain[b] \in Seq(Calls) /\ Len(chain[b]) \in Nat
                             /\ Ascending(chain[b])
  BY Types DEF IInv, ChainsOpen
<1>2. chain \in [1 .. Buckets -> Seq(Calls)]
  BY DEF IInv, TypeOK
<1>3. CASE IsCallbackMapFull
  BY <1>1, <1>2, <1>3 DEF ChainWith
<1>4. CASE ~IsCallbackMapFull
  <2> DEFINE a == Hash[id'[c]]
             r == Append(chain[a], c)
  <2>1. id'[c] = unique + 1 /\ id'[c] \in 1 .. MaxId /\ a \in 1 .. Buckets
    <3>1. id'[c] = unique + 1 /\ id'[c] # 0 /\ id'[c] \in 0 .. MaxId /\ MaxId \in Nat
      BY <1>4, NewCallFacts, Types DEF IInv
    <3> QED
      BY <3>1, HashAssumption
  <2>2. ChainWith(c) = [chain EXCEPT ![a] = r]
    BY <1>4, <2>1 DEF ChainWith, AllocUniqueId
  <2>3. \A d \in ToSet(chain[a]) : d \in Calls /\ d < c
    <3> SUFFICES ASSUME NEW d \in ToSet(chain[a]) PROVE d \in Calls /\ d < c
      OBVIOUS
    <3>1. d \in Calls /\ born[d] # 0
      BY <2>1, Types DEF IInv, ChainsOpen, Open
    <3>2. c \in Nat /\ d \in Nat /\ born[c] = 0
      BY <3>1, Types, NewCallFacts DEF IInv
    <3>3. ~(c < d) /\ c # d
      BY <3>1, <3>2 DEF IInv, IdsFollow
    <3> QED
      BY <3>1, <3>2, <3>3
  <2>4. /\ r \in Seq(Calls)
        /\ Len(r) = Len(chain[a]) + 1
        /\ \A i \in 1 .. Len(chain[a]) : r[i] = chain[a][i]
    BY <1>1, <2>1, AppendProperties
  <2>5. ToSet(r) = ToSet(chain[a]) \cup {c}
    BY <1>1, <2>1, AppendToSet
  <2>6. Ascending(r)
    BY <1>1, <2>1, <2>3, AppendAscending
  <2> HIDE DEF a, r
  <2>7. \A b \in 1 .. Buckets : ChainWith(c)[b] = IF b = a THEN r ELSE chain[b]
    BY <1>2, <2>1, <2>2
  <2>8. ChainWith(c) \in [1 .. Buckets -> Seq(Calls)]
    BY <1>2, <2>1, <2>2, <2>4
  <2>9. \A b \in 1 .. Buckets :
          /\ Ascending(ChainWith(c)[b])
          /\ Len(ChainWith(c)[b]) >= Len(chain[b])
          /\ \A i \in 1 .. Len(chain[b]) : ChainWith(c)[b][i] = chain[b][i]
    BY <1>1, <2>4, <2>6, <2>7
  <2>10. \A b \in 1 .. Buckets :
          ToSet(ChainWith(c)[b]) = ToSet(chain[b]) \cup (IF a = b THEN {c} ELSE {})
    BY <2>5, <2>7
  <2> QED
    BY <1>4, <2>8, <2>9, <2>10 DEF a
<1> QED
  BY <1>3, <1>4

----------------------------------------------------------------------------
\* The closure of an open call is run, with the answer to a call of the same
\* id or with nobody's.
LEMMA EventFacts ==
    ASSUME IInv, NEW c \in Open, NEW k \in Calls \cup {0}, k # 0 => id[k] = id[c],
           NEW tag \in {"PART_OK", "OK", "E_TIMEOUT"},
           events' = [events EXCEPT ![c] = Append(@, <<tag, k>>)],
           \A d \in Calls : id[d] # 0 => id'[d] = id[d]
    PROVE  /\ events' \in [Calls -> Seq(Event)]
           /\ EventsOwn' /\ EndsOnce'
           /\ \A d \in Calls : d # c => events'[d] = events[d] /\ (Ended(d)' <=> Ended(d))
           /\ Ended(c)' <=> tag # "PART_OK"
<1>1. /\ events \in [Calls -> Seq(Event)]
      /\ c \in Calls /\ id[c] # 0 /\ ~Ended(c)
  BY DEF IInv, TypeOK, Open
<1> DEFINE e == <<tag, k>>
           q == events[c]
           r == Append(q, e)
<1>2. e \in Event /\ e[1] = tag /\ e[2] = k
  BY DEF Event
<1> HIDE DEF e
<1>3. /\ r \in Seq(Event) /\ Len(r) = Len(q) + 1 /\ Len(q) \in Nat
      /\ \A i \in 1 .. Len(q) : r[i] = q[i]
      /\ r[Len(q) + 1] = e
      /\ \A i \in 1 .. Len(r) : i \in 1 .. Len(q) \/ i = Len(q) + 1
  BY <1>1, <1>2, AppendProperties
<1>4. /\ events'[c] = r
      /\ \A d \in Calls : d # c => events'[d] = events[d]
  BY <1>1 DEF e
<1>5. events' \in [Calls -> Seq(Event)]
  BY <1>1, <1>3 DEF e
<1> HIDE DEF r, q
<1>6. \A i \in 1 .. Len(q) : q[i][1] = "PART_OK"
  BY <1>1 DEF Ended, q
<1>7. EventsOwn'
  <2> SUFFICES ASSUME NEW d \in Calls, NEW i \in 1 .. Len(events'[d]),
                      events'[d][i][2] # Nobody
               PROVE  /\ id'[events'[d][i][2]] = id'[d]
                      /\ id'[d] # 0
    BY DEF EventsOwn
  <2>1. \A f \in Calls : \A j \in 1 .. Len(events[f]) : events[f][j][2] # Nobody =>
            /\ events[f][j][2] \in Calls
            /\ id[events[f][j][2]] = id[f] /\ id[f] # 0
    <3>1. \A f \in Calls : \A j \in 1 .. Len(events[f]) :
            events[f][j] \in Event
      BY <1>1
    <3>2. \A x \in Event : x[2] # Nobody => x[2] \in Calls
      BY DEF Event, Nobody
    <3> QED
      BY <3>1, <3>2 DEF IInv, EventsOwn
  <2>2. CASE d # c
    BY <2>1, <2>2, <1>4
  <2>3. CASE d = c
    <3>1. CASE i \in 1 .. Len(q)
      BY <2>1, <2>3, <3>1, <1>3, <1>4 DEF q
    <3>2. CASE i = Len(q) + 1
      BY <2>3, <3>2, <1>1, <1>2, <1>3, <1>4 DEF Nobody
    <3> QED
      BY <2>3, <3>1, <3>2, <1>3, <1>4
  <2> QED
    BY <2>2, <2>3
<1>8. EndsOnce'
  <2> SUFFICES ASSUME NEW d \in Calls, NEW i \in 1 .. (Len(events'[d]) - 1)
               PROVE  events'[d][i][1] = "PART_OK"
    BY DEF EndsOnce
  <2>1. CASE d # c
    BY <2>1, <1>4 DEF IInv, EndsOnce
  <2>2. CASE d = c
    BY <2>2, <1>3, <1>4, <1>6
  <2> QED
    BY <2>1, <2>2
<1>9. \A d \in Calls : d # c => (Ended(d)' <=> Ended(d))
  BY <1>4 DEF Ended
<1>10. Ended(c)' <=> tag # "PART_OK"
  <2>1. Ended(c)' <=> \E i \in 1 .. Len(r) : r[i][1] # "PART_OK"
    BY <1>4 DEF Ended
  <2>2. Len(q) + 1 \in 1 .. Len(r)
    BY <1>3
  <2> QED
    BY <2>1, <2>2, <1>2, <1>3, <1>6
<1> QED
  BY <1>4, <1>5, <1>7, <1>8, <1>9, <1>10

\* Where a sweep may stand in the chains ch.
AtCallback(s, ch) ==
    /\ s \in {Idle} \cup ((1 .. Buckets) \X (1 .. MaxId))
    /\ s # Idle => s[2] <= Len(ch[s[1]])

\* Bucket gives a place of a sweep.
LEMMA BucketFacts ==
    ASSUME NEW ch \in [1 .. Buckets -> Seq(Calls)],
           \A b \in 1 .. Buckets : Ascending(ch[b]),
           NEW b \in 0 .. Buckets
    PROVE  AtCallback(Bucket(b, ch), ch)
<1> DEFINE B == {j \in (b + 1) .. Buckets : ch[j] # <<>>}
<1>1. CASE B = {}
  BY <1>1 DEF Bucket, AtCallback
<1>2. CASE B # {}
  <2> DEFINE m == Min(B)
             p == IF Len(ch[m]) > 1 THEN 2 ELSE 1
  <2>1. B \in SUBSET Nat
    BY BucketsAssumption
  <2>2. m \in B
    BY <1>2, <2>1, MinFacts
  <2> HIDE DEF m
  <2>3. m \in 1 .. Buckets /\ ch[m] # <<>> /\ ch[m] \in Seq(Calls)
    BY <2>2, BucketsAssumption
  <2>4. Len(ch[m]) \in Nat \ {0}
    BY <2>3, EmptySeq
  <2>5. Len(ch[m]) <= MaxId
    <3>1. Len(ch[m]) \in 1 .. Len(ch[m])
      BY <2>4
    <3>2. ch[m][Len(ch[m])] \in 1 .. MaxId
      BY <2>3, <3>1, ElementOfSeq DEF Calls, MaxId
    <3> QED
      BY <2>3, <2>4, <3>1, <3>2, MaxCallsAssumption DEF Ascending, MaxId
  <2>6. Bucket(b, ch) = <<m, p>>
    BY <1>2 DEF Bucket, m
  <2>7. p \in 1 .. MaxId /\ p <= Len(ch[m])
    BY <2>4, <2>5, MaxCallsAssumption DEF MaxId
  <2>8. <<m, p>> \in (1 .. Buckets) \X (1 .. MaxId) /\ <<m, p>>[1] = m /\ <<m, p>>[2] = p
    BY <2>3, <2>7
  <2> QED
    BY <2>6, <2>7, <2>8 DEF AtCallback
<1> QED
  BY <1>1, <1>2

\* Onward gives a place of a sweep.
LEMMA OnwardFacts ==
    ASSUME NEW ch \in [1 .. Buckets -> Seq(Calls)],
           \A b \in 1 .. Buckets : Ascending(ch[b]),
           NEW b \in 1 .. Buckets, NEW i \in Nat \ {0}, i # 1 => Len(ch[b]) >= 1
    PROVE  AtCallback(Onward(b, i, Len(ch[b]), ch), ch)
<1>1. CASE i = 1
  <2>1. b \in 0 .. Buckets
    BY BucketsAssumption
  <2> QED
    BY <1>1, <2>1, BucketFacts DEF Onward
<1>2. CASE i # 1
  <2> DEFINE n == Len(ch[b])
             p == IF i <= n THEN i ELSE 1
  <2>1. Onward(b, i, n, ch) = <<b, p>>
    BY <1>2 DEF Onward
  <2>2. n \in Nat /\ n >= 1 /\ ch[b] \in Seq(Calls)
    BY <1>2
  <2>3. n <= MaxId
    <3>1. n \in 1 .. n
      BY <2>2
    <3>2. ch[b][n] \in 1 .. MaxId
      BY <2>2, <3>1, ElementOfSeq DEF Calls, MaxId
    <3> QED
      BY <2>2, <3>1, <3>2, MaxCallsAssumption DEF Ascending, MaxId
  <2>4. p \in 1 .. MaxId /\ p <= n
    BY <2>2, <2>3, MaxCallsAssumption DEF MaxId
  <2>5. <<b, p>> \in (1 .. Buckets) \X (1 .. MaxId) /\ <<b, p>>[1] = b /\ <<b, p>>[2] = p
    BY <2>4
  <2> QED
    BY <2>1, <2>4, <2>5 DEF AtCallback
<1> QED
  BY <1>1, <1>2

----------------------------------------------------------------------------
\* The initial state, an empty map, satisfies the invariant.
LEMMA InitIInv == Init => IInv
<1> SUFFICES ASSUME Init PROVE IInv
  OBVIOUS
<1>1. /\ life = 1 /\ size = 0 /\ unique = 0 /\ sweep = Idle /\ answered = {}
      /\ \A b \in 1 .. Buckets : chain[b] = <<>>
      /\ \A c \in Calls : /\ id[c] = 0 /\ born[c] = 0 /\ time[c] = 0
                         /\ events[c] = <<>> /\ wire[c] = <<>>
      /\ MaxId \in Nat /\ MaxLives \in Nat \ {0}
  BY MaxCallsAssumption, BoundsAssumption DEF Init, MaxId
<1>2. TypeOK
  BY <1>1 DEF Init, TypeOK
<1>3. IdsFollow
  BY <1>1, MaxCallsAssumption DEF IdsFollow, Calls
<1>4. ChainsOpen
  BY <1>1 DEF ChainsOpen, Ascending, ToSet
<1>5. Open = {}
  BY <1>1 DEF Open
<1>6. Counted
  BY <1>1, <1>5, FS_EmptySet DEF Counted
<1> QED
  BY <1>1, <1>2, <1>3, <1>4, <1>6 DEF IInv, IdsUnique, EventsOwn, EndsOnce

\* A step that changes neither the map nor the events.
LEMMA SameMap ==
    ASSUME IInv, UNCHANGED <<life, mapVars, events>>, TypeOK'
    PROVE  IInv' /\ KeptStep
<1>1. UNCHANGED <<life, chain, size, unique, id, born, events>>
  BY DEF mapVars
<1>2. Open' = Open /\ Registered' = Registered
  BY <1>1 DEF Open, Ended, Registered
<1>3. Forgotten' = Forgotten
  BY <1>1, <1>2 DEF Forgotten, Ended
<1>4. IdsFollow' /\ IdsUnique' /\ EventsOwn' /\ EndsOnce'
  BY <1>1 DEF IInv, IdsFollow, IdsUnique, EventsOwn, EndsOnce
<1>5. ChainsOpen' /\ Counted'
  BY <1>1, <1>2 DEF IInv, ChainsOpen, Counted
<1> QED
  BY <1>2, <1>3, <1>4, <1>5 DEF IInv, KeptStep

\* A call: what is registered is what was, and the new call.
LEMMA CallStep ==
    ASSUME IInv, NEW c \in Calls, Call(c)
    PROVE  IInv' /\ KeptStep
<1> DEFINE N == IF IsCallbackMapFull THEN {} ELSE {c}
<1>1. /\ NewCall(c) /\ life' = life /\ chain' = ChainWith(c) /\ size' = SizeWithOne
      /\ sweep = Idle
      /\ UNCHANGED <<time, events, sweep, wire, answered>>
  BY DEF Call, callVars, netVars
<1>2. /\ unique' \in 0 .. MaxId
      /\ id' \in [Calls -> 0 .. MaxId] /\ born' \in [Calls -> 0 .. MaxLives]
      /\ born[c] = 0 /\ born'[c] = life
      /\ id'[c] # 0 <=> ~IsCallbackMapFull
      /\ \A d \in Calls : d # c => id'[d] = id[d] /\ born'[d] = born[d]
      /\ \A d, e \in Calls : e < d /\ born'[d] # 0 => born'[e] # 0
      /\ \A d \in Calls : born'[d] = 0 => unique' < d /\ id'[d] = 0
      /\ \A d \in Calls : born'[d] <= life /\ (born'[d] = life => id'[d] <= unique')
      /\ IdsUnique'
  BY <1>1, NewCallFacts
<1>3. /\ chain' \in [1 .. Buckets -> Seq(Calls)]
      /\ \A b \in 1 .. Buckets :
            /\ Ascending(chain'[b])
            /\ ToSet(chain'[b]) = ToSet(chain[b]) \cup
                        (IF ~IsCallbackMapFull /\ Hash[id'[c]] = b THEN {c} ELSE {})
  BY <1>1, ChainWithFacts
<1>4. \A d \in Calls : (Ended(d)' <=> Ended(d)) /\ (born[d] = 0 => events[d] = <<>> /\ ~Ended(d))
  BY <1>1 DEF IInv, IdsFollow, Ended
<1>5. Open' = Open \cup N /\ c \notin Open
  BY <1>1, <1>2, <1>4, Types DEF IInv, Open
<1>6. Counted' /\ size' \in Nat
  <2>1. IsFiniteSet(Open) /\ Cardinality(Open) \in Nat
    BY OpenFinite, FS_CardinalityType
  <2>2. Cardinality(Open \cup N) = Cardinality(Open) + (IF IsCallbackMapFull THEN 0 ELSE 1)
    <3>1. Cardinality(Open \cup {c}) = Cardinality(Open) + 1
      BY <1>5, <2>1, FS_AddElement
    <3>2. CASE IsCallbackMapFull
      <4>1. Open \cup N = Open
        BY <3>2
      <4> QED
        BY <4>1, <2>1, <3>2
    <3>3. CASE ~IsCallbackMapFull
      <4>1. Open \cup N = Open \cup {c}
        BY <3>3
      <4> QED
        BY <4>1, <3>1, <3>3, Zenon
    <3> QED
      BY <3>2, <3>3
  <2> QED
    BY <1>1, <1>5, <2>1, <2>2 DEF IInv, Counted, SizeWithOne
<1>7. TypeOK'
  BY <1>1, <1>2, <1>3, <1>6 DEF IInv, TypeOK
<1>8. IdsFollow'
  BY <1>1, <1>2, <1>4 DEF IdsFollow
<1>9. ChainsOpen'
  <2>1. ASSUME NEW b \in 1 .. Buckets, NEW d \in ToSet(chain'[b])
        PROVE  d \in Open' /\ Hash[id'[d]] = b
    <3>1. CASE d \in ToSet(chain[b])
      <4>1. d \in Open /\ Hash[id[d]] = b
        BY <3>1 DEF IInv, ChainsOpen
      <4>2. d \in Calls /\ d # c
        BY <4>1, <1>5 DEF Open
      <4> QED
        BY <4>1, <4>2, <1>2, <1>5
    <3>2. CASE d \notin ToSet(chain[b])
      BY <3>2, <1>3, <1>5
    <3> QED
      BY <3>1, <3>2
  <2> QED
    BY <2>1, <1>3 DEF ChainsOpen
<1>10. EventsOwn'
  <2> SUFFICES ASSUME NEW d \in Calls, NEW i \in 1 .. Len(events[d]),
                      events[d][i][2] # Nobody
               PROVE  id'[events[d][i][2]] = id'[d] /\ id'[d] # 0
    BY <1>1 DEF EventsOwn
  <2>1. id[events[d][i][2]] = id[d] /\ id[d] # 0
    BY DEF IInv, EventsOwn
  <2>2. events[d][i][2] \in Calls
    <3>1. events[d][i] \in Event
      BY Types DEF IInv
    <3> QED
      BY <3>1 DEF Event, Nobody
  <2>3. id[c] = 0
    BY <1>2 DEF IInv, IdsFollow
  <2> QED
    BY <2>1, <2>2, <2>3, <1>2
<1>11. EndsOnce'
  BY <1>1 DEF IInv, EndsOnce
<1>12. KeptStep
  <2>1. Registered' = Registered \cup N
    <3>1. \A d : d \in Registered' <=> \E b \in 1 .. Buckets : d \in ToSet(chain'[b])
      BY DEF Registered
    <3>2. ~IsCallbackMapFull => Hash[id'[c]] \in 1 .. Buckets
      <4>1. ~IsCallbackMapFull => id'[c] \in 1 .. MaxId
        BY <1>2, Types DEF IInv
      <4> QED
        BY <4>1, HashAssumption
    <3> QED
      BY <3>1, <3>2, <1>3, RegisteredElems
  <2>2. Forgotten' = Open' \ Registered' /\ Forgotten = Open \ Registered
    BY RegisteredOpen DEF IInv, Forgotten, Open
  <2>3. Forgotten' \subseteq Forgotten /\ Registered \subseteq Registered'
    BY <2>1, <2>2, <1>5
  <2> QED
    BY <2>3 DEF KeptStep
<1> QED
  BY <1>2, <1>6, <1>7, <1>8, <1>9, <1>10, <1>11, <1>12 DEF IInv

\* The answer to a call ends the call with its id, if it is still open, and
\* takes that one's callback out of the map.
LEMMA OnResponseStep ==
    ASSUME IInv, NEW k \in Calls, OnResponse(k)
    PROVE  IInv' /\ KeptStep
<1>1. /\ sweep = Idle /\ UNCHANGED <<life, unique, id, born, sweep, answered>>
      /\ wire[k] # <<>> /\ wire' = [wire EXCEPT ![k] = Tail(@)]
  BY DEF OnResponse
<1>2. wire' \in [Calls -> Seq({"PART_OK", "OK"})]
  BY <1>1, HeadTailProperties DEF IInv, TypeOK
<1>3. CASE UNCHANGED <<chain, size, callVars>>
  <2>1. UNCHANGED <<life, mapVars, events, time, sweep, answered>>
    BY <1>1, <1>3 DEF callVars, mapVars
  <2>2. TypeOK'
    BY <1>2, <2>1 DEF IInv, TypeOK, mapVars
  <2> QED
    BY <2>1, <2>2, SameMap
<1>4. CASE \E b \in 1 .. Buckets : \E i \in 1 .. Len(chain[b]) :
             LET c == chain[b][i]
             IN /\ id[c] = id[k]
                /\ events' = [events EXCEPT ![c] = Append(@, <<"OK", k>>)]
                /\ time' = [time EXCEPT ![c] = 0]
                /\ chain' = Del(b, i)
                /\ size' = size - 1
  <2>0. PICK b \in 1 .. Buckets : \E i \in 1 .. Len(chain[b]) :
             LET c == chain[b][i]
             IN /\ id[c] = id[k]
                /\ events' = [events EXCEPT ![c] = Append(@, <<"OK", k>>)]
                /\ time' = [time EXCEPT ![c] = 0]
                /\ chain' = Del(b, i)
                /\ size' = size - 1
    BY <1>4
  <2>1. PICK i \in 1 .. Len(chain[b]) :
             LET c == chain[b][i]
             IN /\ id[c] = id[k]
                /\ events' = [events EXCEPT ![c] = Append(@, <<"OK", k>>)]
                /\ time' = [time EXCEPT ![c] = 0]
                /\ chain' = Del(b, i)
                /\ size' = size - 1
    BY <2>0
  <2>2. /\ chain \in [1 .. Buckets -> Seq(Calls)]
        /\ chain[b] \in Seq(Calls) /\ Ascending(chain[b])
        /\ time \in [Calls -> Nat]
    BY DEF IInv, TypeOK, ChainsOpen
  <2>3. PICK c \in Calls : c = chain[b][i] /\ c \in ToSet(chain[b])
    BY <2>2, CallSeq
  <2>4. c \in Open /\ Hash[id[c]] = b /\ c \in Calls /\ id[c] # 0 /\ born[c] = life
    BY <2>3 DEF IInv, ChainsOpen, Open
  <2>5. /\ events' = [events EXCEPT ![c] = Append(@, <<"OK", k>>)]
        /\ time' = [time EXCEPT ![c] = 0]
        /\ size' = size - 1
        /\ id[k] = id[c]
        /\ chain' = [chain EXCEPT ![b] = RemoveAt(chain[b], i)]
    BY <2>1, <2>3 DEF Del
  <2>6. /\ events' \in [Calls -> Seq(Event)]
        /\ EventsOwn' /\ EndsOnce'
        /\ \A d \in Calls : d # c => events'[d] = events[d] /\ (Ended(d)' <=> Ended(d))
        /\ Ended(c)'
    BY <1>1, <2>4, <2>5, EventFacts
  <2>7. /\ chain' \in [1 .. Buckets -> Seq(Calls)]
        /\ \A a \in 1 .. Buckets : Ascending(chain'[a]) /\ ToSet(chain'[a]) = ToSet(chain[a]) \ {c}
    <3>1. /\ RemoveAt(chain[b], i) \in Seq(Calls)
          /\ Ascending(RemoveAt(chain[b], i))
          /\ ToSet(RemoveAt(chain[b], i)) = ToSet(chain[b]) \ {c}
      BY <2>2, <2>3, RemoveAscending
    <3>2. \A a \in 1 .. Buckets : a # b => chain'[a] = chain[a] /\ c \notin ToSet(chain[a])
      BY <2>2, <2>4, <2>5 DEF IInv, ChainsOpen
    <3>3. chain'[b] = RemoveAt(chain[b], i)
      BY <2>2, <2>5
    <3>4. chain' \in [1 .. Buckets -> Seq(Calls)]
      BY <2>2, <2>5, <3>1
    <3>5. ASSUME NEW a \in 1 .. Buckets
          PROVE  Ascending(chain'[a]) /\ ToSet(chain'[a]) = ToSet(chain[a]) \ {c}
      <4>1. CASE a = b
        BY <4>1, <3>1, <3>3
      <4>2. CASE a # b
        BY <4>2, <3>2 DEF IInv, ChainsOpen
      <4> QED
        BY <4>1, <4>2
    <3> QED
      BY <3>4, <3>5
  <2>8. Open' = Open \ {c}
    BY <1>1, <2>6 DEF Open
  <2>9. Registered' = Registered \ {c}
    <3>1. \A d : d \in Registered' <=> \E a \in 1 .. Buckets : d \in ToSet(chain'[a])
      BY DEF Registered
    <3> QED
      BY <3>1, <2>7, RegisteredElems
  <2>10. Counted' /\ size' \in Nat
    <3>1. /\ Cardinality(Open \ {c}) = Cardinality(Open) - 1
          /\ Cardinality(Open \ {c}) \in Nat
      BY <2>4, OpenFinite, FS_RemoveElement, FS_CardinalityType
    <3> QED
      BY <3>1, <2>5, <2>8 DEF IInv, Counted
  <2>11. TypeOK'
    <3>1. time' \in [Calls -> Nat]
      BY <2>2, <2>5
    <3> QED
      BY <1>1, <1>2, <2>6, <2>7, <2>10, <3>1 DEF IInv, TypeOK
  <2>12. IdsFollow' /\ IdsUnique'
    <3>1. born[c] # 0
      BY <2>4 DEF IInv, IdsFollow
    <3> QED
      BY <1>1, <2>6, <3>1 DEF IInv, IdsFollow, IdsUnique
  <2>13. ChainsOpen'
    BY <1>1, <2>7, <2>8 DEF IInv, ChainsOpen
  <2>14. KeptStep
    <3>1. Forgotten' = Open' \ Registered' /\ Forgotten = Open \ Registered
      BY RegisteredOpen DEF IInv, Forgotten, Open
    <3>2. Forgotten' \subseteq Forgotten
      BY <3>1, <2>8, <2>9
    <3>3. \A d \in Calls : d \in Registered /\ d \notin Registered' => Ended(d)'
      BY <2>6, <2>9
    <3> QED
      BY <3>2, <3>3 DEF KeptStep
  <2> QED
    BY <2>6, <2>10, <2>11, <2>12, <2>13, <2>14 DEF IInv
<1> QED
  BY <1>3, <1>4 DEF OnResponse

\* A partial answer runs the closure of an open call, which stays open.
LEMMA OnPartResponseStep ==
    ASSUME IInv, NEW k \in Calls, OnPartResponse(k)
    PROVE  IInv' /\ KeptStep
<1>1. /\ UNCHANGED <<life, chain, size, unique, id, born, sweep, answered>>
      /\ wire[k] # <<>> /\ wire' = [wire EXCEPT ![k] = Tail(@)]
  BY DEF OnPartResponse, mapVars
<1>2. wire' \in [Calls -> Seq({"PART_OK", "OK"})]
  BY <1>1, HeadTailProperties DEF IInv, TypeOK
<1>3. CASE UNCHANGED callVars
  <2>1. UNCHANGED <<life, mapVars, events, time, sweep, answered>>
    BY <1>1, <1>3 DEF callVars, mapVars
  <2>2. TypeOK'
    BY <1>2, <2>1 DEF IInv, TypeOK, mapVars
  <2> QED
    BY <2>1, <2>2, SameMap
<1>4. CASE \E c \in Get(id[k]) :
             /\ events' = [events EXCEPT ![c] = Append(@, <<"PART_OK", k>>)]
             /\ time' = [time EXCEPT ![c] = 0]
  <2>1. PICK c \in Get(id[k]) :
             /\ events' = [events EXCEPT ![c] = Append(@, <<"PART_OK", k>>)]
             /\ time' = [time EXCEPT ![c] = 0]
    BY <1>4
  <2>2. c \in Open /\ c \in Calls /\ id[c] = id[k] /\ born[c] = life
    BY RegisteredOpen DEF IInv, Get, Open
  <2>3. /\ events' \in [Calls -> Seq(Event)]
        /\ EventsOwn' /\ EndsOnce'
        /\ \A d \in Calls : (d # c => events'[d] = events[d]) /\ (Ended(d)' <=> Ended(d))
    <3>1. /\ events' \in [Calls -> Seq(Event)]
          /\ EventsOwn' /\ EndsOnce'
          /\ \A d \in Calls : d # c => events'[d] = events[d] /\ (Ended(d)' <=> Ended(d))
          /\ ~Ended(c)'
      BY <1>1, <2>1, <2>2, EventFacts
    <3> QED
      BY <2>2, <3>1 DEF Open
  <2>4. Open' = Open /\ Registered' = Registered
    BY <1>1, <2>3 DEF Open, Registered
  <2>5. Forgotten' = Forgotten
    BY <1>1, <2>3, <2>4 DEF Forgotten
  <2>6. TypeOK'
    <3>1. time' \in [Calls -> Nat]
      BY <2>1, <2>2 DEF IInv, TypeOK
    <3> QED
      BY <1>1, <1>2, <2>3, <3>1 DEF IInv, TypeOK
  <2>7. IdsFollow' /\ IdsUnique'
    <3>1. born[c] # 0
      BY <2>2 DEF IInv, IdsFollow, Open
    <3> QED
      BY <1>1, <2>3, <3>1 DEF IInv, IdsFollow, IdsUnique
  <2>8. ChainsOpen' /\ Counted'
    BY <1>1, <2>4 DEF IInv, ChainsOpen, Counted
  <2> QED
    BY <2>3, <2>4, <2>5, <2>6, <2>7, <2>8 DEF IInv, KeptStep
<1> QED
  BY <1>3, <1>4 DEF OnPartResponse

\* A sweep stands at an open call.
LEMMA AtHere ==
    ASSUME IInv, sweep # Idle
    PROVE  /\ sweep[1] \in 1 .. Buckets /\ sweep[2] \in Nat \ {0}
           /\ Len(chain[sweep[1]]) \in Nat /\ sweep[2] <= Len(chain[sweep[1]])
           /\ chain[sweep[1]] \in Seq(Calls) /\ Ascending(chain[sweep[1]])
           /\ Here \in Open /\ Here \in Calls /\ Here \in ToSet(chain[sweep[1]])
           /\ Hash[id[Here]] = sweep[1] /\ born[Here] = life /\ id[Here] # 0
<1> DEFINE b == sweep[1]
           i == sweep[2]
<1>1. /\ sweep \in (1 .. Buckets) \X (1 .. MaxId)
      /\ i <= Len(chain[b])
      /\ \A a \in 1 .. Buckets : chain[a] \in Seq(Calls)
  BY DEF IInv, TypeOK
<1>2. b \in 1 .. Buckets /\ i \in 1 .. MaxId
  BY <1>1
<1>3. i \in Nat \ {0}
  BY <1>2, MaxCallsAssumption DEF MaxId
<1> HIDE DEF b, i
<1>4. Len(chain[b]) \in Nat /\ i \in 1 .. Len(chain[b])
  BY <1>1, <1>2, <1>3
<1>5. chain[b][i] \in ToSet(chain[b])
  BY <1>1, <1>2, <1>4, CallSeq
<1>6. Ascending(chain[b]) /\ chain[b][i] \in Open /\ Hash[id[chain[b][i]]] = b
  BY <1>2, <1>5 DEF IInv, ChainsOpen
<1> QED
  BY <1>1, <1>2, <1>3, <1>4, <1>5, <1>6 DEF Here, Open, b, i

\* Answers on their way, a tick and the steps of a sweep over callbacks that
\* stay leave the map alone.
LEMMA QuietSteps ==
    ASSUME IInv, (\E k \in Calls : Answer(k)) \/ Tick \/ SweepOver \/ UNCHANGED vars
    PROVE  IInv' /\ KeptStep
<1>1. UNCHANGED <<life, mapVars, events>>
  BY DEF Answer, Tick, SweepOver, vars, callVars
<1>2. /\ chain \in [1 .. Buckets -> Seq(Calls)]
      /\ \A b \in 1 .. Buckets : Ascending(chain[b])
      /\ UNCHANGED <<chain, size, unique, id, born>>
  BY <1>1 DEF IInv, TypeOK, ChainsOpen, mapVars
<1>3. CASE \E k \in Calls : Answer(k)
  <2>1. PICK k \in Calls : Answer(k)
    BY <1>3
  <2>2. /\ UNCHANGED <<time, sweep>>
        /\ answered' = answered \cup {k}
        /\ \E d \in Deliveries : wire' = [wire EXCEPT ![k] = d]
    BY <2>1 DEF Answer, callVars
  <2>3. TypeOK'
    BY <1>1, <1>2, <2>2, BoundsAssumption DEF IInv, TypeOK
  <2> QED
    BY <1>1, <2>3, SameMap
<1>4. CASE Tick
  <2>1. /\ UNCHANGED <<wire, answered>>
        /\ time' \in [Calls -> Nat]
        /\ sweep' = Bucket(0, chain)
    BY <1>4 DEF Tick, netVars, IInv, TypeOK
  <2>2. AtCallback(sweep', chain)
    <3>1. 0 \in 0 .. Buckets
      BY BucketsAssumption
    <3> QED
      BY <1>2, <2>1, <3>1, BucketFacts
  <2>3. TypeOK'
    BY <1>1, <1>2, <2>1, <2>2 DEF IInv, TypeOK, AtCallback
  <2> QED
    BY <1>1, <2>3, SameMap
<1>5. CASE SweepOver
  <2> DEFINE b == sweep[1]
             i == sweep[2]
             j == i + (IF i = 1 THEN 0 ELSE 1)
  <2>1. /\ UNCHANGED <<time, wire, answered>>
        /\ sweep # Idle
        /\ sweep' = Onward(b, j, Len(chain[b]), chain)
    BY <1>5 DEF SweepOver, netVars, callVars
  <2>2. /\ b \in 1 .. Buckets /\ i \in Nat \ {0} /\ i <= Len(chain[b])
        /\ Len(chain[b]) \in Nat
    BY <2>1, AtHere
  <2>3. j \in Nat \ {0} /\ (j # 1 => Len(chain[b]) >= 1)
    BY <2>2
  <2> HIDE DEF b, i, j
  <2>4. AtCallback(sweep', chain)
    BY <1>2, <2>1, <2>2, <2>3, OnwardFacts
  <2>5. TypeOK'
    BY <1>1, <1>2, <2>1, <2>4 DEF IInv, TypeOK, AtCallback
  <2> QED
    BY <1>1, <2>5, SameMap
<1>6. CASE UNCHANGED vars
  <2>1. TypeOK'
    BY <1>1, <1>2, <1>6 DEF IInv, TypeOK, vars, callVars, netVars
  <2> QED
    BY <1>1, <2>1, SameMap
<1> QED
  BY <1>3, <1>4, <1>5, <1>6

\* A new process begins with an empty map; the calls of its past are of
\* other lives.
LEMMA RestartStep ==
    ASSUME IInv, Restart
    PROVE  IInv' /\ KeptStep
<1>1. /\ life < MaxLives /\ life' = life + 1 /\ size' = 0 /\ unique' = 0 /\ sweep' = Idle
      /\ chain' = [b \in 1 .. Buckets |-> <<>>]
      /\ time' = [c \in Calls |-> 0]
      /\ UNCHANGED <<id, born, events, wire, answered>>
  BY DEF Restart, netVars
<1>2. life \in 1 .. MaxLives /\ MaxLives \in Nat /\ MaxId \in Nat
  BY MaxCallsAssumption, BoundsAssumption DEF IInv, TypeOK, MaxId
<1>3. \A c \in Calls : born[c] # life' /\ c >= 1 /\ c \in Nat /\ born[c] <= life
                     /\ born[c] \in Nat
  BY <1>1, <1>2, Types DEF IInv, IdsFollow
<1>4. TypeOK'
  <2>1. chain' \in [1 .. Buckets -> Seq(Calls)] /\ time' \in [Calls -> Nat]
    BY <1>1
  <2> QED
    BY <1>1, <1>2, <2>1 DEF IInv, TypeOK
<1>5. IdsFollow' /\ IdsUnique' /\ EventsOwn' /\ EndsOnce'
  BY <1>1, <1>2, <1>3 DEF IInv, IdsFollow, IdsUnique, EventsOwn, EndsOnce
<1>6. ChainsOpen'
  BY <1>1 DEF ChainsOpen, Ascending, ToSet
<1>7. Open' = {}
  BY <1>3, <1>1 DEF Open
<1>8. Counted'
  BY <1>1, <1>7, FS_EmptySet DEF Counted
<1>9. KeptStep
  BY <1>1, <1>2 DEF KeptStep
<1> QED
  BY <1>4, <1>5, <1>6, <1>8, <1>9 DEF IInv

\* The timer ends a call: its callback leaves the map; the callback of the
\* call that the closure makes is in the map too, unless it came behind the
\* last callback of the chain that is being walked.
LEMMA SweepOutStep ==
    ASSUME IInv, SweepOut
    PROVE  IInv' /\ KeptStep
<1>1. PICK b \in 1 .. Buckets, i \in Nat \ {0}, n \in Nat, h \in Calls :
        /\ b = sweep[1] /\ i = sweep[2] /\ n = Len(chain[b]) /\ i <= n
        /\ h = chain[b][i] /\ h = Here
        /\ h \in Open /\ h \in ToSet(chain[b])
        /\ Hash[id[h]] = b /\ born[h] = life /\ id[h] # 0
  BY AtHere DEF SweepOut, Here
<1>2. /\ sweep # Idle
      /\ events' = [events EXCEPT ![h] = Append(@, <<"E_TIMEOUT", Nobody>>)]
      /\ time' = [time EXCEPT ![h] = 0]
      /\ sweep' = Onward(b, i, Len(chain'[b]), chain')
      /\ UNCHANGED <<life, wire, answered>>
  BY <1>1 DEF SweepOut, netVars
<1>3. \/ /\ chain' = [chain EXCEPT ![b] = Unlink(chain[b], n, i)]
         /\ size' = size - 1
         /\ UNCHANGED <<unique, id, born>>
      \/ \E c \in Calls :
         /\ NewCall(c)
         /\ chain' = [ChainWith(c) EXCEPT ![b] = Unlink(ChainWith(c)[b], n, i)]
         /\ size' = SizeWithOne - 1
  BY <1>1 DEF SweepOut
<1>4. /\ chain \in [1 .. Buckets -> Seq(Calls)]
      /\ \A a \in 1 .. Buckets : Ascending(chain[a]) /\ chain[a] \in Seq(Calls)
      /\ time \in [Calls -> Nat]
  BY DEF IInv, TypeOK, ChainsOpen
<1>a. n \in 1 .. Len(chain[b]) /\ i \in 1 .. n /\ Len(chain[b]) \in Nat
  <2>1. 1 <= i /\ i <= n
    BY <1>1
  <2> QED
    BY <2>1, <1>1
\* N holds the new call, if the closure makes one that is registered, and C
\* are the chains with it.
<1> DEFINE Grown(N, C) ==
        /\ chain' = [C EXCEPT ![b] = Unlink(C[b], n, i)]
        /\ \A a \in 1 .. Buckets :
              /\ Ascending(C[a])
              /\ Len(C[a]) >= Len(chain[a])
              /\ \A j \in 1 .. Len(chain[a]) : C[a][j] = chain[a][j]
              /\ ToSet(C[a]) = ToSet(chain[a]) \cup {c \in N : Hash[id'[c]] = a}
        /\ \A c \in N : born[c] = 0 /\ born'[c] = life /\ id'[c] # 0
        /\ \/ N = {} /\ size' = size - 1
           \/ \E c \in Calls : N = {c} /\ size' = (size + 1) - 1
        /\ unique' \in 0 .. MaxId
        /\ id' \in [Calls -> 0 .. MaxId] /\ born' \in [Calls -> 0 .. MaxLives]
        /\ \A d \in Calls : born[d] # 0 => id'[d] = id[d] /\ born'[d] = born[d]
        /\ \A d \in Calls : d \notin N /\ born[d] = 0 => id'[d] = 0
        /\ \A d, e \in Calls : e < d /\ born'[d] # 0 => born'[e] # 0
        /\ \A d \in Calls : born'[d] = 0 => unique' < d /\ id'[d] = 0 /\ born[d] = 0
        /\ \A d \in Calls : born'[d] <= life /\ (born'[d] = life => id'[d] <= unique')
        /\ IdsUnique'
<1>5. \E N \in SUBSET Calls, C \in [1 .. Buckets -> Seq(Calls)] : Grown(N, C)
  <2>1. CASE /\ chain' = [chain EXCEPT ![b] = Unlink(chain[b], n, i)]
             /\ size' = size - 1
             /\ UNCHANGED <<unique, id, born>>
    <3>1. \A a \in 1 .. Buckets :
              /\ Ascending(chain[a])
              /\ Len(chain[a]) >= Len(chain[a])
              /\ ToSet(chain[a]) = ToSet(chain[a]) \cup {c \in {} : Hash[id'[c]] = a}
      BY <1>4
    <3>2. /\ unique' \in 0 .. MaxId
          /\ id' \in [Calls -> 0 .. MaxId] /\ born' \in [Calls -> 0 .. MaxLives]
      BY <2>1 DEF IInv, TypeOK
    <3>3. /\ \A d, e \in Calls : e < d /\ born'[d] # 0 => born'[e] # 0
          /\ \A d \in Calls : born'[d] = 0 => unique' < d /\ id'[d] = 0
          /\ \A d \in Calls : born'[d] <= life /\ (born'[d] = life => id'[d] <= unique')
          /\ IdsUnique'
      BY <2>1 DEF IInv, IdsFollow, IdsUnique
    <3>4. Grown({}, chain)
      BY <2>1, <3>1, <3>2, <3>3
    <3> HIDE DEF Grown
    <3> QED
      BY <1>4, <3>4
  <2>2. ASSUME NEW c \in Calls,
               NewCall(c),
               chain' = [ChainWith(c) EXCEPT ![b] = Unlink(ChainWith(c)[b], n, i)],
               size' = SizeWithOne - 1
        PROVE  \E N \in SUBSET Calls, C \in [1 .. Buckets -> Seq(Calls)] : Grown(N, C)
    <3> DEFINE C == ChainWith(c)
               N == IF IsCallbackMapFull THEN {} ELSE {c}
    <3>1. /\ unique' \in 0 .. MaxId
          /\ id' \in [Calls -> 0 .. MaxId] /\ born' \in [Calls -> 0 .. MaxLives]
          /\ born[c] = 0 /\ born'[c] = life
          /\ id'[c] # 0 <=> ~IsCallbackMapFull
          /\ \A d \in Calls : d # c => id'[d] = id[d] /\ born'[d] = born[d]
          /\ \A d, e \in Calls : e < d /\ born'[d] # 0 => born'[e] # 0
          /\ \A d \in Calls : born'[d] = 0 => unique' < d /\ id'[d] = 0
          /\ \A d \in Calls : born'[d] <= life /\ (born'[d] = life => id'[d] <= unique')
          /\ IdsUnique'
      BY <1>2, <2>2, NewCallFacts
    <3>2. /\ C \in [1 .. Buckets -> Seq(Calls)]
          /\ \A a \in 1 .. Buckets :
                /\ Ascending(C[a])
                /\ Len(C[a]) >= Len(chain[a])
                /\ \A j \in 1 .. Len(chain[a]) : C[a][j] = chain[a][j]
                /\ ToSet(C[a]) = ToSet(chain[a]) \cup
                        (IF ~IsCallbackMapFull /\ Hash[id'[c]] = a THEN {c} ELSE {})
      BY <1>2, <2>2, ChainWithFacts
    <3> HIDE DEF C
    <3>3. \A a \in 1 .. Buckets :
              ToSet(C[a]) = ToSet(chain[a]) \cup {d \in N : Hash[id'[d]] = a}
      BY <3>2
    <3>4. /\ N = {} => size' = size - 1
          /\ N = {} \/ (N = {c} /\ size' = (size + 1) - 1)
      BY <2>2 DEF SizeWithOne
    <3>5. \A d \in Calls : born[d] # 0 => id'[d] = id[d] /\ born'[d] = born[d]
      BY <3>1
    <3>6. \A d \in Calls : d \notin N /\ born[d] = 0 => id'[d] = 0
      BY <3>1 DEF IInv, IdsFollow
    <3>7. \A d \in Calls : born'[d] = 0 => born[d] = 0
      BY <3>1, <3>5
    <3>8. \A d \in N : born[d] = 0 /\ born'[d] = life /\ id'[d] # 0
      BY <3>1
    <3>9. N \in SUBSET Calls
      OBVIOUS
    <3> HIDE DEF N
    <3>10. Grown(N, C)
      <4>1. chain' = [C EXCEPT ![b] = Unlink(C[b], n, i)]
        BY <2>2 DEF C
      <4> QED
        BY <4>1, <3>1, <3>2, <3>3, <3>4, <3>5, <3>6, <3>7, <3>8
    <3> HIDE DEF Grown
    <3> QED
      BY <3>2, <3>9, <3>10
  <2> HIDE DEF Grown
  <2> QED
    BY <1>3, <2>1, <2>2
<1> HIDE DEF Grown
<1>6. PICK N \in SUBSET Calls, C \in [1 .. Buckets -> Seq(Calls)] : Grown(N, C)
  BY <1>5
<1> USE DEF Grown
<1>7. /\ events' \in [Calls -> Seq(Event)]
      /\ EventsOwn' /\ EndsOnce'
      /\ \A d \in Calls : d # h => events'[d] = events[d] /\ (Ended(d)' <=> Ended(d))
      /\ Ended(h)'
  <2>1. \A d \in Calls : id[d] # 0 => id'[d] = id[d]
    BY <1>6 DEF IInv, IdsFollow
  <2> HIDE DEF Grown
  <2> QED
    BY <1>1, <1>2, <2>1, EventFacts DEF Nobody
<1>8. /\ chain' \in [1 .. Buckets -> Seq(Calls)]
      /\ \A a \in 1 .. Buckets :
            /\ Ascending(chain'[a])
            /\ ToSet(chain'[a]) \subseteq (ToSet(chain[a]) \ {h}) \cup {c \in N : Hash[id'[c]] = a}
            /\ ToSet(chain[a]) \ {h} \subseteq ToSet(chain'[a])
            /\ \A c \in N : Hash[id'[c]] = a =>
                    c \in ToSet(chain'[a]) \/ (a = b /\ i = n)
      /\ Len(chain'[b]) >= n - 1
  <2> DEFINE r == Unlink(C[b], n, i)
  <2>1. C[b] \in Seq(Calls) /\ Ascending(C[b]) /\ n \in 1 .. Len(C[b])
        /\ C[b][i] = h /\ ToSet(C[b]) = ToSet(chain[b]) \cup {c \in N : Hash[id'[c]] = b}
    <3>1. C[b] \in Seq(Calls) /\ Len(C[b]) \in Nat
      BY CallSeq
    <3>2. Len(C[b]) >= Len(chain[b])
      BY <1>6
    <3>3. n \in 1 .. Len(C[b]) /\ i \in 1 .. Len(chain[b])
      BY <3>1, <3>2, <1>1, <1>a
    <3>4. C[b][i] = chain[b][i]
      BY <3>3, <1>6
    <3>5. Ascending(C[b]) /\ ToSet(C[b]) = ToSet(chain[b]) \cup {c \in N : Hash[id'[c]] = b}
      BY <1>6
    <3> HIDE DEF Grown
    <3> QED
      BY <3>1, <3>3, <3>4, <3>5, <1>1
  <2>2. /\ r \in Seq(Calls) /\ Ascending(r) /\ Len(r) >= n - 1
        /\ ToSet(r) \subseteq ToSet(C[b]) \ {h}
        /\ i # n => ToSet(r) = ToSet(C[b]) \ {h}
        /\ \A j \in 1 .. n : j # i => C[b][j] \in ToSet(r)
    BY <2>1, <1>a, UnlinkFacts
  <2> HIDE DEF r
  <2>3. chain'[b] = r /\ (\A a \in 1 .. Buckets : a # b => chain'[a] = C[a])
        /\ chain' \in [1 .. Buckets -> Seq(Calls)]
    BY <1>6, <2>2 DEF r
  <2>4. \A c \in N : c # h
    <3>1. life # 0
      BY Types DEF IInv
    <3> QED
      BY <3>1, <1>1, <1>6
  <2>5. ToSet(chain[b]) \ {h} \subseteq ToSet(r)
    <3> SUFFICES ASSUME NEW d \in ToSet(chain[b]), d # h PROVE d \in ToSet(r)
      OBVIOUS
    <3>1. PICK j \in 1 .. Len(chain[b]) : d = chain[b][j]
      <4>1. chain[b] \in Seq(Calls)
        BY <1>4
      <4> QED
        BY <4>1, CallSeq
    <3>2. C[b][j] = d
      BY <3>1, <1>6
    <3> HIDE DEF Grown
    <3>3. j \in 1 .. n /\ j # i
      BY <3>1, <1>1
    <3> QED
      BY <3>2, <3>3, <2>2
  <2>6. ASSUME NEW a \in 1 .. Buckets, a # b
        PROVE  /\ Ascending(chain'[a])
               /\ ToSet(chain'[a]) = ToSet(chain[a]) \cup {c \in N : Hash[id'[c]] = a}
               /\ h \notin ToSet(chain[a])
    BY <2>6, <2>3, <1>1, <1>6 DEF IInv, ChainsOpen
  <2>7. ASSUME NEW a \in 1 .. Buckets
        PROVE  /\ Ascending(chain'[a])
               /\ ToSet(chain'[a]) \subseteq (ToSet(chain[a]) \ {h}) \cup {c \in N : Hash[id'[c]] = a}
               /\ ToSet(chain[a]) \ {h} \subseteq ToSet(chain'[a])
               /\ \A c \in N : Hash[id'[c]] = a =>
                       c \in ToSet(chain'[a]) \/ (a = b /\ i = n)
    <3> HIDE DEF Grown
    <3>1. CASE a # b
      <4>1. Ascending(chain'[a]) /\ h \notin ToSet(chain[a])
        BY <3>1, <2>6
      <4>2. ToSet(chain'[a]) = ToSet(chain[a]) \cup {c \in N : Hash[id'[c]] = a}
        BY <3>1, <2>6
      <4>3. ToSet(chain[a]) \ {h} \subseteq ToSet(chain'[a])
        BY <4>2, Zenon
      <4>4. ToSet(chain'[a]) \subseteq (ToSet(chain[a]) \ {h}) \cup {c \in N : Hash[id'[c]] = a}
        BY <4>1, <4>2, Zenon
      <4>5. \A c \in N : Hash[id'[c]] = a => c \in ToSet(chain'[a])
        BY <4>2, Zenon
      <4> QED
        BY <4>1, <4>3, <4>4, <4>5, Zenon
    <3>2. CASE a = b
      BY <3>2, <2>1, <2>2, <2>3, <2>4, <2>5
    <3> QED
      BY <3>1, <3>2
  <2> QED
    BY <2>2, <2>3, <2>7
<1>9. Open' = (Open \ {h}) \cup N /\ N \cap Open = {} /\ h \notin N
  <2>1. life # 0 /\ \A d \in Calls : born[d] = 0 => id[d] = 0 /\ events[d] = <<>> /\ ~Ended(d)
    BY Types DEF IInv, IdsFollow, Ended
  <2>2. \A d \in N : d \notin Open /\ d # h /\ d \in Open'
    BY <2>1, <1>1, <1>2, <1>6, <1>7 DEF Open
  <2>3. h \notin Open'
    BY <1>7 DEF Open
  <2>4. ASSUME NEW d \in Calls, d \notin N, d # h
        PROVE  d \in Open' <=> d \in Open
    <3>1. CASE born[d] = 0
      BY <3>1, <2>1, <2>4, <1>6 DEF Open
    <3>2. CASE born[d] # 0
      BY <3>2, <2>4, <1>2, <1>6, <1>7 DEF Open
    <3> QED
      BY <3>1, <3>2
  <2>5. Open \subseteq Calls /\ Open' \subseteq Calls
    BY DEF Open
  <2> HIDE DEF Grown
  <2> QED
    BY <2>2, <2>3, <2>4, <2>5
<1>10. Counted' /\ size' \in Nat
  <2>1. /\ IsFiniteSet(Open \ {h}) /\ Cardinality(Open \ {h}) = size - 1
        /\ Cardinality(Open \ {h}) \in Nat
    BY <1>1, OpenFinite, FS_RemoveElement, FS_CardinalityType DEF IInv, Counted
  <2>2. size \in Nat
    BY DEF IInv, TypeOK
  <2>3. CASE N = {} /\ size' = size - 1
    BY <2>1, <2>3, <1>9 DEF Counted
  <2>4. CASE \E c \in Calls : N = {c} /\ size' = (size + 1) - 1
    <3>1. PICK c \in Calls : N = {c} /\ size' = (size + 1) - 1
      BY <2>4
    <3>2. c \notin Open \ {h} /\ Open' = (Open \ {h}) \cup {c}
      BY <3>1, <1>9
    <3>3. Cardinality((Open \ {h}) \cup {c}) = Cardinality(Open \ {h}) + 1
      BY <3>2, <2>1, FS_AddElement
    <3> QED
      BY <3>1, <3>2, <3>3, <2>1, <2>2 DEF Counted
  <2> QED
    BY <2>3, <2>4, <1>6
<1>11. TypeOK'
  <2>1. time' \in [Calls -> Nat]
    BY <1>2, <1>4
  <2>2. AtCallback(sweep', chain')
    <3>1. i # 1 => Len(chain'[b]) >= 1
      BY <1>1, <1>8, <1>a, CallSeq
    <3> QED
      BY <3>1, <1>2, <1>8, OnwardFacts
  <2>3. unique' \in 0 .. MaxId /\ id' \in [Calls -> 0 .. MaxId] /\ born' \in [Calls -> 0 .. MaxLives]
    BY <1>6
  <2> HIDE DEF Grown
  <2> QED
    BY <2>1, <2>2, <2>3, <1>2, <1>7, <1>8, <1>10 DEF IInv, TypeOK, AtCallback
<1>12. IdsFollow' /\ IdsUnique'
  <2>1. \A d \in Calls : born'[d] = 0 => events'[d] = <<>>
    <3>1. life # 0
      BY Types DEF IInv
    <3> QED
      BY <3>1, <1>1, <1>6, <1>7 DEF IInv, IdsFollow
  <2> QED
    BY <2>1, <1>2, <1>6 DEF IdsFollow
<1>13. ChainsOpen'
  <2> SUFFICES ASSUME NEW a \in 1 .. Buckets, NEW c \in ToSet(chain'[a])
               PROVE  c \in Open' /\ Hash[id'[c]] = a
    BY <1>8 DEF ChainsOpen
  <2>1. CASE c \in ToSet(chain[a]) \ {h}
    <3>1. c \in Open /\ Hash[id[c]] = a
      BY <2>1 DEF IInv, ChainsOpen
    <3>2. born[c] # 0 /\ c \in Calls
      BY <3>1, Types DEF IInv, Open
    <3> QED
      BY <3>1, <3>2, <2>1, <1>6, <1>9
  <2>2. CASE c \in N /\ Hash[id'[c]] = a
    BY <2>2, <1>9
  <2> HIDE DEF Grown
  <2> QED
    BY <2>1, <2>2, <1>8
<1>14. KeptStep
  <2> HIDE DEF Grown
  <2>1. \A d : d \in Registered' <=> \E a \in 1 .. Buckets : d \in ToSet(chain'[a])
    BY DEF Registered
  <2>2. Registered \ {h} \subseteq Registered'
    BY <2>1, <1>8, RegisteredElems
  <2>3. ASSUME NEW c \in N
        PROVE  c \in Registered' \/ (Hash[id'[c]] = b /\ i = n)
    <3>1. id'[c] \in 1 .. MaxId
      <4>1. id'[c] \in 0 .. MaxId /\ id'[c] # 0
        BY <1>6 DEF Grown
      <4> QED
        BY <4>1, Types DEF IInv
    <3>2. Hash[id'[c]] \in 1 .. Buckets
      BY <3>1, HashAssumption
    <3> QED
      BY <3>2, <2>1, <1>8
  <2>4. Forgotten' = Open' \ Registered' /\ Forgotten = Open \ Registered
    BY RegisteredOpen DEF IInv, Forgotten, Open
  <2>5. \A c \in Calls : c \in Registered /\ c \notin Registered' => Ended(c)'
    BY <2>2, <1>7
  <2>6. \A c \in Forgotten' \ Forgotten : c \in N /\ c \notin Registered'
    BY <2>2, <2>4, <1>9
  <2>7. \A c \in Forgotten' \ Forgotten : Hash[id'[c]] = b /\ i = n
    BY <2>3, <2>6
  <2> QED
    BY <2>5, <2>7, <1>1, <1>2 DEF KeptStep
<1> QED
  BY <1>7, <1>10, <1>11, <1>12, <1>13, <1>14 DEF IInv

----------------------------------------------------------------------------
\* Every step preserves the invariant and keeps what is registered.
LEMMA IInvInductive == IInv /\ [Next]_vars => IInv' /\ KeptStep
<1> SUFFICES ASSUME IInv, [Next]_vars PROVE IInv' /\ KeptStep
  OBVIOUS
<1>1. CASE \E c \in Calls : Call(c)
  BY <1>1, CallStep
<1>2. CASE \E c \in Calls : OnResponse(c)
  BY <1>2, OnResponseStep
<1>3. CASE \E c \in Calls : OnPartResponse(c)
  BY <1>3, OnPartResponseStep
<1>4. CASE (\E c \in Calls : Answer(c)) \/ Tick \/ SweepOver \/ UNCHANGED vars
  BY <1>4, QuietSteps
<1>5. CASE SweepOut
  BY <1>5, SweepOutStep
<1>6. CASE Restart
  BY <1>6, RestartStep
<1> QED
  BY <1>1, <1>2, <1>3, <1>4, <1>5, <1>6 DEF Next

\* In every state the invariant holds.
LEMMA IInvAlways == Spec => []IInv
<1>1. IInv /\ [Next]_vars => IInv'
  BY IInvInductive
<1> QED
  BY <1>1, InitIInv, PTL DEF Spec

\* The types of the client's state; the timer's walk never stands beyond the
\* end of a chain, whatever calls and answers it causes.
THEOREM TypeCorrect == Spec => []TypeOK
<1>1. IInv => TypeOK
  BY DEF IInv
<1> QED
  BY <1>1, IInvAlways, PTL

\* No closure is run again after its last answer or its timeout.
THEOREM ClosuresEndOnce == Spec => []EndsOnce
<1>1. IInv => EndsOnce
  BY DEF IInv
<1> QED
  BY <1>1, IInvAlways, PTL

\* A closure is run with answers to its own call, as long as the process that
\* made the call lives.
THEOREM AnswersAreOwn == Spec => []OwnAnswer
<1>1. ASSUME IInv PROVE OwnAnswer
  <2> SUFFICES ASSUME NEW c \in Calls, NEW i \in 1 .. Len(events[c]),
                      NEW k, k = events[c][i][2], k \in Calls, born[k] = born[c]
               PROVE  k = c
    BY DEF OwnAnswer
  <2>1. k # Nobody
    BY DEF Calls, Nobody
  <2> QED
    BY <2>1, <1>1 DEF IInv, EventsOwn, IdsUnique
<1> QED
  BY <1>1, IInvAlways, PTL

\* m_Size is the number of the callbacks in the map and of the forgotten ones:
\* those two together are the open calls.
THEOREM SizeIsOpenCalls == Spec => []SizeCounts
<1>1. ASSUME IInv PROVE SizeCounts
  <2>1. /\ Registered \subseteq Open /\ Forgotten = Open \ Registered
        /\ size = Cardinality(Open) /\ IsFiniteSet(Open)
    BY <1>1, RegisteredOpen, OpenFinite DEF IInv, Counted
  <2>2. /\ Cardinality(Forgotten) = Cardinality(Open) - Cardinality(Open \cap Registered)
        /\ Open \cap Registered = Registered
    BY <2>1, FS_Difference
  <2>3. Cardinality(Registered) \in Nat /\ Cardinality(Open) \in Nat
    BY <2>1, FS_Subset, FS_CardinalityType
  <2> QED
    BY <2>1, <2>2, <2>3 DEF SizeCounts
<1> QED
  BY <1>1, IInvAlways, PTL

\* A callback leaves the map only with the last run of its closure, and only
\* a call made by the last closure of a chain to time out is forgotten.
THEOREM CallbacksKept == Spec => Kept
<1>1. IInv /\ [Next]_vars => [KeptStep]_vars
  BY IInvInductive
<1> QED
  BY <1>1, IInvAlways, PTL DEF Spec, Kept

=============================================================================
