------------------------------ MODULE RpcCalls ------------------------------
(***************************************************************************)
(* Remote calls of one client process: AddCallback and SendRequest of       *)
(* CRpcServiceBase, the CCallbackMap of its CPeerGlobals (hash buckets of    *)
(* chained CCallbacks), OnResponse and OnPartResponse of CPeerServiceBase,   *)
(* and the timer that ends the calls nobody answers.                         *)
(*                                                                         *)
(* The process has one thread, but a sweep of the timer runs closures of     *)
(* the application in the middle of its walk along the chains, and such a    *)
(* closure may make the next call: so a sweep is one step per callback.      *)
(* The bus may lose requests and answers, and a server may answer a request  *)
(* twice when the bus has delivered it twice.  A call stands for its         *)
(* CCallback and its CClosure.                                              *)
(***************************************************************************)
EXTENDS Integers, Sequences, FiniteSets, FiniteSetsExt, SequencesExt

CONSTANTS
    MaxCalls,     \* bound: calls, numbered in the order they are made
    Buckets,      \* m_Capacity: buckets are 1 .. Buckets
    Hash,         \* the bucket of each callback id
    MapLimit,     \* entries at which IsCallbackMapFull says so
    Timeout,      \* m_Timeout in ticks of the timer (30 in the code)
    Deliveries,   \* bound: what of the answers to a call can reach the client
    MaxLives      \* bound: times the process is started

ASSUME MaxCallsAssumption == MaxCalls \in Nat
ASSUME BucketsAssumption == Buckets \in Nat \ {0}
Calls == 1 .. MaxCalls
MaxId == MaxCalls       \* callback ids have 32 bits: they do not wrap
ASSUME HashAssumption == Hash \in [1 .. MaxId -> 1 .. Buckets]
ASSUME MapLimitAssumption == MapLimit \in Nat
ASSUME TimeoutAssumption == Timeout \in Nat
ASSUME BoundsAssumption ==
    Deliveries \subseteq Seq({"PART_OK", "OK"}) /\ MaxLives \in Nat \ {0}

VARIABLES
    life,       \* which run of the process this is
    chain,      \* m_Data: the chain of each bucket
    size,       \* m_Size
    unique,     \* m_UniqueId
    id,         \* the callback id a call was sent with, 0 for none
    born,       \* the life in which a call was made, 0 when it was not
    time,       \* CCallback::m_Time in ticks, 0 without a callback
    events,     \* what each closure was run with, and whose answer it was
    sweep,      \* where AutoRemoveTimeoutCallback is, or Idle
    wire,       \* answers to each call on their way
    answered    \* the calls that were answered

mapVars == <<chain, size, unique, id, born>>
callVars == <<time, events>>
netVars == <<wire, answered>>
vars == <<life, mapVars, callVars, sweep, netVars>>

Event == {"PART_OK", "OK", "E_TIMEOUT"} \X (Calls \cup {0})

Idle == <<0, 0>>
Nobody == 0

Init ==
    /\ life = 1
    /\ chain = [b \in 1 .. Buckets |-> <<>>]
    /\ size = 0
    /\ unique = 0
    /\ id = [c \in Calls |-> 0]
    /\ born = [c \in Calls |-> 0]
    /\ time = [c \in Calls |-> 0]
    /\ events = [c \in Calls |-> <<>>]
    /\ sweep = Idle
    /\ wire = [c \in Calls |-> <<>>]
    /\ answered = {}

Registered == UNION {ToSet(chain[b]) : b \in 1 .. Buckets}
Ended(c) == \E i \in 1 .. Len(events[c]) : events[c][i][1] # "PART_OK"

\* CCallbackMap::Get: the callback with this id, if there is one.
Get(cbid) == {c \in Registered : id[c] = cbid}

----------------------------------------------------------------------------
\* Making calls.

\* Mutant of AllocUniqueId: the smallest id that is free.
AllocFreeId(u) == CHOOSE i \in 1 .. MaxId :
                    Get(i) = {} /\ \A j \in 1 .. (i - 1) : Get(j) # {}

\* CCallbackMap::AllocUniqueId.
AllocUniqueId(u) == u + 1

\* AddCallback and SendRequest: a new callback goes to the end of its chain;
\* in a map that is full it gets the id 0, and the request is sent all the same.
IsCallbackMapFull == size >= MapLimit
NewCall(c) ==
    /\ born[c] = 0 /\ \A d \in 1 .. (c - 1) : born[d] # 0
    /\ born' = [born EXCEPT ![c] = life]
    /\ unique' = IF IsCallbackMapFull THEN unique ELSE AllocUniqueId(unique)
    /\ id' = [id EXCEPT ![c] = IF IsCallbackMapFull THEN 0 ELSE AllocUniqueId(unique)]

\* PutPtr: the chains and m_Size with the callback of a new call c.
ChainWith(c) ==
    IF IsCallbackMapFull THEN chain
    ELSE [chain EXCEPT ![Hash[AllocUniqueId(unique)]] = Append(@, c)]

\* Mutant: a refused callback is counted.
SizeWithRefused == size + 1

SizeWithOne == IF IsCallbackMapFull THEN size ELSE size + 1

Call(c) ==
    /\ sweep = Idle
    /\ NewCall(c)
    /\ chain' = ChainWith(c)
    /\ size' = SizeWithOne
    /\ UNCHANGED <<life, callVars, sweep, netVars>>

----------------------------------------------------------------------------
\* Answers.

\* A server answers, with partial answers before the last one.  What the bus
\* delivers of it may lack any part, and has the answer twice when the bus
\* delivered the request twice.
Answer(c) ==
    /\ id[c] # 0
    /\ c \notin answered
    /\ answered' = answered \cup {c}
    /\ \E d \in Deliveries : wire' = [wire EXCEPT ![c] = d]
    /\ UNCHANGED <<life, mapVars, callVars, sweep>>

\* Mutant: the callback stays in the map.
OnResponseKeeping(k) ==
    /\ sweep = Idle
    /\ wire[k] # <<>> /\ Head(wire[k]) = "OK"
    /\ wire' = [wire EXCEPT ![k] = Tail(@)]
    /\ \/ /\ Get(id[k]) = {}
          /\ UNCHANGED <<chain, size, callVars>>
       \/ \E c \in Get(id[k]) :
          /\ events' = [events EXCEPT ![c] = Append(@, <<"OK", k>>)]
          /\ UNCHANGED <<chain, size, time>>
    /\ UNCHANGED <<life, unique, id, born, sweep, answered>>

\* Del: the callback at position i leaves the chain of bucket b.
Del(b, i) == [chain EXCEPT ![b] = RemoveAt(@, i)]

\* OnResponse for an answer to the call k: the callback with its id runs its
\* closure and is deleted.  Without one the answer is ignored.  A call that
\* the closure makes has the effect of Call just before.
OnResponse(k) ==
    /\ sweep = Idle
    /\ wire[k] # <<>> /\ Head(wire[k]) = "OK"
    /\ wire' = [wire EXCEPT ![k] = Tail(@)]
    /\ \/ /\ Get(id[k]) = {}
          /\ UNCHANGED <<chain, size, callVars>>
       \/ \E b \in 1 .. Buckets : \E i \in 1 .. Len(chain[b]) :
          LET c == chain[b][i]
          IN /\ id[c] = id[k]
             /\ events' = [events EXCEPT ![c] = Append(@, <<"OK", k>>)]
             /\ time' = [time EXCEPT ![c] = 0]
             /\ chain' = Del(b, i)
             /\ size' = size - 1
    /\ UNCHANGED <<life, unique, id, born, sweep, answered>>

\* OnPartResponse: the closure runs, and the callback's time starts again.
OnPartResponse(k) ==
    /\ sweep = Idle
    /\ wire[k] # <<>> /\ Head(wire[k]) = "PART_OK"
    /\ wire' = [wire EXCEPT ![k] = Tail(@)]
    /\ \/ /\ Get(id[k]) = {}
          /\ UNCHANGED callVars
       \/ \E c \in Get(id[k]) :
          /\ events' = [events EXCEPT ![c] = Append(@, <<"PART_OK", k>>)]
          /\ time' = [time EXCEPT ![c] = 0]
    /\ UNCHANGED <<life, mapVars, sweep, answered>>

----------------------------------------------------------------------------
\* The timer.

\* Where the walk of EnumAll goes when it has left bucket b: a bucket is
\* walked from its second callback to the last, its first comes at the end.
Bucket(b, ch) ==
    LET B == {j \in (b + 1) .. Buckets : ch[j] # <<>>}
    IN IF B = {} THEN Idle
       ELSE <<Min(B), IF Len(ch[Min(B)]) > 1 THEN 2 ELSE 1>>

\* Mutant: the walk of a chain takes one callback too many.
OnwardPast(b, i, n, ch) ==
    IF i = 1 THEN Bucket(b, ch)
    ELSE IF i <= n + 1 THEN <<b, i>> ELSE <<b, 1>>

\* The walk from position i of bucket b when it has left n callbacks of it.
Onward(b, i, n, ch) ==
    IF i = 1 THEN Bucket(b, ch)
    ELSE IF i <= n THEN <<b, i>> ELSE <<b, 1>>

\* Mutant: time stops at the timeout, which it has to exceed.
TickSaturating ==
    /\ sweep = Idle
    /\ Registered # {}
    /\ time' = [c \in Calls |-> IF c \in Registered /\ time[c] < Timeout
                               THEN time[c] + 1 ELSE time[c]]
    /\ sweep' = Bucket(0, chain)
    /\ UNCHANGED <<life, mapVars, events, netVars>>

\* A tick: IncAllCallbackTime, and AutoRemoveTimeoutCallback begins.
Tick ==
    /\ sweep = Idle
    /\ Registered # {}
    /\ time' = [c \in Calls |-> IF c \in Registered THEN time[c] + 1 ELSE time[c]]
    /\ sweep' = Bucket(0, chain)
    /\ UNCHANGED <<life, mapVars, events, netVars>>

Here == chain[sweep[1]][sweep[2]]
IsTimeout(c) == time[c] > Timeout

\* EnumAll at a callback that has not timed out.
SweepOver ==
    /\ sweep # Idle
    /\ ~IsTimeout(Here)
    /\ LET b == sweep[1]
           i == sweep[2]
       IN sweep' = Onward(b, i + (IF i = 1 THEN 0 ELSE 1), Len(chain[b]), chain)
    /\ UNCHANGED <<life, mapVars, callVars, netVars>>

\* Mutant: what follows the callback goes with it.
UnlinkRest(q, n, i) == SubSeq(q, 1, i - 1)

\* The chain q without its i-th callback.  The link to the next callback was
\* read when the chain had n callbacks: behind the last one there was nothing.
Unlink(q, n, i) == IF i = n THEN SubSeq(q, 1, i - 1) ELSE RemoveAt(q, i)

\* EnumAll at a callback that has timed out: its closure runs with E_TIMEOUT
\* and may make a call, then the callback is unlinked and deleted.
SweepOut ==
    /\ sweep # Idle
    /\ IsTimeout(Here)
    /\ events' = [events EXCEPT ![Here] = Append(@, <<"E_TIMEOUT", Nobody>>)]
    /\ LET b == sweep[1]
           i == sweep[2]
           n == Len(chain[b])
       IN /\ \/ /\ chain' = [chain EXCEPT ![b] = Unlink(@, n, i)]
                /\ size' = size - 1
                /\ UNCHANGED <<unique, id, born>>
             \/ \E c \in Calls :
                /\ NewCall(c)
                /\ chain' = [ChainWith(c) EXCEPT ![b] = Unlink(@, n, i)]
                /\ size' = SizeWithOne - 1
          /\ sweep' = Onward(b, i, Len(chain'[b]), chain')
    /\ time' = [time EXCEPT ![Here] = 0]
    /\ UNCHANGED <<life, netVars>>

\* The process ends, at any time, and is started again under its name; the
\* answers that wait for the name reach the new process.
Restart ==
    /\ life < MaxLives
    /\ life' = life + 1
    /\ chain' = [b \in 1 .. Buckets |-> <<>>]
    /\ size' = 0
    /\ unique' = 0
    /\ sweep' = Idle
    /\ time' = [c \in Calls |-> 0]
    /\ UNCHANGED <<id, born, events, netVars>>

----------------------------------------------------------------------------
Next ==
    \/ \E c \in Calls : Call(c) \/ Answer(c) \/ OnResponse(c) \/ OnPartResponse(c)
    \/ Tick \/ SweepOver \/ SweepOut \/ Restart

\* The timer task is scheduled again and again, and a sweep is not
\* interrupted.  Nothing is assumed of servers and of the bus.
Spec == Init /\ [][Next]_vars
FairSpec == Spec /\ WF_vars(Tick) /\ WF_vars(SweepOver) /\ WF_vars(SweepOut)

----------------------------------------------------------------------------
\* The type invariant; a sweep always stands at a callback of a chain.
TypeOK ==
    /\ life \in 1 .. MaxLives
    /\ chain \in [1 .. Buckets -> Seq(Calls)]
    /\ size \in Nat
    /\ unique \in 0 .. MaxId
    /\ id \in [Calls -> 0 .. MaxId]
    /\ born \in [Calls -> 0 .. MaxLives]
    /\ time \in [Calls -> Nat]
    /\ events \in [Calls -> Seq(Event)]
    /\ sweep \in {Idle} \cup ((1 .. Buckets) \X (1 .. MaxId))
    /\ sweep # Idle => sweep[2] <= Len(chain[sweep[1]])
    /\ wire \in [Calls -> Seq({"PART_OK", "OK"})]
    /\ answered \subseteq Calls

\* A closure is run for the last time once: nothing follows an OK or an
\* E_TIMEOUT, however answers, repeated answers and sweeps interleave.
EndsOnce ==
    \A c \in Calls : \A i \in 1 .. (Len(events[c]) - 1) : events[c][i][1] = "PART_OK"

\* Nobody compares the method of an answer with that of the call: only the id
\* tells answers apart.  A late answer never ends another call, unless that
\* call was made by a process started since.
OwnAnswer ==
    \A c \in Calls : \A i \in 1 .. Len(events[c]) :
        LET k == events[c][i][2]
        IN k \in Calls /\ born[k] = born[c] => k = c

\* A call the map has forgotten: neither ended nor registered any more.
Forgotten ==
    {c \in Calls : born[c] = life /\ id[c] # 0 /\ ~Ended(c) /\ c \notin Registered}

\* A callback leaves the map only with the last run of its closure; a new
\* one is missing from the map only if the closure that made the call was the
\* last of its chain to time out and both share that chain.
KeptStep ==
    life' = life => \A c \in Calls :
        /\ c \in Registered /\ c \notin Registered' => Ended(c)'
        /\ c \in Forgotten' \ Forgotten =>
            /\ sweep # Idle
            /\ Hash[id'[c]] = sweep[1]
            /\ sweep[2] = Len(chain[sweep[1]])
Kept == [][KeptStep]_vars

\* m_Size, which closes a small map at its limit, counts the callbacks in the
\* map and, for ever, the forgotten ones.
SizeCounts == size = Cardinality(Registered) + Cardinality(Forgotten)

\* A call that was registered ends, by an answer or by the timer, unless it is
\* forgotten or its process ends.
EveryCallEnds ==
    \A c \in Calls :
        (born[c] # 0 /\ id[c] # 0) ~> (Ended(c) \/ c \in Forgotten \/ born[c] # life)
=============================================================================
