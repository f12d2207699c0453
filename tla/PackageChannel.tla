--------------------------- MODULE PackageChannel ---------------------------
(***************************************************************************)
(* What a link (module Link) promises the queues of the message bus: whole *)
(* packages, in order and at most once on each connection.  A connection   *)
(* that breaks loses the last packages it carries, none in between, and a  *)
(* package is only given to a connection when it leaves the queue.         *)
(* Packages are numbered in the order in which they are queued, so that a  *)
(* set of them is a sequence.                                              *)
(***************************************************************************)
EXTENDS Naturals, Sequences

CONSTANTS Msgs,   \* packages: 1 .. n
          Conns   \* connections, one after another: 1 .. n

NoPackage == 0

VARIABLES queue,   \* packages to be sent
          last,    \* the last package that was queued, 0 before the first
          cur,     \* the connection in use, 0 before the first
          ok,      \* the connections that have not failed
          flight,  \* whole packages on the way, for each connection
          got      \* packages received, each with its connection

chVars == <<queue, last, cur, ok, flight, got>>

Init ==
    /\ queue = <<>> /\ last = 0
    /\ cur = 0 /\ ok = {}
    /\ flight = [c \in Conns |-> {}]
    /\ got = <<>>

Send(m) ==
    /\ m = last + 1
    /\ last' = m
    /\ queue' = Append(queue, m)
    /\ UNCHANGED <<cur, ok, flight, got>>

Connect ==
    /\ cur \notin ok
    /\ cur + 1 \in Conns
    /\ cur' = cur + 1
    /\ ok' = ok \cup {cur'}
    /\ UNCHANGED <<queue, last, flight, got>>

Transmit ==
    /\ queue # <<>>
    /\ cur \in ok
    /\ queue' = Tail(queue)
    /\ Head(queue) \notin flight[cur]
    /\ flight' = [flight EXCEPT ![cur] = @ \cup {Head(queue)}]
    /\ UNCHANGED <<last, cur, ok, got>>

\* A package can be lost with a connection that failed unnoticed.
Waste ==
    /\ queue # <<>>
    /\ cur \in Conns \ ok
    /\ queue' = Tail(queue)
    /\ UNCHANGED <<last, cur, ok, flight, got>>

\* The first package on the way arrives.
Deliver(c, m) ==
    /\ m \in flight[c]
    /\ \A n \in flight[c] : m <= n
    /\ got' = Append(got, [conn |-> c, msg |-> m])
    /\ flight' = [flight EXCEPT ![c] = @ \ {m}]
    /\ UNCHANGED <<queue, last, cur, ok>>

\* Something that is no package arrives on a connection that failed.
Garble(c) ==
    /\ c \notin ok
    /\ got' = Append(got, [conn |-> c, msg |-> NoPackage])
    /\ UNCHANGED <<queue, last, cur, ok, flight>>

\* The last packages on the way are lost: those before one that is kept are.
Fail(c) ==
    /\ ok' = ok \ {c}
    /\ \E kept \in SUBSET flight[c] :
         /\ \A m \in kept : \A n \in flight[c] : n < m => n \in kept
         /\ flight' = [flight EXCEPT ![c] = kept]
    /\ UNCHANGED <<cur, got>>

Break(c) == Fail(c) /\ UNCHANGED <<queue, last>>

\* The queue is cleared for one package that tells so; the connection in use
\* fails unless it is between two packages.
Reset(m) ==
    /\ m = last + 1
    /\ last' = m
    /\ queue' = <<m>>
    /\ \/ cur \in Conns /\ Fail(cur)
       \/ UNCHANGED <<cur, ok, flight, got>>

Next ==
    \/ \E m \in Msgs : Send(m) \/ Reset(m)
    \/ Connect \/ Transmit \/ Waste
    \/ \E c \in Conns : (\E m \in Msgs : Deliver(c, m)) \/ Garble(c) \/ Break(c)

Spec == Init /\ [][Next]_chVars

=============================================================================
