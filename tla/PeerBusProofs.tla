---------------------------- MODULE PeerBusProofs ----------------------------
(***************************************************************************)
(* Proofs about the message bus (PeerBus.tla) for every set of clients,     *)
(* names and messages, every limit and every number of connections, cuts    *)
(* and restarts.  A server task and the proxy it has logged in to point at  *)
(* each other; that survives because a task passes its steps only forwards, *)
(* no proxy refers to a task that is still to begin, and a task that is     *)
(* writing a message is attached to a proxy with something pending.         *)
(***************************************************************************)
EXTENDS PeerBus, SequenceLemmas

\* TypeOK by its owners.
ClientOK ==
    /\ cstep \in [Clients -> {"RETRY", "GET_SOCKET", "LINKED", "STOPPED"}]
    /\ nconn \in [Clients -> Nat] /\ \A cl \in Clients : nconn[cl] <= MaxConn[cl]
    /\ cqueue \in [Clients -> Seq(Msgs \cup {INIT_NAME})]
    /\ \A cl \in Clients : Len(cqueue[cl]) <= QueueLen
    /\ sent \subseteq Msgs
    /\ got \in [Clients -> Seq(Msgs)]
WaysOK ==
    /\ up \in [Conns -> Seq(Msgs \cup {INIT_NAME})]
    /\ down \in [Conns -> Seq(Msgs \cup {INIT_CHECK_FAIL})]
    /\ broken \subseteq Conns
    /\ restarts \in 0 .. MaxRestarts
CenterOK ==
    /\ srv \in [Conns -> ServerTask]
    /\ proxy \in [Names -> Proxy]
    /\ \A n \in Names : Len(proxy[n].pending) <= QueueLen

\* A client that is linked has a connection.  A task that nobody has connected
\* to yet is new, one that has not begun has not logged in, only a linked one
\* writes, and what it writes is pending at its proxy.
TaskFits(c) ==
    /\ c[2] > nconn[c[1]] => srv[c].step = "NONE"
    /\ srv[c].step \in {"NONE", "BACKLOG"} => ~srv[c].host
    /\ srv[c].step # "LINKED" => srv[c].writing = "NO"
    /\ srv[c].writing = "MSG" => srv[c].host /\ proxy[Name(c)].pending # <<>>
TasksFit ==
    /\ \A cl \in Clients : cstep[cl] = "LINKED" => nconn[cl] > 0
    /\ \A c \in Conns : TaskFits(c)

\* The task of a proxy has its name and has begun.
ProxyFits(n) ==
    /\ ~proxy[n].here => proxy[n].task = NoTask /\ proxy[n].pending = <<>>
    /\ proxy[n].task # NoTask =>
         Name(proxy[n].task) = n /\ srv[proxy[n].task].step \notin {"NONE", "BACKLOG"}
ProxiesFit == \A n \in Names : ProxyFits(n)

IInv == ClientOK /\ WaysOK /\ CenterOK /\ AttachmentMutual /\ TasksFit /\ ProxiesFit

\* The type invariant, part by part.
LEMMA TypeParts == TypeOK <=> ClientOK /\ WaysOK /\ CenterOK
BY DEF TypeOK, ClientOK, WaysOK, CenterOK

\* A connection is a client and a number.
LEMMA ConnFacts ==
    /\ \A cl \in Clients, i \in Nat : 0 < i /\ i <= MaxConn[cl] => <<cl, i>> \in Conns
    /\ \A c \in Conns : /\ c[1] \in Clients /\ c[2] \in Nat
                        /\ 0 < c[2] /\ c[2] <= MaxConn[c[1]]
                        /\ c = <<c[1], c[2]>>
                        /\ Name(c) \in Names /\ Name(c) = NameOf[c[1]]
    /\ NoTask \notin Conns
<1>1. \A cl \in Clients : MaxConn[cl] \in Nat
  BY MaxConnAssumption
<1>2. ASSUME NEW cl \in Clients, NEW i \in Nat, 0 < i, i <= MaxConn[cl]
      PROVE  <<cl, i>> \in Conns
  <2>1. i \in 1 .. MaxConn[cl]
    BY <1>1, <1>2
  <2> QED
    BY <2>1 DEF Conns
<1>3. ASSUME NEW c \in Conns
      PROVE  /\ c[1] \in Clients /\ c[2] \in Nat
             /\ 0 < c[2] /\ c[2] <= MaxConn[c[1]]
             /\ c = <<c[1], c[2]>>
             /\ Name(c) \in Names /\ Name(c) = NameOf[c[1]]
  <2>1. PICK cl \in Clients : c \in {cl} \X (1 .. MaxConn[cl])
    BY DEF Conns
  <2>2. PICK i \in 1 .. MaxConn[cl] : c = <<cl, i>>
    BY <2>1
  <2>3. c[1] = cl /\ c[2] = i
    BY <2>2
  <2> QED
    BY <1>1, <2>2, <2>3, NameOfAssumption DEF Name
<1> QED
  BY <1>2, <1>3, NoTaskAssumption

\* A bounded queue takes an element or stays as it is.
LEMMA PushFacts ==
    ASSUME NEW S, NEW q \in Seq(S), NEW x \in S, Len(q) <= QueueLen
    PROVE  /\ Push(q, x) \in Seq(S) /\ Len(Push(q, x)) <= QueueLen
           /\ PushHead(q, x) \in Seq(S) /\ Len(PushHead(q, x)) <= QueueLen
           /\ Push(q, x) = q \/ Push(q, x) = Append(q, x)
           /\ PushHead(q, x) = q \/ PushHead(q, x) = <<x>> \o q
           /\ q # <<>> => Push(q, x) # <<>>
<1>1. Len(q) \in Nat /\ QueueLen \in Nat
  BY QueueLenAssumption
<1>2. Append(q, x) \in Seq(S) /\ Len(Append(q, x)) = Len(q) + 1 /\ Append(q, x) # <<>>
  <2>1. Append(q, x) \in Seq(S) /\ Len(Append(q, x)) = Len(q) + 1
    BY AppendProperties
  <2> QED
    BY <1>1, <2>1
<1>3. <<x>> \o q \in Seq(S) /\ Len(<<x>> \o q) = Len(q) + 1
  <2>1. <<x>> \in Seq(S) /\ Len(<<x>>) = 1
    OBVIOUS
  <2> QED
    BY <1>1, <2>1, ConcatProperties
<1>4. CASE Len(q) < QueueLen
  BY <1>1, <1>2, <1>3, <1>4 DEF Push, PushHead
<1>5. CASE ~(Len(q) < QueueLen)
  BY <1>5 DEF Push, PushHead
<1> QED
  BY <1>4, <1>5

----------------------------------------------------------------------------
\* Steps that do not touch the center's tasks and proxies.
LEMMA CenterQuiet ==
    ASSUME IInv, ClientOK', WaysOK', UNCHANGED <<nconn, srv, proxy>>,
           \A cl \in Clients : cstep'[cl] = "LINKED" => cstep[cl] = "LINKED"
    PROVE  IInv'
<1>1. CenterOK' /\ AttachmentMutual' /\ TasksFit' /\ ProxiesFit'
  BY DEF IInv, CenterOK, AttachmentMutual, TasksFit, TaskFits, ProxiesFit, ProxyFits,
         IsTask, TaskIn, IsConnectionAlive
<1> QED
  BY <1>1 DEF IInv

\* A task changes, and no proxy.
LEMMA OneTask ==
    ASSUME IInv, NEW c \in Conns, NEW r \in ServerTask,
           srv' = [srv EXCEPT ![c] = r], proxy' = proxy, ClientOK', WaysOK',
           \A cl \in Clients : cstep'[cl] = "LINKED" => nconn'[cl] > 0,
           \A d \in Conns : d # c /\ d[2] > nconn'[d[1]] => d[2] > nconn[d[1]],
           c[2] > nconn'[c[1]] => r.step = "NONE",
           r.step \in {"LINKED", "LINGER"} => /\ r.host = srv[c].host
                                              /\ srv[c].step \in {"BACKLOG", "LINKED", "LINGER"},
           r.step \in {"NONE", "BACKLOG"} => ~r.host /\ srv[c].step = "NONE",
           r.step # "LINKED" => r.writing = "NO",
           r.writing = "MSG" => r.host /\ proxy[Name(c)].pending # <<>>
    PROVE  IInv'
<1>1. \A d \in Conns : srv'[d] = IF d = c THEN r ELSE srv[d]
  BY DEF IInv, CenterOK
<1>2. CenterOK'
  BY DEF IInv, CenterOK
<1>3. ASSUME NEW t \in Conns, IsTask(t)'
      PROVE  /\ srv'[t].host = srv[t].host
             /\ srv[t].step # "BACKLOG" => IsTask(t)
             /\ srv[t].step # "NONE"
  BY <1>1, <1>3 DEF IsTask, TaskIn
<1>4. AttachmentMutual'
  <2>1. ASSUME NEW d \in Conns, IsTask(d)', srv'[d].host
        PROVE  proxy[Name(d)].here /\ proxy[Name(d)].task = d
    <3>1. srv[d].host /\ IsTask(d)
      BY <1>3, <2>1 DEF IInv, TasksFit, TaskFits
    <3> QED
      BY <3>1 DEF IInv, AttachmentMutual
  <2>2. ASSUME NEW n \in Names, proxy[n].here, IsTask(proxy[n].task)'
        PROVE  srv'[proxy[n].task].host /\ Name(proxy[n].task) = n
    <3>1. proxy[n].task \in Conns
      BY <2>2 DEF IInv, CenterOK, Proxy, IsTask, TaskIn
    <3>2. srv[proxy[n].task].step # "BACKLOG"
      BY <3>1, ConnFacts DEF IInv, ProxiesFit, ProxyFits
    <3>3. proxy' = proxy
      OBVIOUS
    <3>4. IsConnectionAlive(n) /\ srv'[proxy[n].task].host = srv[proxy[n].task].host
      BY <3>1, <3>2, <3>3, <1>3, <2>2 DEF IsConnectionAlive, IsTask
    <3> QED
      BY <3>4 DEF IInv, AttachmentMutual
  <2> QED
    BY <2>1, <2>2 DEF AttachmentMutual, IsConnectionAlive, IsTask
<1>5. TasksFit'
  BY <1>1 DEF IInv, TasksFit, TaskFits
<1>6. ProxiesFit'
  <2> SUFFICES ASSUME NEW n \in Names
               PROVE  ProxyFits(n)'
    BY DEF ProxiesFit
  <2>1. proxy[n].task \in Conns \cup {NoTask} /\ ProxyFits(n)
    BY DEF IInv, CenterOK, Proxy, ProxiesFit
  <2> QED
    BY <2>1, <1>1 DEF ProxyFits
<1> QED
  BY <1>2, <1>4, <1>5, <1>6 DEF IInv

----------------------------------------------------------------------------
\* The client's steps.
LEMMA SendStep ==
    ASSUME IInv, NEW m \in Msgs, C_Send(m)
    PROVE  IInv'
<1>1. /\ sent' = sent \cup {m}
      /\ cqueue' = IF cstep[Sender[m]] = "STOPPED" THEN cqueue
                   ELSE [cqueue EXCEPT ![Sender[m]] = Push(@, m)]
      /\ UNCHANGED <<cstep, nconn, got, up, down, broken, srv, proxy, restarts>>
  BY DEF C_Send
<1>2. Sender[m] \in Clients
  BY SenderAssumption
<1>3. Push(cqueue[Sender[m]], m) \in Seq(Msgs \cup {INIT_NAME})
      /\ Len(Push(cqueue[Sender[m]], m)) <= QueueLen
  BY <1>2, PushFacts DEF IInv, ClientOK
<1>4. ClientOK'
  BY <1>1, <1>2, <1>3 DEF IInv, ClientOK
<1>5. WaysOK'
  BY <1>1 DEF IInv, WaysOK
<1> QED
  BY <1>1, <1>4, <1>5, CenterQuiet

\* C_Run and C_ConnectFail keep the invariant.
LEMMA RunStep ==
    ASSUME IInv, NEW cl \in Clients, C_Run(cl) \/ C_ConnectFail(cl)
    PROVE  IInv'
<1>1. /\ \E x \in {"RETRY", "GET_SOCKET"} : cstep' = [cstep EXCEPT ![cl] = x]
      /\ UNCHANGED <<nconn, cqueue, sent, got, up, down, broken, srv, proxy, restarts>>
  BY DEF C_Run, C_ConnectFail
<1>2. ClientOK' /\ \A k \in Clients : cstep'[k] = "LINKED" => cstep[k] = "LINKED"
  BY <1>1 DEF IInv, ClientOK
<1>3. WaysOK'
  BY <1>1 DEF IInv, WaysOK
<1> QED
  BY <1>1, <1>2, <1>3, CenterQuiet

\* C_Connected keeps the invariant.
LEMMA ConnectedStep ==
    ASSUME IInv, NEW cl \in Clients, C_Connected(cl)
    PROVE  IInv'
<1> DEFINE c == <<cl, nconn[cl] + 1>>
           r == [srv[c] EXCEPT !.step = "BACKLOG"]
<1>1. /\ nconn[cl] < MaxConn[cl]
      /\ nconn' = [nconn EXCEPT ![cl] = @ + 1]
      /\ cstep' = [cstep EXCEPT ![cl] = "LINKED"]
      /\ cqueue' = [cqueue EXCEPT ![cl] = PushHead(@, INIT_NAME)]
      /\ srv' = [srv EXCEPT ![c].step = "BACKLOG"]
      /\ UNCHANGED <<sent, got, up, down, broken, proxy, restarts>>
  BY DEF C_Connected
<1>2. /\ nconn[cl] \in Nat /\ MaxConn[cl] \in Nat /\ cqueue[cl] \in Seq(Msgs \cup {INIT_NAME})
      /\ Len(cqueue[cl]) <= QueueLen
  BY MaxConnAssumption DEF IInv, ClientOK
<1>3. c \in Conns /\ c[1] = cl /\ c[2] = nconn[cl] + 1
  BY <1>1, <1>2, ConnFacts
<1>4. /\ srv[c].step = "NONE" /\ ~srv[c].host /\ srv[c].writing = "NO"
      /\ srv[c] \in ServerTask
  BY <1>2, <1>3 DEF IInv, CenterOK, TasksFit, TaskFits
<1>5. PushHead(cqueue[cl], INIT_NAME) \in Seq(Msgs \cup {INIT_NAME})
      /\ Len(PushHead(cqueue[cl], INIT_NAME)) <= QueueLen
  BY <1>2, PushFacts
<1>6. ClientOK'
  <2>1. nconn' \in [Clients -> Nat] /\ \A k \in Clients : nconn'[k] <= MaxConn[k]
    BY <1>1, <1>2 DEF IInv, ClientOK
  <2>2. /\ cqueue' \in [Clients -> Seq(Msgs \cup {INIT_NAME})]
        /\ \A k \in Clients : Len(cqueue'[k]) <= QueueLen
    BY <1>1, <1>5 DEF IInv, ClientOK
  <2> QED
    BY <1>1, <2>1, <2>2 DEF IInv, ClientOK
<1>7. WaysOK'
  BY <1>1 DEF IInv, WaysOK
<1>8. \A k \in Clients : nconn'[k] = IF k = cl THEN nconn[cl] + 1 ELSE nconn[k]
  BY <1>1 DEF IInv, ClientOK
<1>9. \A k \in Clients : cstep'[k] = "LINKED" => nconn'[k] > 0
  <2> SUFFICES ASSUME NEW k \in Clients, cstep'[k] = "LINKED"
               PROVE  nconn'[k] > 0
    OBVIOUS
  <2>1. CASE k = cl
    BY <1>2, <1>8, <2>1
  <2>2. CASE k # cl
    <3>1. cstep[k] = "LINKED"
      BY <1>1, <2>2 DEF IInv, ClientOK
    <3> QED
      BY <3>1, <2>2, <1>8 DEF IInv, TasksFit
  <2> QED
    BY <2>1, <2>2
<1>10. /\ \A d \in Conns : d # c /\ d[2] > nconn'[d[1]] => d[2] > nconn[d[1]]
       /\ ~(c[2] > nconn'[c[1]])
  <2>1. \A d \in Conns : d[1] \in Clients /\ d[2] \in Nat
    BY ConnFacts
  <2>2. ASSUME NEW d \in Conns, d[2] > nconn'[d[1]]
        PROVE  d[2] > nconn[d[1]]
    <3>1. CASE d[1] = cl
      BY <3>1, <2>1, <2>2, <1>2, <1>8
    <3>2. CASE d[1] # cl
      BY <3>2, <2>1, <2>2, <1>8
    <3> QED
      BY <3>1, <3>2
  <2> QED
    BY <2>2, <1>2, <1>3, <1>8
<1>11. /\ r \in ServerTask /\ r.step = "BACKLOG" /\ r.host = srv[c].host
       /\ r.writing = "NO"
  BY <1>4 DEF ServerTask
<1>12. srv' = [srv EXCEPT ![c] = r]
  BY <1>1
<1> HIDE DEF r, c
<1> QED
  BY <1>1, <1>3, <1>4, <1>6, <1>7, <1>9, <1>10, <1>11, <1>12, OneTask

\* C_Write keeps the invariant.
LEMMA WriteStep ==
    ASSUME IInv, NEW cl \in Clients, C_Write(cl)
    PROVE  IInv'
<1> DEFINE c == Current(cl)
           x == Head(cqueue[cl])
<1>1. /\ cstep[cl] = "LINKED" /\ cqueue[cl] # <<>>
      /\ cqueue' = [cqueue EXCEPT ![cl] = Tail(@)]
      /\ up' = up \/ up' = [up EXCEPT ![c] = Append(@, x)]
      /\ UNCHANGED <<cstep, nconn, sent, got, down, broken, srv, proxy, restarts>>
  BY DEF C_Write
<1>2. /\ cqueue[cl] \in Seq(Msgs \cup {INIT_NAME})
      /\ Len(cqueue[cl]) <= QueueLen /\ nconn[cl] \in Nat /\ MaxConn[cl] \in Nat
      /\ 0 < nconn[cl] /\ nconn[cl] <= MaxConn[cl] /\ QueueLen \in Nat
  BY <1>1, MaxConnAssumption, QueueLenAssumption DEF IInv, ClientOK, TasksFit
<1>3. /\ x \in Msgs \cup {INIT_NAME} /\ Tail(cqueue[cl]) \in Seq(Msgs \cup {INIT_NAME})
      /\ Len(Tail(cqueue[cl])) <= QueueLen
  <2> DEFINE t == Tail(cqueue[cl])
  <2>1. /\ t \in Seq(Msgs \cup {INIT_NAME}) /\ Len(t) = Len(cqueue[cl]) - 1
        /\ Len(cqueue[cl]) \in Nat
    BY <1>1, <1>2, HeadTailProperties
  <2> HIDE DEF t
  <2>2. Len(t) <= QueueLen
    BY <1>2, <2>1
  <2> QED
    BY <1>1, <1>2, <2>1, <2>2 DEF t
<1>4. c \in Conns
  BY <1>2, ConnFacts DEF Current
<1>5. ClientOK'
  BY <1>1, <1>3 DEF IInv, ClientOK
<1>6. WaysOK'
  <2>1. up[c] \in Seq(Msgs \cup {INIT_NAME})
    BY <1>4 DEF IInv, WaysOK
  <2> HIDE DEF c, x
  <2>2. Append(up[c], x) \in Seq(Msgs \cup {INIT_NAME})
    BY <1>3, <2>1
  <2> QED
    BY <1>1, <2>2 DEF IInv, WaysOK
<1> QED
  BY <1>1, <1>5, <1>6, CenterQuiet

\* C_Read keeps the invariant.
LEMMA ReadStep ==
    ASSUME IInv, NEW cl \in Clients, C_Read(cl)
    PROVE  IInv'
<1> DEFINE c == Current(cl)
           x == Head(down[c])
<1>1. /\ cstep[cl] = "LINKED" /\ down[c] # <<>>
      /\ \/ /\ cstep' = [cstep EXCEPT ![cl] = "STOPPED"]
            /\ cqueue' = [cqueue EXCEPT ![cl] = <<>>]
            /\ down' = [down EXCEPT ![c] = <<>>]
            /\ got' = got
         \/ /\ x # INIT_CHECK_FAIL
            /\ got' = [got EXCEPT ![cl] = Append(@, x)]
            /\ down' = [down EXCEPT ![c] = Tail(@)]
            /\ UNCHANGED <<cstep, cqueue>>
      /\ UNCHANGED <<nconn, sent, up, broken, srv, proxy, restarts>>
  BY DEF C_Read
<1>2. /\ nconn[cl] \in Nat /\ MaxConn[cl] \in Nat /\ QueueLen \in Nat
      /\ 0 < nconn[cl] /\ nconn[cl] <= MaxConn[cl]
  BY <1>1, MaxConnAssumption, QueueLenAssumption DEF IInv, ClientOK, TasksFit
<1>3. c \in Conns
  BY <1>2, ConnFacts DEF Current
<1>4. down[c] \in Seq(Msgs \cup {INIT_CHECK_FAIL})
  BY <1>3 DEF IInv, WaysOK
<1>5. x \in Msgs \cup {INIT_CHECK_FAIL} /\ Tail(down[c]) \in Seq(Msgs \cup {INIT_CHECK_FAIL})
  BY <1>1, <1>4
<1> HIDE DEF c, x
<1>6. x # INIT_CHECK_FAIL => Append(got[cl], x) \in Seq(Msgs)
  BY <1>5 DEF IInv, ClientOK
<1>7. ClientOK'
  <2>1. <<>> \in Seq(Msgs \cup {INIT_NAME}) /\ Len(<<>>) <= QueueLen
    BY <1>2
  <2> QED
    BY <1>1, <1>6, <2>1 DEF IInv, ClientOK
<1>8. WaysOK'
  <2>1. <<>> \in Seq(Msgs \cup {INIT_CHECK_FAIL})
    OBVIOUS
  <2>2. \E s \in Seq(Msgs \cup {INIT_CHECK_FAIL}) : down' = [down EXCEPT ![c] = s]
    BY <1>1, <1>5, <2>1
  <2> QED
    BY <1>1, <2>2 DEF IInv, WaysOK
<1>9. \A k \in Clients : cstep'[k] = "LINKED" => cstep[k] = "LINKED"
  BY <1>1 DEF IInv, ClientOK
<1> QED
  BY <1>1, <1>7, <1>8, <1>9, CenterQuiet

\* C_Error keeps the invariant.
LEMMA ErrorStep ==
    ASSUME IInv, NEW cl \in Clients, C_Error(cl)
    PROVE  IInv'
<1>1. /\ cstep' = [cstep EXCEPT ![cl] = "RETRY"]
      /\ down' = [down EXCEPT ![Current(cl)] = <<>>]
      /\ UNCHANGED <<nconn, cqueue, sent, got, up, broken, srv, proxy, restarts>>
  BY DEF C_Error
<1>2. ClientOK' /\ \A k \in Clients : cstep'[k] = "LINKED" => cstep[k] = "LINKED"
  BY <1>1 DEF IInv, ClientOK
<1>3. WaysOK'
  <2>1. <<>> \in Seq(Msgs \cup {INIT_CHECK_FAIL})
    OBVIOUS
  <2> QED
    BY <1>1, <2>1 DEF IInv, WaysOK
<1> QED
  BY <1>1, <1>2, <1>3, CenterQuiet

\* A cut leaves the first packages of both ways.
LEMMA CutStep ==
    ASSUME IInv, NEW c \in Conns, Cut(c)
    PROVE  IInv'
<1>1. PICK i \in 0 .. Len(up[c]) : up' = [up EXCEPT ![c] = SubSeq(@, 1, i)]
  BY DEF Cut
<1>2. PICK j \in 0 .. Len(down[c]) : down' = [down EXCEPT ![c] = SubSeq(@, 1, j)]
  BY DEF Cut
<1>3. broken' = broken \cup {c} /\ UNCHANGED <<cstep, nconn, cqueue, sent, got, srv, proxy, restarts>>
  BY DEF Cut, clientVars
<1>4. /\ SubSeq(up[c], 1, i) \in Seq(Msgs \cup {INIT_NAME})
      /\ SubSeq(down[c], 1, j) \in Seq(Msgs \cup {INIT_CHECK_FAIL})
  BY PrefixFacts DEF IInv, WaysOK
<1>5. WaysOK'
  <2> DEFINE u == SubSeq(up[c], 1, i)
             v == SubSeq(down[c], 1, j)
  <2>1. up' = [up EXCEPT ![c] = u] /\ down' = [down EXCEPT ![c] = v]
    BY <1>1, <1>2
  <2>2. u \in Seq(Msgs \cup {INIT_NAME}) /\ v \in Seq(Msgs \cup {INIT_CHECK_FAIL})
    BY <1>4
  <2> HIDE DEF u, v
  <2> QED
    BY <1>3, <2>1, <2>2 DEF IInv, WaysOK
<1>6. ClientOK'
  BY <1>3 DEF IInv, ClientOK
<1> QED
  BY <1>3, <1>5, <1>6, CenterQuiet

----------------------------------------------------------------------------
\* The server task's steps that change no proxy.
LEMMA TaskOnlyStep ==
    ASSUME IInv, NEW c \in Conns, S_Accept(c) \/ S_Prepare(c) \/ S_Error(c) \/ S_Expire(c)
    PROVE  IInv'
<1>1. PICK r \in ServerTask :
        /\ srv' = [srv EXCEPT ![c] = r]
        /\ r.host = srv[c].host
        /\ \/ srv[c].step = "BACKLOG" /\ r.step = "LINKED" /\ r.writing = srv[c].writing
           \/ /\ srv[c].step = "LINKED" /\ r.step = "LINKED" /\ r.writing = "FAIL"
           \/ /\ srv[c].step = "LINKED" /\ r.step = "LINKED" /\ r.writing = "MSG"
              /\ srv[c].host /\ proxy[Name(c)].pending # <<>>
           \/ r.step \in {"LINGER", "QUIT"} /\ r.writing = "NO" /\ srv[c].step \in {"LINKED", "LINGER"}
  <2>1. srv[c] \in ServerTask /\ TaskFits(c)
    BY DEF IInv, CenterOK, TasksFit
  <2>2. CASE S_Accept(c)
    <3> DEFINE r == [srv[c] EXCEPT !.step = "LINKED"]
    <3>1. srv' = [srv EXCEPT ![c] = r] /\ srv[c].step = "BACKLOG"
      BY <2>2 DEF S_Accept
    <3>2. /\ r \in ServerTask /\ r.step = "LINKED" /\ r.host = srv[c].host
          /\ r.writing = srv[c].writing
      BY <2>1 DEF ServerTask
    <3> HIDE DEF r
    <3> QED
      BY <3>1, <3>2
  <2>3. CASE S_Prepare(c)
    <3>1. PICK x \in {"FAIL", "MSG"} :
             /\ srv' = [srv EXCEPT ![c].writing = x] /\ srv[c].step = "LINKED"
             /\ x = "MSG" => srv[c].host /\ proxy[Name(c)].pending # <<>>
      BY <2>3 DEF S_Prepare
    <3> DEFINE r == [srv[c] EXCEPT !.writing = x]
    <3>2. srv' = [srv EXCEPT ![c] = r]
      BY <3>1
    <3>3. /\ r \in ServerTask /\ r.step = "LINKED" /\ r.host = srv[c].host
          /\ r.writing = x
      BY <2>1, <3>1 DEF ServerTask
    <3> HIDE DEF r
    <3> QED
      BY <3>1, <3>2, <3>3
  <2>4. CASE S_Error(c)
    <3> DEFINE r == [srv[c] EXCEPT !.step = "LINGER", !.writing = "NO"]
    <3>1. srv' = [srv EXCEPT ![c] = r] /\ srv[c].step = "LINKED"
      BY <2>4 DEF S_Error
    <3>2. /\ r \in ServerTask /\ r.step = "LINGER" /\ r.host = srv[c].host
          /\ r.writing = "NO"
      BY <2>1 DEF ServerTask
    <3> HIDE DEF r
    <3> QED
      BY <3>1, <3>2
  <2>5. CASE S_Expire(c)
    <3> DEFINE r == [srv[c] EXCEPT !.step = "QUIT"]
    <3>1. srv' = [srv EXCEPT ![c] = r] /\ srv[c].step = "LINGER"
      BY <2>5 DEF S_Expire
    <3>2. /\ r \in ServerTask /\ r.step = "QUIT" /\ r.host = srv[c].host
          /\ r.writing = srv[c].writing
      BY <2>1 DEF ServerTask
    <3> HIDE DEF r
    <3> QED
      BY <2>1, <3>1, <3>2 DEF TaskFits
  <2> QED
    BY <2>2, <2>3, <2>4, <2>5
<1>2. /\ UNCHANGED <<cstep, nconn, cqueue, sent, got, down, broken, proxy, restarts>>
      /\ up' = up \/ up' = [up EXCEPT ![c] = <<>>]
  BY DEF S_Accept, S_Prepare, S_Error, S_Expire, clientVars
<1>3. ClientOK' /\ WaysOK'
  <2>1. <<>> \in Seq(Msgs \cup {INIT_NAME})
    OBVIOUS
  <2>2. ClientOK'
    BY <1>2 DEF IInv, ClientOK
  <2> QED
    BY <1>2, <2>1, <2>2 DEF IInv, WaysOK
<1>4. TaskFits(c) /\ \A cl \in Clients : cstep[cl] = "LINKED" => nconn[cl] > 0
  BY DEF IInv, TasksFit
<1>5. /\ c[2] > nconn'[c[1]] => r.step = "NONE"
      /\ \A cl \in Clients : cstep'[cl] = "LINKED" => nconn'[cl] > 0
      /\ r.step \in {"LINKED", "LINGER"} => /\ r.host = srv[c].host
                                            /\ srv[c].step \in {"BACKLOG", "LINKED", "LINGER"}
      /\ ~(r.step \in {"NONE", "BACKLOG"})
      /\ r.step # "LINKED" => r.writing = "NO"
      /\ r.writing = "MSG" => r.host /\ proxy[Name(c)].pending # <<>>
  BY <1>1, <1>2, <1>4 DEF TaskFits
<1> QED
  BY <1>1, <1>2, <1>3, <1>5, OneTask

\* What is on its way to a client when a task is destroyed or the center ends.
LEMMA ResetUnreadFacts ==
    ASSUME IInv, NEW C \in SUBSET Conns, ResetUnread(C)
    PROVE  /\ down' \in [Conns -> Seq(Msgs \cup {INIT_CHECK_FAIL})]
           /\ \A c \in Conns : down'[c] = <<>> \/ down'[c] = down[c]
<1>1. PICK D \in SUBSET {c \in C : up[c] # <<>> /\ down[c] # <<>>} :
        down' = [c \in Conns |-> IF c \in D THEN <<>> ELSE down[c]]
  BY DEF ResetUnread
<1>2. <<>> \in Seq(Msgs \cup {INIT_CHECK_FAIL})
  OBVIOUS
<1> QED
  BY <1>1, <1>2 DEF IInv, WaysOK

\* S_Destroy keeps the invariant.
LEMMA DestroyStep ==
    ASSUME IInv, NEW c \in Conns, S_Destroy(c)
    PROVE  IInv'
<1> DEFINE r == [NewTask EXCEPT !.step = "GONE"]
<1>1. /\ srv[c].step = "QUIT" /\ ResetUnread({c})
      /\ srv' = [srv EXCEPT ![c] = r] /\ up' = [up EXCEPT ![c] = <<>>]
      /\ UNCHANGED <<cstep, nconn, cqueue, sent, got, broken, proxy, restarts>>
  BY DEF S_Destroy, clientVars
<1>2. r \in ServerTask /\ r.step = "GONE" /\ r.writing = "NO"
  <2>1. NewTask \in ServerTask /\ NewTask.writing = "NO"
    BY DEF NewTask, ServerTask
  <2> QED
    BY <2>1 DEF ServerTask
<1> HIDE DEF r
<1>3. ClientOK' /\ WaysOK'
  <2>1. <<>> \in Seq(Msgs \cup {INIT_NAME})
    OBVIOUS
  <2>2. {c} \in SUBSET Conns
    OBVIOUS
  <2>3. down' \in [Conns -> Seq(Msgs \cup {INIT_CHECK_FAIL})]
    BY <1>1, <2>2, ResetUnreadFacts
  <2>4. ClientOK'
    BY <1>1 DEF IInv, ClientOK
  <2> QED
    BY <1>1, <2>1, <2>3, <2>4 DEF IInv, WaysOK
<1>4. TaskFits(c) /\ \A cl \in Clients : cstep'[cl] = "LINKED" => nconn'[cl] > 0
  BY <1>1 DEF IInv, TasksFit
<1>5. ~(c[2] > nconn'[c[1]])
  BY <1>1, <1>4 DEF TaskFits
<1> QED
  BY <1>1, <1>2, <1>3, <1>4, <1>5, OneTask

----------------------------------------------------------------------------
\* Steps that change what proxies hold, and nothing of who is attached.
LEMMA SameAttachment ==
    ASSUME IInv, ClientOK', WaysOK', CenterOK', UNCHANGED <<cstep, nconn>>,
           \A c \in Conns : /\ srv'[c].step = srv[c].step /\ srv'[c].host = srv[c].host
                            /\ srv'[c].writing \in {"NO", srv[c].writing}
                            /\ srv'[c].writing = "MSG" => proxy'[Name(c)].pending # <<>>,
           \A n \in Names : /\ proxy'[n].task = proxy[n].task
                            /\ proxy[n].here => proxy'[n].here
                            /\ ~proxy'[n].here => proxy'[n].pending = <<>>
    PROVE  IInv'
<1>1. \A n \in Names : /\ proxy[n].task \in Conns \cup {NoTask}
                       /\ proxy'[n].task = proxy[n].task
                       /\ proxy[n].here \in BOOLEAN
  BY DEF IInv, CenterOK, Proxy
<1>2. \A c \in Conns : IsTask(c)' = IsTask(c)
  BY DEF IsTask, TaskIn
<1>3. AttachmentMutual'
  <2>1. ASSUME NEW d \in Conns, IsTask(d)', srv'[d].host
        PROVE  proxy'[Name(d)].here /\ proxy'[Name(d)].task = d
    <3>1. proxy[Name(d)].here /\ proxy[Name(d)].task = d
      BY <1>2, <2>1 DEF IInv, AttachmentMutual
    <3> QED
      BY <3>1, ConnFacts
  <2>2. ASSUME NEW n \in Names, NEW t, t = proxy[n].task, proxy'[n].here, TaskIn(srv', t)
        PROVE  srv'[t].host /\ Name(t) = n
    <3>1. t \in Conns /\ proxy[n].here
      BY <1>1, <2>2, ConnFacts DEF TaskIn, IInv, ProxiesFit, ProxyFits
    <3>2. TaskIn(srv, t)
      BY <3>1, <2>2 DEF TaskIn
    <3> QED
      BY <3>1, <3>2, <2>2 DEF IInv, AttachmentMutual, IsConnectionAlive, IsTask
  <2>3. \A n \in Names : IsConnectionAlive(n)' =>
            srv'[proxy'[n].task].host /\ Name(proxy'[n].task) = n
    BY <1>1, <2>2 DEF IsConnectionAlive, IsTask
  <2> QED
    BY <2>1, <2>3 DEF AttachmentMutual
<1>4. TasksFit'
  BY DEF IInv, TasksFit, TaskFits
<1>5. ProxiesFit'
  BY <1>1 DEF IInv, ProxiesFit, ProxyFits
<1> QED
  BY <1>3, <1>4, <1>5 DEF IInv

\* The proxies of some names are deleted: their tasks are quit or have ended.
LEMMA DropNames ==
    ASSUME IInv, ClientOK', WaysOK', CenterOK', UNCHANGED <<cstep, nconn>>,
           NEW X \in SUBSET Names,
           \A c \in Conns : Name(c) \notin X =>
                /\ srv'[c].step = srv[c].step /\ srv'[c].host = srv[c].host
                /\ srv'[c].writing = srv[c].writing,
           \A c \in Conns : Name(c) \in X =>
                /\ ~srv'[c].host /\ srv'[c].writing # "MSG"
                /\ srv'[c].step # "LINKED" => srv'[c].writing = "NO"
                /\ \/ srv'[c].step = srv[c].step
                   \/ srv[c].step # "NONE" /\ srv'[c].step \in {"QUIT", "GONE"},
           \A n \in Names : IF n \in X THEN proxy'[n] = Absent
                            ELSE /\ proxy'[n].here = proxy[n].here
                                 /\ proxy'[n].task = proxy[n].task
                                 /\ proxy'[n].pending = proxy[n].pending
    PROVE  IInv'
<1>1. /\ Absent.here = FALSE /\ Absent.task = NoTask /\ Absent.pending = <<>>
      /\ \A n \in Names : proxy[n].task \in Conns \cup {NoTask}
  BY DEF IInv, CenterOK, Proxy, Absent
<1>2. \A c \in Conns : Name(c) \notin X => IsTask(c)' = IsTask(c)
  BY DEF IsTask, TaskIn
<1>3. AttachmentMutual'
  <2>1. ASSUME NEW d \in Conns, IsTask(d)', srv'[d].host
        PROVE  proxy'[Name(d)].here /\ proxy'[Name(d)].task = d
    <3>1. Name(d) \notin X /\ srv[d].host
      BY <2>1
    <3>2. proxy[Name(d)].here /\ proxy[Name(d)].task = d
      BY <1>2, <2>1, <3>1 DEF IInv, AttachmentMutual
    <3> QED
      BY <3>1, <3>2, ConnFacts
  <2>2. ASSUME NEW n \in Names, NEW t, t = proxy[n].task, n \notin X, proxy[n].here,
               TaskIn(srv', t)
        PROVE  srv'[t].host /\ Name(t) = n
    <3>1. t \in Conns /\ Name(t) = n
      BY <1>1, <2>2, ConnFacts DEF TaskIn, IInv, ProxiesFit, ProxyFits
    <3>2. TaskIn(srv, t)
      BY <3>1, <2>2 DEF TaskIn
    <3>3. srv[t].host
      BY <3>1, <3>2, <2>2 DEF IInv, AttachmentMutual, IsConnectionAlive, IsTask
    <3> QED
      BY <3>1, <3>3, <2>2
  <2>3. \A n \in Names : IsConnectionAlive(n)' =>
            srv'[proxy'[n].task].host /\ Name(proxy'[n].task) = n
    BY <1>1, <2>2 DEF IsConnectionAlive, IsTask
  <2> QED
    BY <2>1, <2>3 DEF AttachmentMutual
<1>4. TasksFit'
  <2>1. ASSUME NEW c \in Conns
        PROVE  TaskFits(c)'
    <3>1. TaskFits(c) /\ Name(c) \in Names
      BY ConnFacts DEF IInv, TasksFit
    <3>2. CASE Name(c) \in X
      BY <3>1, <3>2 DEF TaskFits
    <3>3. CASE Name(c) \notin X
      BY <3>1, <3>3 DEF TaskFits
    <3> QED
      BY <3>2, <3>3
  <2> QED
    BY <2>1 DEF IInv, TasksFit
<1>5. ProxiesFit'
  <2> SUFFICES ASSUME NEW n \in Names, n \notin X
               PROVE  ProxyFits(n)'
    BY <1>1 DEF ProxiesFit, ProxyFits
  <2>1. ProxyFits(n) /\ proxy'[n].here = proxy[n].here /\ proxy'[n].task = proxy[n].task
    BY DEF IInv, ProxiesFit
  <2>2. CASE proxy[n].task = NoTask
    BY <2>1, <2>2 DEF ProxyFits
  <2>3. CASE proxy[n].task # NoTask
    BY <1>1, <2>1, <2>3 DEF ProxyFits
  <2> QED
    BY <2>2, <2>3
<1> QED
  BY <1>3, <1>4, <1>5 DEF IInv

\* The task that writes a message is the one its proxy refers to.
LEMMA WriterFacts ==
    ASSUME IInv, NEW c \in Conns, srv[c].writing = "MSG"
    PROVE  /\ srv[c].step = "LINKED" /\ srv[c].host /\ IsTask(c)
           /\ proxy[Name(c)].here /\ proxy[Name(c)].task = c
           /\ proxy[Name(c)].pending # <<>> /\ proxy[Name(c)].pending \in Seq(Msgs)
           /\ IsConnectionAlive(Name(c))
<1>1. srv[c].step = "LINKED" /\ srv[c].host /\ proxy[Name(c)].pending # <<>>
  BY DEF IInv, TasksFit, TaskFits
<1>2. IsTask(c)
  BY <1>1, ConnFacts DEF IsTask, TaskIn
<1>3. proxy[Name(c)].here /\ proxy[Name(c)].task = c
  BY <1>1, <1>2 DEF IInv, AttachmentMutual
<1>4. proxy[Name(c)] \in Proxy
  BY ConnFacts DEF IInv, CenterOK
<1> QED
  BY <1>1, <1>2, <1>3, <1>4 DEF Proxy, IsConnectionAlive

\* S_WriteDone keeps the invariant.
LEMMA WriteDoneStep ==
    ASSUME IInv, NEW c \in Conns, S_WriteDone(c)
    PROVE  IInv'
<1> DEFINE n == Name(c)
           x == Head(proxy[n].pending)
<1>1. /\ srv[c].step = "LINKED" /\ UNCHANGED <<cstep, nconn, cqueue, sent, got, up, broken, restarts>>
      /\ srv[c] \in ServerTask /\ proxy[n] \in Proxy /\ n \in Names
      /\ TaskFits(c)
      /\ \A cl \in Clients : cstep[cl] = "LINKED" => nconn[cl] > 0
  BY ConnFacts DEF S_WriteDone, IInv, CenterOK, TasksFit, clientVars
<1>2. ClientOK'
  BY <1>1 DEF IInv, ClientOK
<1>3. srv[c].writing = "MSG" => proxy[n].pending # <<>> /\ proxy[n].pending \in Seq(Msgs) /\ x \in Msgs
  BY WriterFacts
<1>4. WaysOK'
  <2>1. \E y \in Msgs \cup {INIT_CHECK_FAIL} : down' = down \/ down' = [down EXCEPT ![c] = Append(@, y)]
    BY <1>3 DEF S_WriteDone, Deliver
  <2>2. \A y \in Msgs \cup {INIT_CHECK_FAIL} : Append(down[c], y) \in Seq(Msgs \cup {INIT_CHECK_FAIL})
    BY DEF IInv, WaysOK
  <2> QED
    BY <1>1, <2>1, <2>2 DEF IInv, WaysOK
<1>5. CASE srv' = [srv EXCEPT ![c].step = "QUIT", ![c].writing = "NO"] /\ proxy' = proxy
  <2> DEFINE r == [srv[c] EXCEPT !.step = "QUIT", !.writing = "NO"]
  <2>1. srv' = [srv EXCEPT ![c] = r]
    BY <1>5
  <2>2. r \in ServerTask /\ r.step = "QUIT" /\ r.writing = "NO"
    BY <1>1 DEF ServerTask
  <2> HIDE DEF r
  <2>3. ~(c[2] > nconn'[c[1]])
    BY <1>1 DEF TaskFits
  <2> QED
    BY <1>1, <1>2, <1>4, <1>5, <2>1, <2>2, <2>3, OneTask
<1>6. CASE /\ srv[c].writing = "MSG"
           /\ srv' = [srv EXCEPT ![c].writing = "NO"]
           /\ proxy' = [proxy EXCEPT ![n].pending = Tail(@)]
  <2> DEFINE r == [srv[c] EXCEPT !.writing = "NO"]
             p == [proxy[n] EXCEPT !.pending = Tail(@)]
  <2>1. srv' = [srv EXCEPT ![c] = r] /\ proxy' = [proxy EXCEPT ![n] = p]
    BY <1>6
  <2>2. r \in ServerTask /\ r.step = srv[c].step /\ r.writing = "NO" /\ r.host = srv[c].host
    BY <1>1 DEF ServerTask
  <2>3. /\ p \in Proxy /\ p.task = proxy[n].task /\ p.here = proxy[n].here
        /\ p.pending = Tail(proxy[n].pending) /\ Len(p.pending) <= QueueLen
    <3> DEFINE t == Tail(proxy[n].pending)
    <3>1. /\ t \in Seq(Msgs) /\ Len(t) = Len(proxy[n].pending) - 1
          /\ Len(proxy[n].pending) \in Nat /\ Len(proxy[n].pending) <= QueueLen
          /\ QueueLen \in Nat
      BY <1>1, <1>3, <1>6, HeadTailProperties, QueueLenAssumption DEF IInv, CenterOK
    <3>2. p = [proxy[n] EXCEPT !.pending = t]
      OBVIOUS
    <3> HIDE DEF t, p
    <3>3. p \in Proxy /\ p.task = proxy[n].task /\ p.here = proxy[n].here /\ p.pending = t
      BY <1>1, <3>1, <3>2 DEF Proxy
    <3> QED
      BY <3>1, <3>3 DEF t
  <2> HIDE DEF r, p
  <2>4. /\ \A d \in Conns : srv'[d] = IF d = c THEN r ELSE srv[d]
        /\ \A k \in Names : proxy'[k] = IF k = n THEN p ELSE proxy[k]
    BY <2>1, <1>1 DEF IInv, CenterOK
  <2>5. CenterOK'
    BY <2>1, <2>2, <2>3, <2>4 DEF IInv, CenterOK
  <2>6. ASSUME NEW d \in Conns, srv'[d].writing = "MSG"
        PROVE  proxy'[Name(d)].pending # <<>>
    <3>1. d # c /\ srv[d].writing = "MSG"
      BY <2>2, <2>4, <2>6
    <3>2. proxy[Name(d)].pending # <<>> /\ proxy[Name(d)].task = d
      BY <3>1, WriterFacts
    <3>3. proxy[n].task = c
      BY <1>6, WriterFacts
    <3> QED
      BY <3>1, <3>2, <3>3, <2>4, ConnFacts
  <2>7. \A k \in Names : ~proxy'[k].here => proxy'[k].pending = <<>>
    BY <1>6, <2>3, <2>4, WriterFacts DEF IInv, ProxiesFit, ProxyFits
  <2> QED
    BY <1>1, <1>2, <1>4, <2>2, <2>3, <2>4, <2>5, <2>6, <2>7, SameAttachment
<1> QED
  BY <1>5, <1>6 DEF S_WriteDone

----------------------------------------------------------------------------
\* Deleting the proxy of a name detaches every task of that name, and quits
\* the one that was attached.
LEMMA OrphanedFacts ==
    ASSUME IInv, NEW n \in Names
    PROVE  /\ Orphaned(n) \in [Conns -> ServerTask]
           /\ \A c \in Conns : Name(c) # n => Orphaned(n)[c] = srv[c]
           /\ \A c \in Conns : Name(c) = n =>
                /\ ~Orphaned(n)[c].host /\ Orphaned(n)[c].quit = srv[c].quit
                /\ Orphaned(n)[c].writing # "MSG"
                /\ Orphaned(n)[c].step # "LINKED" => Orphaned(n)[c].writing = "NO"
                /\ \/ Orphaned(n)[c].step = srv[c].step
                   \/ srv[c].step # "NONE" /\ Orphaned(n)[c].step = "QUIT"
                /\ c = proxy[n].task => ~TaskIn(Orphaned(n), c)
<1> SUFFICES ASSUME NEW c \in Conns
             PROVE  /\ Orphaned(n)[c] \in ServerTask
                    /\ Name(c) # n => Orphaned(n)[c] = srv[c]
                    /\ Name(c) = n =>
                        /\ ~Orphaned(n)[c].host /\ Orphaned(n)[c].quit = srv[c].quit
                        /\ Orphaned(n)[c].writing # "MSG"
                        /\ Orphaned(n)[c].step # "LINKED" => Orphaned(n)[c].writing = "NO"
                        /\ \/ Orphaned(n)[c].step = srv[c].step
                           \/ srv[c].step # "NONE" /\ Orphaned(n)[c].step = "QUIT"
                        /\ c = proxy[n].task => ~TaskIn(Orphaned(n), c)
  BY DEF Orphaned
<1>1. srv[c] \in ServerTask /\ TaskFits(c) /\ c # NoTask
  BY ConnFacts DEF IInv, CenterOK, TasksFit
<1>2. CASE Name(c) # n
  BY <1>1, <1>2 DEF Orphaned
<1>3. CASE Name(c) = n /\ c = proxy[n].task /\ IsTask(c)
  <2> DEFINE r == [srv[c] EXCEPT !.host = FALSE, !.step = "QUIT", !.writing = "NO"]
  <2>1. Orphaned(n)[c] = r
    BY <1>3 DEF Orphaned
  <2>2. /\ r \in ServerTask /\ r.host = FALSE /\ r.step = "QUIT" /\ r.writing = "NO"
        /\ r.quit = srv[c].quit
    BY <1>1 DEF ServerTask
  <2> HIDE DEF r
  <2> QED
    BY <1>3, <2>1, <2>2 DEF IsTask, TaskIn
<1>4. CASE Name(c) = n /\ ~(c = proxy[n].task /\ IsTask(c))
  <2> DEFINE r == [srv[c] EXCEPT !.host = FALSE]
  <2>1. Orphaned(n)[c] = r
    BY <1>4 DEF Orphaned
  <2>2. /\ r \in ServerTask /\ r.host = FALSE /\ r.step = srv[c].step
        /\ r.writing = srv[c].writing /\ r.quit = srv[c].quit
    BY <1>1 DEF ServerTask
  <2> HIDE DEF r
  <2>3. srv[c].writing # "MSG"
    BY <1>4, WriterFacts
  <2> QED
    BY <1>1, <1>4, <2>1, <2>2, <2>3 DEF IsTask, TaskIn, TaskFits
<1> QED
  BY <1>2, <1>3, <1>4

\* What a login does, case by case: the name stays with who has it, is dropped
\* with a kick, or passes to the new connection when no other task is attached.
LEMMA LoginCases ==
    ASSUME IInv, NEW c \in Conns, srv[c].step = "LINKED", OnInitNameMessage(c)
    PROVE  LET n == Name(c)
               kick == TrustMode /\ IsConnectionAlive(n)
               base == IF kick THEN Orphaned(n) ELSE srv
           IN /\ base \in [Conns -> ServerTask]
              /\ \/ /\ ~kick /\ proxy' = proxy
                    /\ srv' = [srv EXCEPT ![c].quit = TRUE]
                 \/ /\ kick /\ proxy' = [proxy EXCEPT ![n] = Absent]
                    /\ srv' = [base EXCEPT ![c].quit = TRUE]
                 \/ /\ srv' = [base EXCEPT ![c].host = TRUE]
                    /\ \A d \in Conns : Name(d) = n /\ base[d].step \in {"LINKED", "LINGER"} =>
                            ~base[d].host
                    /\ \A t \in Conns : proxy[n].here /\ t = proxy[n].task =>
                            ~TaskIn(base, t)
                    /\ \E p \in Proxy :
                        /\ proxy' = [proxy EXCEPT ![n] = p]
                        /\ p.here /\ p.task = c
                        /\ p.pending = IF proxy[n].here /\ ~kick THEN proxy[n].pending ELSE <<>>
<1> DEFINE n == Name(c)
           kick == TrustMode /\ IsConnectionAlive(n)
           known == proxy[n].here /\ ~kick
           refuse == c[1] \in BadVersion \/ (known /\ IsConnectionAlive(n))
           base == IF kick THEN Orphaned(n) ELSE srv
           new == [here |-> TRUE, task |-> c, life |-> 0, names |-> Links[c[1]],
                   pending |-> IF known THEN proxy[n].pending ELSE <<>>,
                   ctx |-> IF known THEN proxy[n].ctx ELSE TRUE]
<1>1. /\ n \in Names /\ proxy[n] \in Proxy /\ srv \in [Conns -> ServerTask] /\ c[1] \in Clients
      /\ proxy \in [Names -> Proxy]
  BY ConnFacts DEF IInv, CenterOK
<1>2. base \in [Conns -> ServerTask]
  BY <1>1, OrphanedFacts
<1>3. IF refuse
      THEN /\ srv' = [base EXCEPT ![c].quit = TRUE]
           /\ proxy' = IF kick THEN [proxy EXCEPT ![n] = Absent] ELSE proxy
      ELSE /\ srv' = [base EXCEPT ![c].host = TRUE]
           /\ proxy' = [proxy EXCEPT ![n] = new]
  BY <1>1, Zenon DEF OnInitNameMessage
<1>4. CASE refuse
  BY <1>2, <1>3, <1>4
<1>5. CASE ~refuse
  <2>1. new \in Proxy
    <3>1. /\ <<>> \in Seq(Msgs) /\ proxy[n].pending \in Seq(Msgs) /\ proxy[n].ctx \in BOOLEAN
          /\ Links[c[1]] \in SUBSET Names /\ 0 \in 0 .. MaxLife
      BY <1>1, LinksAssumption, MaxLifeAssumption DEF Proxy
    <3> QED
      BY <3>1 DEF Proxy
  <2>2. new.here /\ new.task = c /\ new.pending = IF known THEN proxy[n].pending ELSE <<>>
    OBVIOUS
  <2>3. ~kick => ~IsConnectionAlive(n)
    BY <1>5 DEF IsConnectionAlive
  <2>4. ASSUME NEW d \in Conns, Name(d) = n, base[d].step \in {"LINKED", "LINGER"}
        PROVE  ~base[d].host
    <3>1. CASE kick
      BY <1>1, <2>4, <3>1, OrphanedFacts
    <3>2. CASE ~kick
      <4>1. IsTask(d)
        BY <2>4, <3>2, ConnFacts DEF IsTask, TaskIn
      <4>2. ASSUME srv[d].host
            PROVE  FALSE
        <5>1. proxy[n].here /\ proxy[n].task = d
          BY <2>4, <4>1, <4>2 DEF IInv, AttachmentMutual
        <5> QED
          BY <2>3, <3>2, <4>1, <5>1 DEF IsConnectionAlive
      <4> QED
        BY <3>2, <4>2
    <3> QED
      BY <3>1, <3>2
  <2>5. ASSUME NEW t \in Conns, proxy[n].here, t = proxy[n].task
        PROVE  ~TaskIn(base, t)
    <3>1. CASE kick
      <4>1. Name(t) = n
        BY <1>1, <2>5, ConnFacts DEF IInv, ProxiesFit, ProxyFits
      <4> QED
        BY <1>1, <2>5, <3>1, <4>1, OrphanedFacts
    <3>2. CASE ~kick
      BY <2>3, <2>5, <3>2 DEF IsConnectionAlive, IsTask
    <3> QED
      BY <3>1, <3>2
  <2>6. /\ srv' = [base EXCEPT ![c].host = TRUE]
        /\ proxy' = [proxy EXCEPT ![n] = new]
    BY <1>3, <1>5
  <2> HIDE DEF new, base, refuse
  <2>7. \E p \in Proxy :
            /\ proxy' = [proxy EXCEPT ![n] = p]
            /\ p.here /\ p.task = c
            /\ p.pending = IF known THEN proxy[n].pending ELSE <<>>
    BY <2>1, <2>2, <2>6
  <2> QED
    BY <1>2, <2>4, <2>5, <2>6, <2>7 DEF base
<1> QED
  BY <1>4, <1>5

\* A login keeps the invariant.
LEMMA LoginStep ==
    ASSUME IInv, NEW c \in Conns, srv[c].step = "LINKED", OnInitNameMessage(c),
           ClientOK', WaysOK', UNCHANGED <<cstep, nconn>>
    PROVE  IInv'
<1> DEFINE n == Name(c)
           kick == TrustMode /\ IsConnectionAlive(n)
           base == IF kick THEN Orphaned(n) ELSE srv
<1>1. /\ n \in Names /\ srv \in [Conns -> ServerTask] /\ proxy \in [Names -> Proxy]
      /\ TaskFits(c) /\ srv[c] \in ServerTask
      /\ \A k \in Names : Len(proxy[k].pending) <= QueueLen
      /\ \A d \in Conns : TaskFits(d) /\ srv[d] \in ServerTask /\ Name(d) \in Names
      /\ \A cl \in Clients : cstep[cl] = "LINKED" => nconn[cl] > 0
      /\ QueueLen \in Nat /\ Len(<<>>) = 0
  BY ConnFacts, QueueLenAssumption DEF IInv, CenterOK, TasksFit
<1>2. /\ base \in [Conns -> ServerTask]
      /\ \/ /\ ~kick /\ proxy' = proxy
            /\ srv' = [srv EXCEPT ![c].quit = TRUE]
         \/ /\ kick /\ proxy' = [proxy EXCEPT ![n] = Absent]
            /\ srv' = [base EXCEPT ![c].quit = TRUE]
         \/ /\ srv' = [base EXCEPT ![c].host = TRUE]
            /\ \A d \in Conns : Name(d) = n /\ base[d].step \in {"LINKED", "LINGER"} =>
                    ~base[d].host
            /\ \A t \in Conns : proxy[n].here /\ t = proxy[n].task =>
                    ~TaskIn(base, t)
            /\ \E p \in Proxy :
                /\ proxy' = [proxy EXCEPT ![n] = p]
                /\ p.here /\ p.task = c
                /\ p.pending = IF proxy[n].here /\ ~kick THEN proxy[n].pending ELSE <<>>
  BY LoginCases
<1>3. ASSUME NEW b \in [Conns -> ServerTask], srv' = [b EXCEPT ![c].quit = TRUE]
      PROVE  /\ srv' \in [Conns -> ServerTask]
             /\ \A d \in Conns : /\ srv'[d].step = b[d].step /\ srv'[d].host = b[d].host
                                 /\ srv'[d].writing = b[d].writing
  <2> DEFINE r == [b[c] EXCEPT !.quit = TRUE]
  <2>1. b[c] \in ServerTask /\ srv' = [b EXCEPT ![c] = r]
    BY <1>3
  <2>2. /\ r \in ServerTask /\ r.step = b[c].step /\ r.host = b[c].host
        /\ r.writing = b[c].writing
    BY <2>1 DEF ServerTask
  <2> HIDE DEF r
  <2>3. \A d \in Conns : srv'[d] = IF d = c THEN r ELSE b[d]
    BY <2>1
  <2> QED
    BY <2>1, <2>2, <2>3
<1>4. CASE ~kick /\ proxy' = proxy /\ srv' = [srv EXCEPT ![c].quit = TRUE]
  <2>1. CenterOK'
    BY <1>1, <1>3, <1>4 DEF CenterOK
  <2>2. \A d \in Conns : /\ srv'[d].step = srv[d].step /\ srv'[d].host = srv[d].host
                         /\ srv'[d].writing = srv[d].writing
    BY <1>1, <1>3, <1>4
  <2>3. \A k \in Names : ~proxy[k].here => proxy[k].pending = <<>>
    BY DEF IInv, ProxiesFit, ProxyFits
  <2> QED
    BY <1>1, <1>4, <2>1, <2>2, <2>3, SameAttachment DEF TaskFits
<1>5. CASE kick /\ proxy' = [proxy EXCEPT ![n] = Absent] /\ srv' = [base EXCEPT ![c].quit = TRUE]
  <2>1. base = Orphaned(n) /\ {n} \in SUBSET Names
    BY <1>1, <1>5
  <2> HIDE DEF base
  <2>2. /\ srv' \in [Conns -> ServerTask]
        /\ \A d \in Conns : /\ srv'[d].step = base[d].step /\ srv'[d].host = base[d].host
                            /\ srv'[d].writing = base[d].writing
    BY <1>2, <1>3, <1>5
  <2>3. /\ Absent \in Proxy /\ Len(Absent.pending) <= QueueLen
    <3>1. <<>> \in Seq(Msgs) /\ 0 \in 0 .. MaxLife /\ Absent.pending = <<>>
      BY MaxLifeAssumption DEF Absent
    <3> QED
      BY <1>1, <3>1 DEF Absent, Proxy
  <2>4. \A k \in Names : proxy'[k] = IF k = n THEN Absent ELSE proxy[k]
    BY <1>1, <1>5
  <2>5. CenterOK'
    BY <1>1, <1>5, <2>2, <2>3, <2>4 DEF CenterOK
  <2> HIDE DEF n
  <2>6. /\ \A d \in Conns : Name(d) # n => base[d] = srv[d]
        /\ \A d \in Conns : Name(d) = n =>
                /\ ~base[d].host /\ base[d].writing # "MSG"
                /\ base[d].step # "LINKED" => base[d].writing = "NO"
                /\ \/ base[d].step = srv[d].step
                   \/ srv[d].step # "NONE" /\ base[d].step = "QUIT"
    BY <1>1, <2>1, OrphanedFacts
  <2>7. /\ \A d \in Conns : Name(d) \notin {n} =>
              /\ srv'[d].step = srv[d].step /\ srv'[d].host = srv[d].host
              /\ srv'[d].writing = srv[d].writing
        /\ \A d \in Conns : Name(d) \in {n} =>
              /\ ~srv'[d].host /\ srv'[d].writing # "MSG"
              /\ srv'[d].step # "LINKED" => srv'[d].writing = "NO"
              /\ \/ srv'[d].step = srv[d].step
                 \/ srv[d].step # "NONE" /\ srv'[d].step \in {"QUIT", "GONE"}
        /\ \A k \in Names : IF k \in {n} THEN proxy'[k] = Absent
                            ELSE /\ proxy'[k].here = proxy[k].here
                                 /\ proxy'[k].task = proxy[k].task
                                 /\ proxy'[k].pending = proxy[k].pending
    BY <2>2, <2>4, <2>6
  <2> QED
    BY <2>1, <2>5, <2>7, DropNames
<1>6. ASSUME NEW p \in Proxy,
             srv' = [base EXCEPT ![c].host = TRUE],
             \A d \in Conns : Name(d) = n /\ base[d].step \in {"LINKED", "LINGER"} =>
                    ~base[d].host,
             proxy' = [proxy EXCEPT ![n] = p], p.here, p.task = c,
             p.pending = IF proxy[n].here /\ ~kick THEN proxy[n].pending ELSE <<>>
      PROVE  IInv'
  <2> DEFINE r == [base[c] EXCEPT !.host = TRUE]
  <2>0. base[c] \in ServerTask
    BY <1>2
  <2>1. srv' = [base EXCEPT ![c] = r]
    BY <1>2, <1>6
  <2>2. /\ r \in ServerTask /\ r.step = base[c].step /\ r.host = TRUE
        /\ r.writing = base[c].writing
    <3> HIDE DEF base
    <3> QED
      BY <2>0 DEF ServerTask
  <2> HIDE DEF r
  <2>3. /\ \A d \in Conns : srv'[d] = IF d = c THEN r ELSE base[d]
        /\ \A k \in Names : proxy'[k] = IF k = n THEN p ELSE proxy[k]
    BY <1>1, <1>2, <1>6, <2>1
  <2>4. /\ \A d \in Conns : Name(d) # n => base[d] = srv[d]
        /\ \A d \in Conns : Name(d) = n =>
             /\ base[d].writing # "MSG"
             /\ base[d].step # "LINKED" => base[d].writing = "NO"
             /\ base[d].step \in {"NONE", "BACKLOG"} => ~base[d].host
             /\ \/ base[d].step = srv[d].step
                \/ srv[d].step # "NONE" /\ base[d].step = "QUIT"
    <3>1. CASE kick
      BY <1>1, <3>1, OrphanedFacts
    <3>2. CASE ~kick
      <4>1. \A d \in Conns : srv[d].writing = "MSG" /\ Name(d) = n => FALSE
        <5> SUFFICES ASSUME NEW d \in Conns, srv[d].writing = "MSG", Name(d) = n
                     PROVE  FALSE
          OBVIOUS
        <5>1. srv[d].step = "LINKED" /\ srv[d].host
          BY WriterFacts
        <5> QED
          BY <5>1, <3>2, <1>6
      <4> QED
        BY <1>1, <3>2, <4>1 DEF TaskFits
    <3> QED
      BY <3>1, <3>2
  <2> HIDE DEF base
  <2>5. CenterOK'
    <3>1. Len(p.pending) <= QueueLen
      BY <1>1, <1>6
    <3>2. srv' \in [Conns -> ServerTask]
      BY <1>2, <2>1, <2>2
    <3>3. proxy' \in [Names -> Proxy]
      BY <1>1, <1>6
    <3>4. \A k \in Names : Len(proxy'[k].pending) <= QueueLen
      BY <1>1, <2>3, <3>1
    <3> QED
      BY <3>2, <3>3, <3>4 DEF CenterOK
  <2>6. srv[c].step = "LINKED" /\ base[c].step \in {"LINKED", "QUIT"} /\ c # NoTask
    BY <2>4, ConnFacts
  <2>7. AttachmentMutual'
    <3>1. ASSUME NEW d \in Conns, IsTask(d)', srv'[d].host
          PROVE  proxy'[Name(d)].here /\ proxy'[Name(d)].task = d
      <4>1. CASE d = c
        BY <4>1, <1>1, <1>6, <2>3
      <4>2. CASE d # c /\ Name(d) = n
        BY <4>2, <3>1, <1>6, <2>3 DEF IsTask, TaskIn
      <4>3. CASE Name(d) # n
        <5>1. srv'[d] = srv[d]
          BY <4>3, <2>3, <2>4
        <5>2. IsTask(d) /\ srv[d].host
          BY <5>1, <3>1 DEF IsTask, TaskIn
        <5> QED
          BY <5>2, <4>3, <2>3, <1>1 DEF IInv, AttachmentMutual
      <4> QED
        BY <4>1, <4>2, <4>3
    <3>2. ASSUME NEW k \in Names, NEW t, t = proxy'[k].task, proxy'[k].here, TaskIn(srv', t)
          PROVE  srv'[t].host /\ Name(t) = k
      <4>1. CASE k = n
        BY <4>1, <3>2, <1>6, <2>2, <2>3
      <4>2. CASE k # n
        <5>1. proxy'[k] = proxy[k] /\ proxy[k] \in Proxy
          BY <1>1, <4>2, <2>3
        <5>2. t \in Conns /\ Name(t) = k
          BY <3>2, <5>1, ConnFacts DEF TaskIn, IInv, ProxiesFit, ProxyFits, Proxy
        <5>3. srv'[t] = srv[t]
          BY <4>2, <5>2, <2>3, <2>4
        <5>4. TaskIn(srv, t)
          BY <3>2, <5>3 DEF TaskIn
        <5> QED
          BY <3>2, <5>1, <5>2, <5>3, <5>4 DEF IInv, AttachmentMutual, IsConnectionAlive, IsTask
      <4> QED
        BY <4>1, <4>2
    <3>3. \A k \in Names : IsConnectionAlive(k)' =>
              srv'[proxy'[k].task].host /\ Name(proxy'[k].task) = k
      BY <3>2 DEF IsConnectionAlive, IsTask
    <3> QED
      BY <3>1, <3>3 DEF AttachmentMutual
  <2>8. TasksFit'
    <3>1. ASSUME NEW d \in Conns
          PROVE  TaskFits(d)'
      <4>1. CASE d = c
        BY <4>1, <1>1, <2>2, <2>3, <2>4, <2>6 DEF TaskFits
      <4>2. CASE d # c /\ Name(d) = n
        BY <4>2, <1>1, <2>3, <2>4 DEF TaskFits
      <4>3. CASE Name(d) # n
        BY <4>3, <1>1, <2>3, <2>4 DEF TaskFits
      <4> QED
        BY <4>1, <4>2, <4>3
    <3> QED
      BY <1>1, <3>1 DEF TasksFit
  <2>9. ProxiesFit'
    <3> SUFFICES ASSUME NEW k \in Names
                 PROVE  ProxyFits(k)'
      BY DEF ProxiesFit
    <3>1. CASE k = n
      BY <3>1, <1>6, <2>2, <2>3, <2>6 DEF ProxyFits
    <3>2. CASE k # n
      <4>1. proxy'[k] = proxy[k] /\ ProxyFits(k) /\ proxy[k].task \in Conns \cup {NoTask}
        BY <1>1, <3>2, <2>3 DEF IInv, ProxiesFit, Proxy
      <4>2. proxy[k].task # NoTask => srv'[proxy[k].task] = srv[proxy[k].task]
        BY <3>2, <4>1, <2>3, <2>4 DEF ProxyFits
      <4> QED
        BY <4>1, <4>2 DEF ProxyFits
    <3> QED
      BY <3>1, <3>2
  <2> QED
    BY <2>5, <2>7, <2>8, <2>9 DEF IInv
<1> HIDE DEF base, n, kick
<1> QED
  BY <1>2, <1>4, <1>5, <1>6

\* A message goes to the end of its receivers' pending queues.
LEMMA DispatchFacts ==
    ASSUME IInv, NEW m \in Msgs, NEW n \in Names, DispatchMessage(m, n)
    PROVE  /\ proxy' \in [Names -> Proxy]
           /\ \A r \in Names : /\ proxy'[r].task = proxy[r].task
                               /\ proxy[r].here \/ r \in Receivers(m, n) => proxy'[r].here
                               /\ proxy'[r].pending = IF r \in Receivers(m, n)
                                                      THEN Push(proxy[r].pending, m)
                                                      ELSE proxy[r].pending
                               /\ Len(proxy'[r].pending) <= QueueLen
<1> DEFINE q(r) == [proxy[r] EXCEPT !.here = TRUE, !.pending = Push(@, m)]
<1>1. proxy' = [r \in Names |-> IF r \notin Receivers(m, n) THEN proxy[r] ELSE q(r)]
  BY DEF DispatchMessage
<1>2. ASSUME NEW r \in Names
      PROVE  /\ q(r) \in Proxy /\ q(r).task = proxy[r].task /\ q(r).here
             /\ q(r).pending = Push(proxy[r].pending, m)
             /\ Len(q(r).pending) <= QueueLen
             /\ proxy[r] \in Proxy /\ Len(proxy[r].pending) <= QueueLen
  <2> DEFINE s == Push(proxy[r].pending, m)
  <2>1. proxy[r] \in Proxy /\ Len(proxy[r].pending) <= QueueLen
    BY DEF IInv, CenterOK
  <2>2. proxy[r].pending \in Seq(Msgs)
    BY <2>1 DEF Proxy
  <2>3. s \in Seq(Msgs) /\ Len(s) <= QueueLen
    BY <2>1, <2>2, PushFacts
  <2>4. q(r) = [proxy[r] EXCEPT !.here = TRUE, !.pending = s]
    OBVIOUS
  <2> HIDE DEF q, s
  <2>5. q(r) \in Proxy /\ q(r).task = proxy[r].task /\ q(r).here /\ q(r).pending = s
    BY <2>1, <2>3, <2>4 DEF Proxy
  <2> QED
    BY <2>1, <2>3, <2>5 DEF s
<1> HIDE DEF q
<1> QED
  BY <1>1, <1>2

\* S_Read keeps the invariant.
LEMMA ServerReadStep ==
    ASSUME IInv, NEW c \in Conns, S_Read(c)
    PROVE  IInv'
<1> DEFINE x == Head(up[c])
<1>1. /\ srv[c].step = "LINKED" /\ up[c] # <<>> /\ up' = [up EXCEPT ![c] = Tail(@)]
      /\ UNCHANGED <<cstep, nconn, cqueue, sent, got, down, broken, restarts>>
      /\ srv[c] \in ServerTask /\ TaskFits(c) /\ Name(c) \in Names
      /\ \A cl \in Clients : cstep[cl] = "LINKED" => nconn[cl] > 0
  BY ConnFacts DEF S_Read, IInv, CenterOK, TasksFit, clientVars
<1>2. x \in Msgs \cup {INIT_NAME} /\ Tail(up[c]) \in Seq(Msgs \cup {INIT_NAME})
  BY <1>1 DEF IInv, WaysOK
<1>3. ClientOK'
  BY <1>1 DEF IInv, ClientOK
<1>4. WaysOK'
  BY <1>1, <1>2 DEF IInv, WaysOK
<1>5. CASE OnInitNameMessage(c)
  BY <1>1, <1>3, <1>4, <1>5, LoginStep
<1>6. CASE srv' = [srv EXCEPT ![c].step = "QUIT", ![c].writing = "NO"] /\ proxy' = proxy
  <2> DEFINE r == [srv[c] EXCEPT !.step = "QUIT", !.writing = "NO"]
  <2>1. srv' = [srv EXCEPT ![c] = r]
    BY <1>6
  <2>2. r \in ServerTask /\ r.step = "QUIT" /\ r.writing = "NO"
    BY <1>1 DEF ServerTask
  <2> HIDE DEF r
  <2>3. ~(c[2] > nconn'[c[1]])
    BY <1>1 DEF TaskFits
  <2> QED
    BY <1>1, <1>3, <1>4, <1>6, <2>1, <2>2, <2>3, OneTask
<1>7. CASE x # INIT_NAME /\ DispatchMessage(x, Name(c)) /\ srv' = srv
  <2>1. x \in Msgs
    BY <1>2, <1>7
  <2>2. /\ proxy' \in [Names -> Proxy]
        /\ \A r \in Names : /\ proxy'[r].task = proxy[r].task
                            /\ proxy[r].here \/ r \in Receivers(x, Name(c)) => proxy'[r].here
                            /\ proxy'[r].pending = IF r \in Receivers(x, Name(c))
                                                   THEN Push(proxy[r].pending, x)
                                                   ELSE proxy[r].pending
                            /\ Len(proxy'[r].pending) <= QueueLen
    BY <1>1, <1>7, <2>1, DispatchFacts
  <2> HIDE DEF x
  <2>3. CenterOK'
    BY <1>7, <2>2 DEF IInv, CenterOK
  <2>4. ASSUME NEW d \in Conns, srv[d].writing = "MSG"
        PROVE  proxy'[Name(d)].pending # <<>>
    <3>1. /\ proxy[Name(d)].pending # <<>> /\ proxy[Name(d)].pending \in Seq(Msgs)
          /\ Len(proxy[Name(d)].pending) <= QueueLen /\ Name(d) \in Names
      BY <2>4, WriterFacts, ConnFacts DEF IInv, CenterOK
    <3>2. Push(proxy[Name(d)].pending, x) # <<>>
      BY <2>1, <3>1, PushFacts
    <3> QED
      BY <2>2, <3>1, <3>2
  <2>5. \A r \in Names : ~proxy'[r].here => proxy'[r].pending = <<>>
    BY <2>2 DEF IInv, ProxiesFit, ProxyFits
  <2> QED
    BY <1>1, <1>3, <1>4, <1>7, <2>2, <2>3, <2>4, <2>5, SameAttachment
<1> QED
  BY <1>5, <1>6, <1>7 DEF S_Read

----------------------------------------------------------------------------
\* The killer deletes proxies that no task is attached to.
LEMMA KillStep ==
    ASSUME IInv, AutoKillPeers
    PROVE  IInv'
<1> DEFINE Idle == {n \in Names : proxy[n].here /\ ~IsConnectionAlive(n)}
           Killed == {n \in Idle : proxy[n].life + 1 >= MaxLife}
<1>1. /\ proxy' = [n \in Names |->
                     IF n \in Killed THEN Absent
                     ELSE IF n \in Idle THEN [proxy[n] EXCEPT !.life = @ + 1]
                     ELSE [proxy[n] EXCEPT !.life = 0]]
      /\ srv' = [c \in Conns |-> [srv[c] EXCEPT !.host = @ /\ Name(c) \notin Killed]]
      /\ UNCHANGED <<cstep, nconn, cqueue, sent, got, up, down, broken, restarts>>
  BY DEF AutoKillPeers, clientVars
<1>2. ClientOK' /\ WaysOK'
  <2>1. ClientOK'
    BY <1>1 DEF IInv, ClientOK
  <2> QED
    BY <1>1, <2>1 DEF IInv, WaysOK
<1>3. ASSUME NEW c \in Conns
      PROVE  /\ srv'[c] \in ServerTask
             /\ srv'[c].step = srv[c].step /\ srv'[c].writing = srv[c].writing
             /\ srv'[c].host = (srv[c].host /\ Name(c) \notin Killed)
  <2> DEFINE h == srv[c].host /\ Name(c) \notin Killed
  <2>1. srv[c] \in ServerTask /\ srv'[c] = [srv[c] EXCEPT !.host = h] /\ h \in BOOLEAN
    BY <1>1 DEF IInv, CenterOK
  <2> HIDE DEF h
  <2>2. /\ srv'[c] \in ServerTask
        /\ srv'[c].step = srv[c].step /\ srv'[c].writing = srv[c].writing
        /\ srv'[c].host = h
    BY <2>1 DEF ServerTask
  <2> QED
    BY <2>2 DEF h
<1>4. /\ Absent \in Proxy /\ Absent.pending = <<>> /\ Len(<<>>) = 0 /\ QueueLen \in Nat
      /\ MaxLife \in Nat \ {0}
  <2>1. <<>> \in Seq(Msgs) /\ 0 \in 0 .. MaxLife /\ MaxLife \in Nat \ {0}
    BY MaxLifeAssumption
  <2> QED
    BY <2>1, QueueLenAssumption DEF Absent, Proxy
<1>5. ASSUME NEW n \in Names
      PROVE  /\ proxy'[n] \in Proxy /\ Len(proxy'[n].pending) <= QueueLen
             /\ IF n \in Killed THEN proxy'[n] = Absent
                ELSE /\ proxy'[n].here = proxy[n].here
                     /\ proxy'[n].task = proxy[n].task
                     /\ proxy'[n].pending = proxy[n].pending
  <2>1. proxy[n] \in Proxy /\ Len(proxy[n].pending) <= QueueLen /\ proxy[n].life \in 0 .. MaxLife
    BY DEF IInv, CenterOK, Proxy
  <2>2. CASE n \in Killed
    BY <1>1, <1>4, <2>2
  <2>3. CASE n \notin Killed
    <3>1. PICK l \in 0 .. MaxLife : proxy'[n] = [proxy[n] EXCEPT !.life = l]
      <4>1. n \in Idle => proxy[n].life + 1 \in 0 .. MaxLife
        BY <2>1, <2>3, <1>4
      <4>2. 0 \in 0 .. MaxLife
        BY <1>4
      <4> QED
        BY <1>1, <2>3, <4>1, <4>2
    <3>2. /\ proxy'[n] \in Proxy /\ proxy'[n].pending = proxy[n].pending
          /\ proxy'[n].here = proxy[n].here /\ proxy'[n].task = proxy[n].task
      BY <2>1, <3>1 DEF Proxy
    <3> QED
      BY <2>1, <2>3, <3>2
  <2> QED
    BY <2>2, <2>3
<1>6. CenterOK'
  BY <1>1, <1>3, <1>5 DEF CenterOK
<1>7. ASSUME NEW c \in Conns, Name(c) \in Killed
      PROVE  srv[c].writing # "MSG" /\ TaskFits(c)
  <2>1. ~IsConnectionAlive(Name(c))
    BY <1>7
  <2> QED
    BY <2>1, WriterFacts DEF IInv, TasksFit
<1>8. Killed \in SUBSET Names
  OBVIOUS
<1>9. PICK X \in SUBSET Names : X = Killed
  BY <1>8
<1> HIDE DEF Killed
<1>10. /\ \A c \in Conns : Name(c) \notin X =>
             /\ srv'[c].step = srv[c].step /\ srv'[c].host = srv[c].host
             /\ srv'[c].writing = srv[c].writing
       /\ \A n \in Names : IF n \in X THEN proxy'[n] = Absent
                           ELSE /\ proxy'[n].here = proxy[n].here
                                /\ proxy'[n].task = proxy[n].task
                                /\ proxy'[n].pending = proxy[n].pending
  <2>1. \A c \in Conns : srv[c].host \in BOOLEAN
    BY DEF IInv, CenterOK, ServerTask
  <2> QED
    BY <2>1, <1>3, <1>5, <1>9
<1>11. \A c \in Conns : Name(c) \in X =>
            /\ ~srv'[c].host /\ srv'[c].writing # "MSG"
            /\ srv'[c].step # "LINKED" => srv'[c].writing = "NO"
            /\ \/ srv'[c].step = srv[c].step
               \/ srv[c].step # "NONE" /\ srv'[c].step \in {"QUIT", "GONE"}
  BY <1>3, <1>7, <1>9 DEF TaskFits
<1>12. UNCHANGED <<cstep, nconn>>
  BY <1>1
<1> QED
  BY <1>2, <1>6, <1>10, <1>11, <1>12, DropNames

\* A restart leaves no task and no proxy.
LEMMA RestartStep ==
    ASSUME IInv, Restart
    PROVE  IInv'
<1> DEFINE gone == [NewTask EXCEPT !.step = "GONE"]
<1>1. /\ restarts < MaxRestarts /\ restarts' = restarts + 1
      /\ srv' = [c \in Conns |-> IF srv[c].step = "NONE" THEN srv[c] ELSE gone]
      /\ up' = [c \in Conns |-> <<>>] /\ ResetUnread(Conns)
      /\ proxy' = [n \in Names |-> Absent]
      /\ UNCHANGED <<cstep, nconn, cqueue, sent, got, broken>>
  BY DEF Restart, clientVars
<1>2. ClientOK'
  BY <1>1 DEF IInv, ClientOK
<1>3. WaysOK'
  <2>1. Conns \in SUBSET Conns /\ <<>> \in Seq(Msgs \cup {INIT_NAME})
    OBVIOUS
  <2>2. down' \in [Conns -> Seq(Msgs \cup {INIT_CHECK_FAIL})]
    BY <1>1, <2>1, ResetUnreadFacts
  <2>3. restarts' \in 0 .. MaxRestarts
    BY <1>1, MaxRestartsAssumption DEF IInv, WaysOK
  <2>4. up' \in [Conns -> Seq(Msgs \cup {INIT_NAME})]
    BY <1>1, <2>1
  <2> QED
    BY <1>1, <2>2, <2>3, <2>4 DEF IInv, WaysOK
<1>4. /\ gone \in ServerTask /\ gone.step = "GONE" /\ gone.writing = "NO" /\ gone.host = FALSE
  <2>1. NewTask \in ServerTask /\ NewTask.writing = "NO" /\ NewTask.host = FALSE
    BY DEF NewTask, ServerTask
  <2> QED
    BY <2>1 DEF ServerTask
<1>5. /\ Absent \in Proxy /\ Absent.pending = <<>> /\ Len(<<>>) = 0 /\ QueueLen \in Nat
  <2>1. <<>> \in Seq(Msgs) /\ 0 \in 0 .. MaxLife
    BY MaxLifeAssumption
  <2> QED
    BY <2>1, QueueLenAssumption DEF Absent, Proxy
<1> HIDE DEF gone
<1>6. \A c \in Conns : /\ srv'[c] \in ServerTask
                       /\ (srv'[c] = srv[c] /\ srv[c].step = "NONE") \/ srv'[c] = gone
  BY <1>1, <1>4 DEF IInv, CenterOK
<1>7. CenterOK'
  BY <1>1, <1>5, <1>6 DEF CenterOK
<1>8. \A c \in Conns : Name(c) \in Names /\ TaskFits(c)
  BY ConnFacts DEF IInv, TasksFit
<1>9. \A c \in Conns : /\ ~srv'[c].host /\ srv'[c].writing # "MSG"
                       /\ srv'[c].step # "LINKED" => srv'[c].writing = "NO"
                       /\ \/ srv'[c].step = srv[c].step
                          \/ srv[c].step # "NONE" /\ srv'[c].step \in {"QUIT", "GONE"}
  <2> SUFFICES ASSUME NEW c \in Conns
               PROVE  /\ ~srv'[c].host /\ srv'[c].writing # "MSG"
                      /\ srv'[c].step # "LINKED" => srv'[c].writing = "NO"
                      /\ \/ srv'[c].step = srv[c].step
                         \/ srv[c].step # "NONE" /\ srv'[c].step \in {"QUIT", "GONE"}
    OBVIOUS
  <2>1. CASE srv[c].step = "NONE"
    BY <1>1, <1>8, <2>1 DEF TaskFits
  <2>2. CASE srv[c].step # "NONE"
    BY <1>1, <1>4, <2>2
  <2> QED
    BY <2>1, <2>2
<1>10. PICK X \in SUBSET Names : X = Names
  OBVIOUS
<1>11. /\ \A c \in Conns : Name(c) \notin X =>
            /\ srv'[c].step = srv[c].step /\ srv'[c].host = srv[c].host
            /\ srv'[c].writing = srv[c].writing
       /\ \A n \in Names : IF n \in X THEN proxy'[n] = Absent
                           ELSE /\ proxy'[n].here = proxy[n].here
                                /\ proxy'[n].task = proxy[n].task
                                /\ proxy'[n].pending = proxy[n].pending
  BY <1>1, <1>8, <1>10
<1>12. \A c \in Conns : Name(c) \in X =>
            /\ ~srv'[c].host /\ srv'[c].writing # "MSG"
            /\ srv'[c].step # "LINKED" => srv'[c].writing = "NO"
            /\ \/ srv'[c].step = srv[c].step
               \/ srv[c].step # "NONE" /\ srv'[c].step \in {"QUIT", "GONE"}
  BY <1>9
<1>13. UNCHANGED <<cstep, nconn>>
  BY <1>1
<1> QED
  BY <1>2, <1>3, <1>7, <1>10, <1>11, <1>12, <1>13, DropNames

----------------------------------------------------------------------------
\* The invariant holds at first.
LEMMA IInvInit == Init => IInv
<1> SUFFICES ASSUME Init
             PROVE  IInv
  OBVIOUS
<1>1. \A S : <<>> \in Seq(S) /\ Len(<<>>) = 0
  OBVIOUS
<1>2. ClientOK
  BY <1>1, MaxConnAssumption, QueueLenAssumption DEF Init, ClientOK
<1>3. WaysOK
  BY <1>1, MaxRestartsAssumption DEF Init, WaysOK
<1>4. /\ NewTask \in ServerTask /\ NewTask.step = "NONE" /\ NewTask.host = FALSE
      /\ NewTask.writing = "NO"
  BY DEF NewTask, ServerTask
<1>5. /\ Absent \in Proxy /\ Absent.here = FALSE /\ Absent.task = NoTask
      /\ Absent.pending = <<>> /\ Len(Absent.pending) <= QueueLen
  <2>1. 0 \in 0 .. MaxLife /\ 0 <= QueueLen
    BY MaxLifeAssumption, QueueLenAssumption
  <2> QED
    BY <1>1, <2>1 DEF Absent, Proxy
<1>6. CenterOK
  BY <1>4, <1>5 DEF Init, CenterOK
<1>7. TasksFit /\ ProxiesFit
  BY <1>4, <1>5 DEF Init, TasksFit, TaskFits, ProxiesFit, ProxyFits
<1>8. AttachmentMutual
  BY <1>4, <1>5 DEF Init, AttachmentMutual, IsConnectionAlive, IsTask, TaskIn
<1> QED
  BY <1>2, <1>3, <1>6, <1>7, <1>8 DEF IInv

\* Every step keeps the invariant.
LEMMA IInvInductive == IInv /\ [Next]_vars => IInv'
<1> SUFFICES ASSUME IInv, [Next]_vars
             PROVE  IInv'
  OBVIOUS
<1>1. CASE \E m \in Msgs : C_Send(m)
  BY <1>1, SendStep
<1>2. CASE \E cl \in Clients : ClientStep(cl)
  BY <1>2, RunStep, ConnectedStep, WriteStep, ReadStep, ErrorStep DEF ClientStep
<1>3. CASE \E c \in Conns : ServerStep(c) \/ Cut(c)
  BY <1>3, TaskOnlyStep, ServerReadStep, WriteDoneStep, DestroyStep, CutStep DEF ServerStep
<1>4. CASE AutoKillPeers
  BY <1>4, KillStep
<1>5. CASE Restart
  BY <1>5, RestartStep
<1>6. CASE UNCHANGED vars
  <2>1. ClientOK'
    BY <1>6 DEF IInv, ClientOK, vars, clientVars
  <2>2. WaysOK'
    BY <1>6 DEF IInv, WaysOK, vars
  <2> QED
    BY <1>6, <2>1, <2>2, CenterQuiet DEF vars, clientVars
<1> QED
  BY <1>1, <1>2, <1>3, <1>4, <1>5, <1>6 DEF Next

\* The invariant holds in every state of the bus.
LEMMA Invariance == Spec => []IInv
BY IInvInit, IInvInductive, PTL DEF Spec

\* The state has its type, and no sending or pending queue grows beyond
\* MESSAGE_PEER_SENDING_QUEUE_LEN.
THEOREM TypeCorrect == Spec => []TypeOK
<1>1. IInv => TypeOK
  BY TypeParts DEF IInv
<1> QED
  BY <1>1, Invariance, PTL

\* A live task that has logged in and the proxy of its name refer to each
\* other, so two connections never serve one name (OnInitNameMessage,
\* CTaskPeerServer::AttachTaskPeerServer, CPeerProxyManager).
THEOREM AttachmentIsMutual == Spec => []AttachmentMutual
<1>1. IInv => AttachmentMutual
  BY DEF IInv
<1> QED
  BY <1>1, Invariance, PTL

----------------------------------------------------------------------------
\* The steps that change a proxy: a login, a message for others, the end of a
\* write, the killer and a restart.
LEMMA ProxySteps ==
    ASSUME IInv, [Next]_vars
    PROVE  \/ proxy' = proxy
           \/ \E c \in Conns : srv[c].step = "LINKED" /\ OnInitNameMessage(c)
           \/ /\ srv' = srv
              /\ \E m \in Msgs, n \in Names : DispatchMessage(m, n)
           \/ \E c \in Conns : /\ srv[c].writing = "MSG"
                               /\ srv' = [srv EXCEPT ![c].writing = "NO"]
                               /\ proxy' = [proxy EXCEPT ![Name(c)].pending = Tail(@)]
           \/ AutoKillPeers
           \/ Restart
<1>1. CASE \E m \in Msgs : C_Send(m)
  BY <1>1 DEF C_Send
<1>2. CASE \E cl \in Clients : ClientStep(cl)
  BY <1>2 DEF ClientStep, C_Run, C_ConnectFail, C_Connected, C_Write, C_Read, C_Error
<1>3. ASSUME NEW c \in Conns, S_Read(c)
      PROVE  \/ proxy' = proxy
             \/ srv[c].step = "LINKED" /\ OnInitNameMessage(c)
             \/ /\ srv' = srv
                /\ \E m \in Msgs, n \in Names : DispatchMessage(m, n)
  <2> DEFINE x == Head(up[c])
  <2>1. x \in Msgs \cup {INIT_NAME} /\ Name(c) \in Names
    BY <1>3, ConnFacts DEF S_Read, IInv, WaysOK
  <2>2. \/ srv[c].step = "LINKED" /\ OnInitNameMessage(c)
        \/ proxy' = proxy
        \/ x # INIT_NAME /\ DispatchMessage(x, Name(c)) /\ srv' = srv
    BY <1>3 DEF S_Read
  <2> QED
    BY <2>1, <2>2
<1>4. CASE \E c \in Conns : ServerStep(c) \/ Cut(c)
  <2>1. PICK c \in Conns : ServerStep(c) \/ Cut(c)
    BY <1>4
  <2>2. CASE S_Read(c)
    BY <2>2, <1>3
  <2>3. CASE S_WriteDone(c)
    BY <2>3 DEF S_WriteDone
  <2>4. CASE S_Accept(c) \/ S_Prepare(c) \/ S_Error(c) \/ S_Expire(c) \/ S_Destroy(c) \/ Cut(c)
    BY <2>4 DEF S_Accept, S_Prepare, S_Error, S_Expire, S_Destroy, Cut
  <2> QED
    BY <2>1, <2>2, <2>3, <2>4 DEF ServerStep
<1>5. CASE UNCHANGED vars
  BY <1>5 DEF vars
<1> QED
  BY <1>1, <1>2, <1>4, <1>5 DEF Next

\* What a login does to the proxy of its name: it stays, is deleted with its
\* task, or passes to the new connection, whose predecessor is dead.
LEMMA LoginFacts ==
    ASSUME IInv, NEW c \in Conns, srv[c].step = "LINKED", OnInitNameMessage(c)
    PROVE  /\ \A k \in Names : k # Name(c) => proxy'[k] = proxy[k]
           /\ \/ proxy' = proxy
              \/ /\ TrustMode /\ IsConnectionAlive(Name(c)) /\ ~proxy'[Name(c)].here
                 /\ ~TaskIn(srv', proxy[Name(c)].task)
              \/ /\ proxy[Name(c)].here => ~TaskIn(srv', proxy[Name(c)].task)
                 /\ \/ TrustMode /\ IsConnectionAlive(Name(c))
                    \/ proxy'[Name(c)].pending = IF proxy[Name(c)].here
                                                 THEN proxy[Name(c)].pending ELSE <<>>
                 /\ proxy'[Name(c)].task = c
<1> DEFINE n == Name(c)
           kick == TrustMode /\ IsConnectionAlive(n)
           base == IF kick THEN Orphaned(n) ELSE srv
<1>1. /\ n \in Names /\ srv \in [Conns -> ServerTask] /\ proxy \in [Names -> Proxy]
      /\ proxy[n].task \in Conns \cup {NoTask}
  BY ConnFacts DEF IInv, CenterOK, Proxy
<1>2. /\ base \in [Conns -> ServerTask]
      /\ \/ /\ ~kick /\ proxy' = proxy
            /\ srv' = [srv EXCEPT ![c].quit = TRUE]
         \/ /\ kick /\ proxy' = [proxy EXCEPT ![n] = Absent]
            /\ srv' = [base EXCEPT ![c].quit = TRUE]
         \/ /\ srv' = [base EXCEPT ![c].host = TRUE]
            /\ \A d \in Conns : Name(d) = n /\ base[d].step \in {"LINKED", "LINGER"} =>
                    ~base[d].host
            /\ \A t \in Conns : proxy[n].here /\ t = proxy[n].task =>
                    ~TaskIn(base, t)
            /\ \E p \in Proxy :
                /\ proxy' = [proxy EXCEPT ![n] = p]
                /\ p.here /\ p.task = c
                /\ p.pending = IF proxy[n].here /\ ~kick THEN proxy[n].pending ELSE <<>>
  BY LoginCases
<1>3. ASSUME NEW t \in Conns, srv' = [base EXCEPT ![c].quit = TRUE] \/ srv' = [base EXCEPT ![c].host = TRUE]
      PROVE  srv'[t].step = base[t].step
  <2>1. base[c] \in ServerTask
    BY <1>2
  <2>2. PICK r \in ServerTask : srv' = [base EXCEPT ![c] = r] /\ r.step = base[c].step
    <3> DEFINE p == [base[c] EXCEPT !.quit = TRUE]
               q == [base[c] EXCEPT !.host = TRUE]
    <3>1. srv' = [base EXCEPT ![c] = p] \/ srv' = [base EXCEPT ![c] = q]
      BY <1>3
    <3> HIDE DEF base
    <3>2. p \in ServerTask /\ p.step = base[c].step /\ q \in ServerTask /\ q.step = base[c].step
      BY <2>1 DEF ServerTask
    <3> HIDE DEF p, q
    <3> QED
      BY <3>1, <3>2
  <2> HIDE DEF base
  <2> QED
    BY <1>2, <2>2
<1>4. ASSUME NEW t, ~TaskIn(base, t), t \in Conns \cup {NoTask},
             srv' = [base EXCEPT ![c].quit = TRUE] \/ srv' = [base EXCEPT ![c].host = TRUE]
      PROVE  ~TaskIn(srv', t)
  <2> HIDE DEF base
  <2> QED
    BY <1>3, <1>4 DEF TaskIn
<1>5. ASSUME kick
      PROVE  ~TaskIn(base, proxy[n].task)
  <2>1. proxy[n].task \in Conns /\ Name(proxy[n].task) = n
    BY <1>1, <1>5 DEF IsConnectionAlive, IsTask, TaskIn, IInv, ProxiesFit, ProxyFits
  <2> QED
    BY <1>1, <1>5, <2>1, OrphanedFacts
<1>6. CASE ~kick /\ proxy' = proxy
  BY <1>6
<1>7. CASE kick /\ proxy' = [proxy EXCEPT ![n] = Absent] /\ srv' = [base EXCEPT ![c].quit = TRUE]
  <2>1. proxy'[n] = Absent /\ \A k \in Names : k # n => proxy'[k] = proxy[k]
    BY <1>1, <1>7
  <2>2. ~TaskIn(srv', proxy[n].task)
    BY <1>1, <1>4, <1>5, <1>7
  <2> QED
    BY <1>7, <2>1, <2>2 DEF Absent
<1>8. CASE /\ srv' = [base EXCEPT ![c].host = TRUE]
           /\ \A t \in Conns : proxy[n].here /\ t = proxy[n].task => ~TaskIn(base, t)
           /\ \E p \in Proxy :
                /\ proxy' = [proxy EXCEPT ![n] = p]
                /\ p.here /\ p.task = c
                /\ p.pending = IF proxy[n].here /\ ~kick THEN proxy[n].pending ELSE <<>>
  <2>1. /\ proxy'[n].task = c /\ \A k \in Names : k # n => proxy'[k] = proxy[k]
        /\ proxy'[n].pending = IF proxy[n].here /\ ~kick THEN proxy[n].pending ELSE <<>>
    BY <1>1, <1>8
  <2>2. ASSUME proxy[n].here
        PROVE  ~TaskIn(srv', proxy[n].task)
    <3>1. ~TaskIn(base, proxy[n].task)
      BY <1>1, <1>8, <2>2 DEF TaskIn
    <3> QED
      BY <1>1, <1>4, <1>8, <3>1
  <2> QED
    BY <2>1, <2>2
<1> HIDE DEF base, kick, n
<1> QED
  BY <1>2, <1>6, <1>7, <1>8 DEF n, kick

\* Every step is one that AttachReplacesDead allows.
LEMMA AttachReplacesDeadHolds == IInv /\ [Next]_vars => AttachReplacesDeadStep
<1> SUFFICES ASSUME IInv, [Next]_vars, NEW n \in Names, proxy[n].here, proxy'[n].here,
                    proxy'[n].task # proxy[n].task
             PROVE  ~TaskIn(srv', proxy[n].task)
  BY DEF AttachReplacesDeadStep
<1>1. CASE \E c \in Conns : srv[c].step = "LINKED" /\ OnInitNameMessage(c)
  BY <1>1, LoginFacts
<1>2. ~\E m \in Msgs, k \in Names : DispatchMessage(m, k)
  BY DispatchFacts
<1>3. ASSUME NEW c \in Conns, proxy' = [proxy EXCEPT ![Name(c)].pending = Tail(@)]
      PROVE  FALSE
  <2> DEFINE p == [proxy[Name(c)] EXCEPT !.pending = Tail(@)]
  <2>1. /\ proxy[Name(c)] \in Proxy /\ proxy' = [proxy EXCEPT ![Name(c)] = p]
        /\ proxy \in [Names -> Proxy]
    BY <1>3, ConnFacts DEF IInv, CenterOK
  <2>2. p.task = proxy[Name(c)].task
    BY <2>1 DEF Proxy
  <2> HIDE DEF p
  <2> QED
    BY <2>1, <2>2
<1>4. ~AutoKillPeers
  <2> SUFFICES ASSUME AutoKillPeers
               PROVE  FALSE
    OBVIOUS
  <2>1. proxy[n] \in Proxy
    BY DEF IInv, CenterOK
  <2>2. \/ proxy'[n] = Absent
        \/ proxy'[n] = [proxy[n] EXCEPT !.life = @ + 1]
        \/ proxy'[n] = [proxy[n] EXCEPT !.life = 0]
    BY <2>1 DEF AutoKillPeers
  <2>3. proxy'[n] # Absent
    BY DEF Absent
  <2> QED
    BY <2>1, <2>2, <2>3 DEF Proxy
<1>5. ~Restart
  BY DEF Restart, Absent
<1> QED
  BY <1>1, <1>2, <1>3, <1>4, <1>5, ProxySteps

\* The assertion of CTaskPeerServer::AttachTaskPeerServer: a proxy passes from
\* one task to another only when the first is dead.
THEOREM OnlyTheDeadAreReplaced == Spec => AttachReplacesDead
<1>1. IInv /\ [Next]_vars => [AttachReplacesDeadStep]_vars
  BY AttachReplacesDeadHolds
<1> QED
  BY <1>1, Invariance, PTL DEF Spec, AttachReplacesDead

\* Every step is one that PendingKept allows.
LEMMA PendingKeptHolds == IInv /\ [Next]_vars => PendingKeptStep
<1> SUFFICES ASSUME IInv, [Next]_vars, restarts' = restarts, NEW n \in Names
             PROVE  \/ IsPrefix(proxy[n].pending, proxy'[n].pending)
                    \/ /\ proxy[n].pending # <<>> /\ proxy'[n].pending = Tail(proxy[n].pending)
                       /\ IsTask(proxy[n].task) /\ srv[proxy[n].task].writing = "MSG"
                    \/ ~proxy'[n].here /\ ~IsConnectionAlive(n) /\ proxy[n].life + 1 >= MaxLife
                    \/ TrustMode /\ IsConnectionAlive(n) /\ ~TaskIn(srv', proxy[n].task)
  BY Zenon DEF PendingKeptStep
<1>1. /\ proxy \in [Names -> Proxy] /\ proxy[n].pending \in Seq(Msgs)
      /\ Len(proxy[n].pending) <= QueueLen
      /\ ~proxy[n].here => proxy[n].pending = <<>>
  BY DEF IInv, CenterOK, Proxy, ProxiesFit, ProxyFits
<1>2. IsPrefix(proxy[n].pending, proxy[n].pending)
  BY <1>1, IsPrefixFacts DEF IsPrefix
<1>3. ASSUME proxy'[n].pending = proxy[n].pending
      PROVE  IsPrefix(proxy[n].pending, proxy'[n].pending)
  BY <1>2, <1>3
<1>4. ASSUME NEW c \in Conns, srv[c].step = "LINKED", OnInitNameMessage(c)
      PROVE  \/ IsPrefix(proxy[n].pending, proxy'[n].pending)
             \/ TrustMode /\ IsConnectionAlive(n) /\ ~TaskIn(srv', proxy[n].task)
  <2>1. CASE n # Name(c)
    BY <1>3, <1>4, <2>1, LoginFacts
  <2>2. CASE n = Name(c)
    BY <1>1, <1>3, <1>4, <2>2, LoginFacts DEF IsConnectionAlive
  <2> QED
    BY <2>1, <2>2
<1>5. ASSUME NEW m \in Msgs, NEW k \in Names, DispatchMessage(m, k)
      PROVE  IsPrefix(proxy[n].pending, proxy'[n].pending)
  <2>1. \/ proxy'[n].pending = proxy[n].pending
        \/ proxy'[n].pending = Push(proxy[n].pending, m)
    BY <1>5, DispatchFacts
  <2>2. \/ proxy'[n].pending = proxy[n].pending
        \/ proxy'[n].pending = Append(proxy[n].pending, m)
    BY <1>1, <2>1, PushFacts
  <2> QED
    BY <1>1, <1>3, <2>2, IsPrefixFacts
<1>6. ASSUME NEW c \in Conns, srv[c].writing = "MSG",
             proxy' = [proxy EXCEPT ![Name(c)].pending = Tail(@)]
      PROVE  \/ IsPrefix(proxy[n].pending, proxy'[n].pending)
             \/ /\ proxy[n].pending # <<>> /\ proxy'[n].pending = Tail(proxy[n].pending)
                /\ IsTask(proxy[n].task) /\ srv[proxy[n].task].writing = "MSG"
  <2>1. CASE n # Name(c)
    BY <1>1, <1>3, <1>6, <2>1
  <2>2. CASE n = Name(c)
    <3> DEFINE p == [proxy[n] EXCEPT !.pending = Tail(@)]
    <3>1. proxy' = [proxy EXCEPT ![n] = p] /\ proxy[n] \in Proxy
      BY <1>1, <1>6, <2>2
    <3>2. p.pending = Tail(proxy[n].pending)
      BY <3>1 DEF Proxy
    <3> HIDE DEF p
    <3>3. proxy'[n].pending = Tail(proxy[n].pending)
      BY <1>1, <3>1, <3>2
    <3> QED
      BY <1>6, <2>2, <3>3, WriterFacts
  <2> QED
    BY <2>1, <2>2
<1>7. ASSUME AutoKillPeers
      PROVE  \/ IsPrefix(proxy[n].pending, proxy'[n].pending)
             \/ ~proxy'[n].here /\ ~IsConnectionAlive(n) /\ proxy[n].life + 1 >= MaxLife
  <2>1. \/ proxy'[n] = Absent /\ ~IsConnectionAlive(n) /\ proxy[n].life + 1 >= MaxLife
        \/ proxy'[n] = [proxy[n] EXCEPT !.life = @ + 1]
        \/ proxy'[n] = [proxy[n] EXCEPT !.life = 0]
    BY <1>1, <1>7 DEF AutoKillPeers
  <2>2. CASE proxy'[n] = Absent
    BY <2>1, <2>2, <1>3 DEF Absent
  <2>3. CASE \/ proxy'[n] = [proxy[n] EXCEPT !.life = @ + 1]
             \/ proxy'[n] = [proxy[n] EXCEPT !.life = 0]
    BY <1>1, <1>3, <2>3 DEF Proxy
  <2> QED
    BY <2>1, <2>2, <2>3
<1>8. ~Restart
  BY DEF Restart, IInv, WaysOK
<1> QED
  BY <1>3, <1>4, <1>5, <1>6, <1>7, <1>8, ProxySteps

\* What is pending for a name is lost only with a proxy the killer deletes
\* or a login kicks out (CPeerProxy's queue, AutoKillPeers).
THEOREM PendingIsKept == Spec => PendingKept
<1>1. IInv /\ [Next]_vars => [PendingKeptStep]_vars
  BY PendingKeptHolds
<1> QED
  BY <1>1, Invariance, PTL DEF Spec, PendingKept

-----------------------------------------------------------------------------
(* A message is at one place.                                              *)

Has(q, m) == \E i \in 1 .. Len(q) : q[i] = m
Lone(q, m) == \A i, j \in 1 .. Len(q) : q[i] = m /\ q[j] = m => i = j
NoMore(p, q, m) == (Has(p, m) => Has(q, m)) /\ (Lone(q, m) => Lone(p, m))

\* A message is in at most one of the queues that lead to the center, and has
\* one place there.
UpOnce(m) ==
    /\ \A cl \in Clients : Lone(cqueue[cl], m)
    /\ \A c \in Conns : Lone(up[c], m)
    /\ \A cl, k \in Clients : Has(cqueue[cl], m) /\ Has(cqueue[k], m) => cl = k
    /\ \A c, d \in Conns : Has(up[c], m) /\ Has(up[d], m) => c = d
    /\ \A cl \in Clients, c \in Conns : ~(Has(cqueue[cl], m) /\ Has(up[c], m))

\* Of those that lead from the center to a name, too.
DownOnce(m, n) ==
    /\ Lone(proxy[n].pending, m)
    /\ \A c \in Conns : Name(c) = n => Lone(down[c], m)
    /\ \A cl \in Clients : NameOf[cl] = n => Lone(got[cl], m)
    /\ \A c, d \in Conns :
         Name(c) = n /\ Name(d) = n /\ Has(down[c], m) /\ Has(down[d], m) => c = d
    /\ \A cl, k \in Clients :
         NameOf[cl] = n /\ NameOf[k] = n /\ Has(got[cl], m) /\ Has(got[k], m) => cl = k
    /\ \A c \in Conns :
         Name(c) = n /\ Has(down[c], m) =>
            /\ ~Has(proxy[n].pending, m)
            /\ \A cl \in Clients : NameOf[cl] = n => ~Has(got[cl], m)
    /\ \A cl \in Clients :
         NameOf[cl] = n => ~(Has(proxy[n].pending, m) /\ Has(got[cl], m))

Before(m) ==
    (\E cl \in Clients : Has(cqueue[cl], m)) \/ (\E c \in Conns : Has(up[c], m))
After(m, n) ==
    \/ Has(proxy[n].pending, m)
    \/ \E c \in Conns : Name(c) = n /\ Has(down[c], m)
    \/ \E cl \in Clients : NameOf[cl] = n /\ Has(got[cl], m)

Once(m) ==
    /\ UpOnce(m)
    /\ \A n \in Names : DownOnce(m, n) /\ ~(Before(m) /\ After(m, n))
    /\ m \notin sent => ~Before(m) /\ \A n \in Names : ~After(m, n)

\* In trust mode only connections of the wrong version are refused, and those
\* are never logged in: no message is being written when one is to quit.
OnlyBadQuit ==
    TrustMode => \A c \in Conns : /\ srv[c].quit => c[1] \in BadVersion
                                  /\ c[1] \in BadVersion => ~srv[c].host

\* The empty queue has no message.
LEMMA EmptyOnce ==
    ASSUME NEW m
    PROVE  ~Has(<<>>, m) /\ Lone(<<>>, m) /\ \A q : NoMore(q, q, m) /\ NoMore(<<>>, q, m)
<1>1. ~Has(<<>>, m) /\ Lone(<<>>, m)
  BY DEF Has, Lone
<1> QED
  BY <1>1 DEF NoMore

\* What is appended is behind what was there.
LEMMA AppendOnce ==
    ASSUME NEW S, NEW q \in Seq(S), NEW x \in S, NEW m
    PROVE  /\ Has(Append(q, x), m) <=> Has(q, m) \/ x = m
           /\ Lone(q, m) /\ (x = m => ~Has(q, m)) => Lone(Append(q, x), m)
           /\ x # m => NoMore(Append(q, x), q, m)
<1> DEFINE p == Append(q, x)
<1>1. PICK n \in Nat : n = Len(q)
  OBVIOUS
<1>2. Len(p) = n + 1 /\ p[n + 1] = x /\ \A i \in 1 .. n : p[i] = q[i]
  BY <1>1, AppendProperties
<1> HIDE DEF p
<1>3. \A i \in 1 .. n + 1 : i \in 1 .. n \/ i = n + 1
  BY <1>1
<1>4. 1 .. n \subseteq 1 .. n + 1 /\ n + 1 \in 1 .. n + 1
  BY <1>1
<1>5. Has(p, m) <=> Has(q, m) \/ x = m
  BY <1>1, <1>2, <1>3, <1>4 DEF Has
<1>6. ASSUME Lone(q, m), x = m => ~Has(q, m)
      PROVE  Lone(p, m)
  BY <1>1, <1>2, <1>3, <1>6 DEF Lone, Has
<1> QED
  BY <1>5, <1>6 DEF NoMore, p

\* Something else at the head.
LEMMA PushHeadOnce ==
    ASSUME NEW S, NEW q \in Seq(S), NEW x \in S, NEW m, x # m
    PROVE  NoMore(<<x>> \o q, q, m)
<1> DEFINE p == <<x>> \o q
<1>1. PICK n \in Nat : n = Len(q)
  OBVIOUS
<1>2. <<x>> \in Seq(S) /\ Len(<<x>>) = 1 /\ <<x>>[1] = x
  OBVIOUS
<1>3. Len(p) = 1 + n /\ \A i \in 1 .. 1 + n : p[i] = IF i <= 1 THEN <<x>>[i] ELSE q[i - 1]
  BY <1>1, <1>2, ConcatProperties
<1> HIDE DEF p
<1>4. \A i \in 1 .. 1 + n : p[i] = m => i - 1 \in 1 .. n /\ q[i - 1] = m
  <2> SUFFICES ASSUME NEW i \in 1 .. 1 + n, p[i] = m
               PROVE  i - 1 \in 1 .. n /\ q[i - 1] = m
    OBVIOUS
  <2>1. i # 1
    BY <1>1, <1>2, <1>3
  <2> QED
    BY <1>1, <1>3, <2>1
<1>5. Has(p, m) => Has(q, m)
  BY <1>1, <1>3, <1>4 DEF Has
<1>6. ASSUME Lone(q, m), NEW i \in 1 .. 1 + n, NEW j \in 1 .. 1 + n, p[i] = m, p[j] = m
      PROVE  i = j
  <2>1. i - 1 = j - 1
    BY <1>1, <1>4, <1>6 DEF Lone
  <2> QED
    BY <1>1, <2>1
<1> QED
  BY <1>3, <1>5, <1>6 DEF NoMore, Lone, p

\* What leaves the head of a queue with one copy of it is not there any more.
LEMMA TailOnce ==
    ASSUME NEW S, NEW q \in Seq(S), q # <<>>, NEW m
    PROVE  /\ Tail(q) \in Seq(S) /\ Head(q) \in S
           /\ NoMore(Tail(q), q, m)
           /\ Head(q) = m => Has(q, m) /\ (Lone(q, m) => ~Has(Tail(q), m))
<1> DEFINE p == Tail(q)
<1>1. PICK n \in Nat : n = Len(q)
  OBVIOUS
<1>2. n # 0 /\ Head(q) = q[1] /\ p \in Seq(S) /\ Head(q) \in S
      /\ Len(p) = n - 1 /\ \A i \in 1 .. n - 1 : p[i] = q[i + 1]
  BY <1>1, EmptySeq, HeadTailProperties
<1> HIDE DEF p
<1>3. \A i \in 1 .. n - 1 : i + 1 \in 1 .. n /\ i + 1 # 1
  BY <1>1
<1>4. Has(p, m) => Has(q, m)
  BY <1>1, <1>2, <1>3 DEF Has
<1>5. ASSUME Lone(q, m), NEW i \in 1 .. n - 1, NEW j \in 1 .. n - 1, p[i] = m, p[j] = m
      PROVE  i = j
  <2>1. i + 1 = j + 1
    BY <1>1, <1>2, <1>3, <1>5 DEF Lone
  <2> QED
    BY <1>1, <2>1
<1>6. ASSUME q[1] = m, Lone(q, m)
      PROVE  ~Has(p, m)
  <2>1. 1 \in 1 .. n
    BY <1>1, <1>2
  <2> QED
    BY <1>1, <1>2, <1>3, <1>6, <2>1 DEF Has, Lone
<1>7. q[1] = m => Has(q, m)
  BY <1>1, <1>2 DEF Has
<1>8. Lone(q, m) => Lone(p, m)
  BY <1>2, <1>5 DEF Lone
<1> QED
  BY <1>2, <1>4, <1>6, <1>7, <1>8 DEF NoMore, p

\* The beginning of a queue has nothing that it does not have.
LEMMA PrefixOnce ==
    ASSUME NEW S, NEW q \in Seq(S), NEW k \in 0 .. Len(q), NEW m
    PROVE  NoMore(SubSeq(q, 1, k), q, m)
<1> DEFINE p == SubSeq(q, 1, k)
<1>1. Len(p) = k /\ \A i \in 1 .. k : p[i] = q[i]
  BY PrefixFacts
<1>2. \A i \in 1 .. k : i \in 1 .. Len(q)
  OBVIOUS
<1> HIDE DEF p
<1> QED
  BY <1>1, <1>2 DEF NoMore, Has, Lone, p

-----------------------------------------------------------------------------
\* Where queues only shrink, or nothing is appended but other packages, a
\* message stays at one place.
LEMMA NoMoreOnce ==
    ASSUME NEW m \in Msgs, Once(m), sent \subseteq sent',
           \A cl \in Clients : NoMore(cqueue'[cl], cqueue[cl], m),
           \A cl \in Clients : NoMore(got'[cl], got[cl], m),
           \A c \in Conns : NoMore(up'[c], up[c], m),
           \A c \in Conns : NoMore(down'[c], down[c], m),
           \A n \in Names : NoMore(proxy'[n].pending, proxy[n].pending, m)
    PROVE  Once(m)'
<1>1. UpOnce(m)'
  BY DEF Once, UpOnce, NoMore
<1>2. Before(m)' => Before(m)
  BY DEF Before, NoMore
<1>3. ASSUME NEW n \in Names
      PROVE  DownOnce(m, n)' /\ (After(m, n)' => After(m, n))
  <2>1. DownOnce(m, n)'
    BY DEF Once, DownOnce, NoMore
  <2>2. After(m, n)' => After(m, n)
    BY DEF After, NoMore
  <2> QED
    BY <2>1, <2>2
<1> QED
  BY <1>1, <1>2, <1>3 DEF Once

\* A message that is sent for the first time is nowhere yet.
LEMMA SendOnce ==
    ASSUME IInv, NEW m \in Msgs, Once(m), NEW x \in Msgs, C_Send(x)
    PROVE  Once(m)'
<1> DEFINE cl == Sender[x]
<1>1. /\ x \notin sent /\ sent' = sent \cup {x}
      /\ UNCHANGED <<got, up, down, proxy>>
      /\ cl \in Clients
      /\ cqueue \in [Clients -> Seq(Msgs \cup {INIT_NAME})]
      /\ cqueue' = cqueue \/ cqueue' = [cqueue EXCEPT ![cl] = Push(@, x)]
      /\ Len(cqueue[cl]) <= QueueLen
  BY SenderAssumption DEF C_Send, IInv, ClientOK
<1>2. cqueue[cl] \in Seq(Msgs \cup {INIT_NAME}) /\ x \in Msgs \cup {INIT_NAME}
  BY <1>1
<1>3. Push(cqueue[cl], x) = cqueue[cl] \/ Push(cqueue[cl], x) = Append(cqueue[cl], x)
  BY <1>1, <1>2, PushFacts
<1>4. /\ \A k \in Clients : k # cl => cqueue'[k] = cqueue[k]
      /\ cqueue'[cl] = cqueue[cl] \/ cqueue'[cl] = Append(cqueue[cl], x)
  BY <1>1, <1>3
<1>7. /\ Has(Append(cqueue[cl], x), m) <=> Has(cqueue[cl], m) \/ x = m
      /\ Lone(cqueue[cl], m) /\ (x = m => ~Has(cqueue[cl], m)) => Lone(Append(cqueue[cl], x), m)
      /\ x # m => NoMore(Append(cqueue[cl], x), cqueue[cl], m)
  BY <1>2, AppendOnce
<1> HIDE DEF cl
<1>5. CASE x # m
  <2>1. \A k \in Clients : NoMore(cqueue'[k], cqueue[k], m)
    BY <1>4, <1>5, <1>7, EmptyOnce
  <2> QED
    BY <1>1, <2>1, EmptyOnce, NoMoreOnce
<1>6. CASE x = m
  <2>1. ~Before(m) /\ \A n \in Names : ~After(m, n)
    BY <1>1, <1>6 DEF Once
  <2>2. Lone(cqueue'[cl], m)
    BY <1>1, <1>4, <1>6, <1>7, <2>1 DEF Before, Once, UpOnce
  <2>3. UpOnce(m)'
    BY <1>1, <1>4, <2>1, <2>2 DEF Before, Once, UpOnce
  <2>4. ASSUME NEW n \in Names
        PROVE  DownOnce(m, n)' /\ ~After(m, n)'
    BY <1>1, <2>1 DEF Once, DownOnce, After
  <2>5. m \in sent'
    BY <1>1, <1>6
  <2> QED
    BY <2>3, <2>4, <2>5 DEF Once
<1> QED
  BY <1>5, <1>6

\* A package leaves the sending queue when it is written.
LEMMA WriteOnce ==
    ASSUME IInv, NEW m \in Msgs, Once(m), NEW cl \in Clients, C_Write(cl)
    PROVE  Once(m)'
<1> DEFINE c == Current(cl)
           x == Head(cqueue[cl])
<1>1. /\ cstep[cl] = "LINKED" /\ cqueue[cl] # <<>>
      /\ cqueue' = [cqueue EXCEPT ![cl] = Tail(@)]
      /\ up' = [up EXCEPT ![c] = Append(@, x)] \/ up' = up
      /\ UNCHANGED <<sent, got, down, proxy>>
      /\ cqueue \in [Clients -> Seq(Msgs \cup {INIT_NAME})]
      /\ up \in [Conns -> Seq(Msgs \cup {INIT_NAME})]
  BY DEF C_Write, IInv, ClientOK, WaysOK
<1>2. c \in Conns
  <2>1. nconn[cl] \in Nat /\ nconn[cl] <= MaxConn[cl] /\ nconn[cl] > 0
    BY <1>1 DEF IInv, ClientOK, TasksFit
  <2> QED
    BY <2>1, ConnFacts DEF Current
<1>3. cqueue[cl] \in Seq(Msgs \cup {INIT_NAME}) /\ up[c] \in Seq(Msgs \cup {INIT_NAME})
  BY <1>1, <1>2
<1>4. /\ x \in Msgs \cup {INIT_NAME}
      /\ NoMore(Tail(cqueue[cl]), cqueue[cl], m)
      /\ x = m => Has(cqueue[cl], m) /\ (Lone(cqueue[cl], m) => ~Has(Tail(cqueue[cl]), m))
  BY <1>1, <1>3, TailOnce
<1>5. /\ cqueue'[cl] = Tail(cqueue[cl])
      /\ \A k \in Clients : k # cl => cqueue'[k] = cqueue[k]
      /\ up'[c] = up[c] \/ up'[c] = Append(up[c], x)
      /\ \A d \in Conns : d # c => up'[d] = up[d]
  BY <1>1, <1>2
<1>6. /\ Has(Append(up[c], x), m) <=> Has(up[c], m) \/ x = m
      /\ Lone(up[c], m) /\ (x = m => ~Has(up[c], m)) => Lone(Append(up[c], x), m)
      /\ x # m => NoMore(Append(up[c], x), up[c], m)
  BY <1>3, <1>4, AppendOnce
<1> HIDE DEF c, x
<1>7. CASE x # m
  <2>1. \A k \in Clients : NoMore(cqueue'[k], cqueue[k], m)
    BY <1>4, <1>5, EmptyOnce
  <2>2. \A d \in Conns : NoMore(up'[d], up[d], m)
    BY <1>5, <1>6, <1>7, EmptyOnce
  <2> QED
    BY <1>1, <2>1, <2>2, EmptyOnce, NoMoreOnce
<1>8. CASE x = m
  <2>1. /\ Before(m) /\ m \in sent /\ \A n \in Names : ~After(m, n)
        /\ \A k \in Clients : k # cl => ~Has(cqueue[k], m)
        /\ \A d \in Conns : ~Has(up[d], m)
    BY <1>4, <1>8 DEF Before, Once, UpOnce
  <2>2. \A k \in Clients : ~Has(cqueue'[k], m) /\ Lone(cqueue'[k], m)
    BY <1>4, <1>5, <1>8, <2>1 DEF Once, UpOnce, NoMore
  <2>3. \A d \in Conns : Lone(up'[d], m) /\ (Has(up'[d], m) => d = c)
    BY <1>5, <1>6, <1>8, <2>1 DEF Once, UpOnce
  <2>4. UpOnce(m)'
    BY <2>2, <2>3 DEF UpOnce
  <2>5. ASSUME NEW n \in Names
        PROVE  DownOnce(m, n)' /\ ~After(m, n)'
    BY <1>1, <2>1 DEF Once, DownOnce, After
  <2> QED
    BY <1>1, <2>1, <2>4, <2>5 DEF Once
<1> QED
  BY <1>7, <1>8

\* An application has what its client has taken from the connection.
LEMMA ReadOnce ==
    ASSUME IInv, NEW m \in Msgs, Once(m), NEW cl \in Clients, C_Read(cl)
    PROVE  Once(m)'
<1> DEFINE c == Current(cl)
           x == Head(down[c])
<1>1. /\ cstep[cl] = "LINKED" /\ down[c] # <<>>
      /\ \/ /\ x = INIT_CHECK_FAIL
            /\ cqueue' = [cqueue EXCEPT ![cl] = <<>>]
            /\ down' = [down EXCEPT ![c] = <<>>] /\ got' = got
         \/ /\ x # INIT_CHECK_FAIL
            /\ got' = [got EXCEPT ![cl] = Append(@, x)]
            /\ down' = [down EXCEPT ![c] = Tail(@)] /\ cqueue' = cqueue
      /\ UNCHANGED <<sent, up, proxy>>
      /\ cqueue \in [Clients -> Seq(Msgs \cup {INIT_NAME})]
      /\ got \in [Clients -> Seq(Msgs)]
      /\ down \in [Conns -> Seq(Msgs \cup {INIT_CHECK_FAIL})]
  BY DEF C_Read, IInv, ClientOK, WaysOK
<1>2. c \in Conns /\ Name(c) = NameOf[cl] /\ NameOf[cl] \in Names
  <2>1. nconn[cl] \in Nat /\ nconn[cl] <= MaxConn[cl] /\ nconn[cl] > 0
    BY <1>1 DEF IInv, ClientOK, TasksFit
  <2> QED
    BY <2>1, ConnFacts, NameOfAssumption DEF Current, Name
<1>3. down[c] \in Seq(Msgs \cup {INIT_CHECK_FAIL}) /\ got[cl] \in Seq(Msgs)
  BY <1>1, <1>2
<1>4. /\ x \in Msgs \cup {INIT_CHECK_FAIL}
      /\ NoMore(Tail(down[c]), down[c], m)
      /\ x = m => Has(down[c], m) /\ (Lone(down[c], m) => ~Has(Tail(down[c]), m))
  BY <1>1, <1>3, TailOnce
<1>5. CASE x = INIT_CHECK_FAIL
  <2>1. /\ got' = got
        /\ \A k \in Clients : cqueue'[k] = cqueue[k] \/ cqueue'[k] = <<>>
        /\ \A d \in Conns : down'[d] = down[d] \/ down'[d] = <<>>
    BY <1>1, <1>2, <1>5
  <2> QED
    BY <1>1, <2>1, EmptyOnce, NoMoreOnce
<1>6. CASE x # INIT_CHECK_FAIL
  <2>1. /\ cqueue' = cqueue /\ x \in Msgs
        /\ down'[c] = Tail(down[c]) /\ \A d \in Conns : d # c => down'[d] = down[d]
        /\ got'[cl] = Append(got[cl], x) /\ \A k \in Clients : k # cl => got'[k] = got[k]
    BY <1>1, <1>2, <1>4, <1>6
  <2>2. /\ Has(Append(got[cl], x), m) <=> Has(got[cl], m) \/ x = m
        /\ Lone(got[cl], m) /\ (x = m => ~Has(got[cl], m)) => Lone(Append(got[cl], x), m)
        /\ x # m => NoMore(Append(got[cl], x), got[cl], m)
    BY <1>3, <2>1, AppendOnce
  <2> HIDE DEF c, x
  <2>3. CASE x # m
    <3>1. \A k \in Clients : NoMore(got'[k], got[k], m)
      BY <2>1, <2>2, <2>3, EmptyOnce
    <3>2. \A d \in Conns : NoMore(down'[d], down[d], m)
      BY <1>4, <2>1, EmptyOnce
    <3> QED
      BY <1>1, <2>1, <3>1, <3>2, EmptyOnce, NoMoreOnce
  <2>4. CASE x = m
    <3>0. PICK n \in Names : n = Name(c)
      BY <1>2
    <3>1. /\ Has(down[c], m) /\ n \in Names /\ After(m, n) /\ DownOnce(m, n)
          /\ ~Before(m) /\ m \in sent
      BY <1>2, <1>4, <2>4, <3>0 DEF After, Once
    <3>2. /\ ~Has(proxy[n].pending, m)
          /\ \A d \in Conns : Name(d) = n /\ d # c => ~Has(down[d], m)
          /\ \A k \in Clients : NameOf[k] = n => ~Has(got[k], m)
          /\ \A d \in Conns : Name(d) = n => Lone(down[d], m)
          /\ \A k \in Clients : NameOf[k] = n => Lone(got[k], m)
          /\ Lone(proxy[n].pending, m)
      BY <1>2, <3>0, <3>1 DEF DownOnce
    <3>3. \A d \in Conns : Name(d) = n => Lone(down'[d], m) /\ ~Has(down'[d], m)
      BY <1>4, <2>1, <2>4, <3>0, <3>2 DEF NoMore
    <3>4. \A k \in Clients : NameOf[k] = n =>
              Lone(got'[k], m) /\ (Has(got'[k], m) => k = cl)
      BY <1>2, <2>1, <2>2, <2>4, <3>0, <3>2
    <3>5. DownOnce(m, n)'
      BY <1>1, <3>2, <3>3, <3>4 DEF DownOnce
    <3>6. UpOnce(m)' /\ ~Before(m)'
      BY <1>1, <2>1, <3>1 DEF Once, UpOnce, Before
    <3>7. ASSUME NEW k \in Names, k # n
          PROVE  DownOnce(m, k)'
      <4>1. \A d \in Conns : Name(d) = k => down'[d] = down[d]
        BY <2>1, <3>0, <3>7
      <4>2. \A d \in Clients : NameOf[d] = k => got'[d] = got[d]
        BY <1>2, <2>1, <3>0, <3>7
      <4> QED
        BY <1>1, <4>1, <4>2 DEF Once, DownOnce
    <3> QED
      BY <1>1, <3>1, <3>5, <3>6, <3>7 DEF Once
  <2> QED
    BY <2>3, <2>4
<1> QED
  BY <1>5, <1>6

\* A message goes from its connection to each of its receivers, once.
LEMMA DispatchOnce ==
    ASSUME IInv, NEW m \in Msgs, Once(m), NEW c \in Conns, up[c] # <<>>,
           up' = [up EXCEPT ![c] = Tail(@)],
           Head(up[c]) # INIT_NAME, DispatchMessage(Head(up[c]), Name(c)),
           UNCHANGED <<cqueue, sent, got, down>>
    PROVE  Once(m)'
<1>1. /\ up \in [Conns -> Seq(Msgs \cup {INIT_NAME})] /\ Name(c) \in Names
      /\ up[c] \in Seq(Msgs \cup {INIT_NAME})
  BY ConnFacts DEF IInv, WaysOK
<1>2. PICK x \in Msgs : x = Head(up[c])
  BY <1>1, TailOnce
<1>3. /\ NoMore(Tail(up[c]), up[c], m)
      /\ x = m => Has(up[c], m) /\ (Lone(up[c], m) => ~Has(Tail(up[c]), m))
  BY <1>1, <1>2, TailOnce
<1>4. up'[c] = Tail(up[c]) /\ \A d \in Conns : d # c => up'[d] = up[d]
  BY <1>1
<1>5. \A n \in Names : \/ proxy'[n].pending = proxy[n].pending
                       \/ proxy'[n].pending = Append(proxy[n].pending, x)
  <2> SUFFICES ASSUME NEW n \in Names
               PROVE  \/ proxy'[n].pending = proxy[n].pending
                      \/ proxy'[n].pending = Append(proxy[n].pending, x)
    OBVIOUS
  <2>1. \/ proxy'[n].pending = proxy[n].pending
        \/ proxy'[n].pending = Push(proxy[n].pending, x)
    BY <1>1, <1>2, DispatchFacts
  <2>2. proxy[n].pending \in Seq(Msgs) /\ Len(proxy[n].pending) <= QueueLen
    BY DEF IInv, CenterOK, Proxy
  <2> QED
    BY <2>1, <2>2, PushFacts
<1>6. \A n \in Names :
        /\ Has(Append(proxy[n].pending, x), m) <=> Has(proxy[n].pending, m) \/ x = m
        /\ Lone(proxy[n].pending, m) /\ (x = m => ~Has(proxy[n].pending, m)) =>
             Lone(Append(proxy[n].pending, x), m)
        /\ x # m => NoMore(Append(proxy[n].pending, x), proxy[n].pending, m)
  <2> SUFFICES ASSUME NEW n \in Names
               PROVE  /\ Has(Append(proxy[n].pending, x), m) <=> Has(proxy[n].pending, m) \/ x = m
                      /\ Lone(proxy[n].pending, m) /\ (x = m => ~Has(proxy[n].pending, m)) =>
                           Lone(Append(proxy[n].pending, x), m)
                      /\ x # m => NoMore(Append(proxy[n].pending, x), proxy[n].pending, m)
    OBVIOUS
  <2>1. proxy[n].pending \in Seq(Msgs)
    BY DEF IInv, CenterOK, Proxy
  <2> QED
    BY <2>1, AppendOnce
<1>7. CASE x # m
  <2>1. \A n \in Names : NoMore(proxy'[n].pending, proxy[n].pending, m)
    BY <1>5, <1>6, <1>7, EmptyOnce
  <2>2. \A d \in Conns : NoMore(up'[d], up[d], m)
    BY <1>3, <1>4, EmptyOnce
  <2> QED
    BY <2>1, <2>2, EmptyOnce, NoMoreOnce
<1>8. CASE x = m
  <2>1. Before(m) /\ m \in sent /\ \A n \in Names : ~After(m, n)
    BY <1>3, <1>8 DEF Before, Once
  <2>2. /\ \A k \in Clients : ~Has(cqueue[k], m)
        /\ \A d \in Conns : ~Has(up'[d], m) /\ Lone(up'[d], m)
    BY <1>3, <1>4, <1>8 DEF Once, UpOnce, NoMore
  <2>3. UpOnce(m)' /\ ~Before(m)'
    BY <2>2 DEF Once, UpOnce, Before
  <2>4. ASSUME NEW n \in Names
        PROVE  DownOnce(m, n)'
    <3>1. /\ ~Has(proxy[n].pending, m) /\ Lone(proxy[n].pending, m)
          /\ \A d \in Conns : Name(d) = n => ~Has(down[d], m)
          /\ \A k \in Clients : NameOf[k] = n => ~Has(got[k], m)
      BY <2>1 DEF After, Once, DownOnce
    <3>2. Lone(proxy'[n].pending, m)
      BY <1>5, <1>6, <3>1
    <3>3. DownOnce(m, n)
      BY DEF Once
    <3> QED
      BY <3>1, <3>2, <3>3 DEF DownOnce
  <2> QED
    BY <2>1, <2>3, <2>4 DEF Once
<1> QED
  BY <1>7, <1>8

\* A message is taken from the pending queue when it is written; in trust mode
\* nothing else is written over it.
LEMMA WriteDoneOnce ==
    ASSUME IInv, TrustMode, OnlyBadQuit, NEW m \in Msgs, Once(m),
           NEW c \in Conns, S_WriteDone(c)
    PROVE  Once(m)'
<1>1. PICK n \in Names : n = Name(c)
  BY ConnFacts
<1>2. srv[c].writing = "MSG" => ~srv[c].quit
  BY WriterFacts DEF OnlyBadQuit
<1>3. /\ down \in [Conns -> Seq(Msgs \cup {INIT_CHECK_FAIL})]
      /\ down[c] \in Seq(Msgs \cup {INIT_CHECK_FAIL})
      /\ UNCHANGED <<cqueue, sent, got, up>>
      /\ proxy \in [Names -> Proxy] /\ proxy[n] \in Proxy /\ proxy[n].pending \in Seq(Msgs)
  BY DEF IInv, WaysOK, CenterOK, Proxy, S_WriteDone, clientVars
<1>4. CASE srv[c].writing = "FAIL"
  <2>1. proxy' = proxy /\ (down' = down \/ down' = [down EXCEPT ![c] = Append(@, INIT_CHECK_FAIL)])
    BY <1>4 DEF S_WriteDone, Deliver
  <2>2. m # INIT_CHECK_FAIL
    BY MsgsAssumption DEF INIT_CHECK_FAIL
  <2>3. NoMore(Append(down[c], INIT_CHECK_FAIL), down[c], m)
    BY <1>3, <2>2, AppendOnce
  <2>4. \A d \in Conns : NoMore(down'[d], down[d], m)
    BY <1>3, <2>1, <2>3, EmptyOnce
  <2> QED
    BY <1>3, <2>1, <2>4, EmptyOnce, NoMoreOnce
<1>5. CASE srv[c].writing = "MSG"
  <2>1. proxy[n].pending # <<>>
    BY <1>1, <1>5, WriterFacts
  <2>2. PICK x \in Msgs : x = Head(proxy[n].pending)
    BY <1>3, <2>1, TailOnce
  <2>3. /\ down' = down \/ down' = [down EXCEPT ![c] = Append(@, x)]
        /\ proxy' = [proxy EXCEPT ![n].pending = Tail(@)]
    BY <1>1, <1>2, <1>5, <2>2 DEF S_WriteDone, Deliver
  <2>4. /\ proxy'[n].pending = Tail(proxy[n].pending)
        /\ \A k \in Names : k # n => proxy'[k] = proxy[k]
    <3> DEFINE p == [proxy[n] EXCEPT !.pending = Tail(@)]
    <3>1. proxy' = [proxy EXCEPT ![n] = p]
      BY <2>3
    <3>2. p.pending = Tail(proxy[n].pending)
      BY <1>3 DEF Proxy
    <3> HIDE DEF p
    <3> QED
      BY <1>3, <3>1, <3>2
  <2>5. /\ down'[c] = down[c] \/ down'[c] = Append(down[c], x)
        /\ \A d \in Conns : d # c => down'[d] = down[d]
    BY <1>3, <2>3
  <2>6. /\ NoMore(Tail(proxy[n].pending), proxy[n].pending, m)
        /\ x = m => /\ Has(proxy[n].pending, m)
                    /\ Lone(proxy[n].pending, m) => ~Has(Tail(proxy[n].pending), m)
    BY <1>3, <2>1, <2>2, TailOnce
  <2>7. /\ Has(Append(down[c], x), m) <=> Has(down[c], m) \/ x = m
        /\ Lone(down[c], m) /\ (x = m => ~Has(down[c], m)) => Lone(Append(down[c], x), m)
        /\ x # m => NoMore(Append(down[c], x), down[c], m)
    BY <1>3, AppendOnce
  <2>8. CASE x # m
    <3>1. \A d \in Conns : NoMore(down'[d], down[d], m)
      BY <2>5, <2>7, <2>8, EmptyOnce
    <3>2. \A k \in Names : NoMore(proxy'[k].pending, proxy[k].pending, m)
      BY <2>4, <2>6, EmptyOnce
    <3> QED
      BY <1>3, <3>1, <3>2, EmptyOnce, NoMoreOnce
  <2>9. CASE x = m
    <3>1. After(m, n) /\ DownOnce(m, n) /\ ~Before(m) /\ m \in sent
      BY <2>6, <2>9 DEF After, Once
    <3>2. /\ \A d \in Conns : Name(d) = n => ~Has(down[d], m) /\ Lone(down[d], m)
          /\ \A k \in Clients : NameOf[k] = n => ~Has(got[k], m) /\ Lone(got[k], m)
          /\ Lone(proxy[n].pending, m)
      BY <2>6, <2>9, <3>1 DEF DownOnce
    <3>3. ~Has(proxy'[n].pending, m) /\ Lone(proxy'[n].pending, m)
      BY <2>4, <2>6, <2>9, <3>2 DEF NoMore
    <3>4. \A d \in Conns : Name(d) = n => Lone(down'[d], m) /\ (Has(down'[d], m) => d = c)
      BY <1>1, <2>5, <2>7, <2>9, <3>2
    <3>5. DownOnce(m, n)'
      BY <1>3, <3>2, <3>3, <3>4 DEF DownOnce
    <3>6. UpOnce(m)' /\ ~Before(m)'
      BY <1>3, <3>1 DEF Once, UpOnce, Before
    <3>7. ASSUME NEW k \in Names, k # n
          PROVE  DownOnce(m, k)'
      <4>1. \A d \in Conns : Name(d) = k => down'[d] = down[d]
        BY <1>1, <2>5, <3>7
      <4>2. proxy'[k] = proxy[k]
        BY <2>4, <3>7
      <4> QED
        BY <1>3, <4>1, <4>2 DEF Once, DownOnce
    <3> QED
      BY <1>3, <3>1, <3>5, <3>6, <3>7 DEF Once
  <2> QED
    BY <2>8, <2>9
<1> QED
  BY <1>4, <1>5 DEF S_WriteDone

\* A login keeps what is pending or drops it with the proxy.
LEMMA LoginOnce ==
    ASSUME IInv, NEW m \in Msgs, NEW c \in Conns, srv[c].step = "LINKED", OnInitNameMessage(c)
    PROVE  \A n \in Names : NoMore(proxy'[n].pending, proxy[n].pending, m)
<1> SUFFICES ASSUME NEW n \in Names
             PROVE  \/ proxy'[n].pending = proxy[n].pending
                    \/ proxy'[n].pending = <<>>
  BY EmptyOnce
<1>1. proxy \in [Names -> Proxy] /\ Name(c) \in Names
  BY ConnFacts DEF IInv, CenterOK
<1>2. \/ proxy' = proxy
      \/ proxy' = [proxy EXCEPT ![Name(c)] = Absent]
      \/ \E p \in Proxy : /\ proxy' = [proxy EXCEPT ![Name(c)] = p]
                          /\ p.pending = <<>> \/ p.pending = proxy[Name(c)].pending
  <2> DEFINE kick == TrustMode /\ IsConnectionAlive(Name(c))
  <2>1. \/ proxy' = proxy
        \/ proxy' = [proxy EXCEPT ![Name(c)] = Absent]
        \/ \E p \in Proxy :
              /\ proxy' = [proxy EXCEPT ![Name(c)] = p]
              /\ p.here /\ p.task = c
              /\ p.pending = IF proxy[Name(c)].here /\ ~kick THEN proxy[Name(c)].pending ELSE <<>>
    BY LoginCases
  <2> QED
    BY <2>1
<1> QED
  BY <1>1, <1>2 DEF Absent

\* Every step keeps a message at one place.
LEMMA OnceKept ==
    ASSUME IInv, TrustMode, OnlyBadQuit, NEW m \in Msgs, Once(m), [Next]_vars
    PROVE  Once(m)'
<1>1. /\ proxy \in [Names -> Proxy] /\ up \in [Conns -> Seq(Msgs \cup {INIT_NAME})]
      /\ down \in [Conns -> Seq(Msgs \cup {INIT_CHECK_FAIL})]
      /\ cqueue \in [Clients -> Seq(Msgs \cup {INIT_NAME})]
      /\ m # INIT_NAME
  BY MsgsAssumption DEF IInv, CenterOK, WaysOK, ClientOK, INIT_NAME
<1>2. CASE \E x \in Msgs : C_Send(x)
  BY <1>2, SendOnce
<1>3. ASSUME NEW cl \in Clients, ClientStep(cl)
      PROVE  Once(m)'
  <2>1. CASE C_Run(cl) \/ C_ConnectFail(cl)
    BY <2>1, EmptyOnce, NoMoreOnce DEF C_Run, C_ConnectFail
  <2>2. CASE C_Connected(cl)
    <3>1. /\ cqueue' = [cqueue EXCEPT ![cl] = PushHead(@, INIT_NAME)]
          /\ UNCHANGED <<sent, got, up, down, proxy>>
          /\ cqueue[cl] \in Seq(Msgs \cup {INIT_NAME}) /\ Len(cqueue[cl]) <= QueueLen
      BY <1>1, <2>2 DEF C_Connected, IInv, ClientOK
    <3>2. \/ PushHead(cqueue[cl], INIT_NAME) = cqueue[cl]
          \/ PushHead(cqueue[cl], INIT_NAME) = <<INIT_NAME>> \o cqueue[cl]
      BY DEF PushHead
    <3>3. NoMore(<<INIT_NAME>> \o cqueue[cl], cqueue[cl], m)
      BY <1>1, <3>1, PushHeadOnce
    <3>4. \A k \in Clients : NoMore(cqueue'[k], cqueue[k], m)
      BY <1>1, <3>1, <3>2, <3>3, EmptyOnce
    <3> QED
      BY <3>1, <3>4, EmptyOnce, NoMoreOnce
  <2>3. CASE C_Error(cl)
    <3>1. \A d \in Conns : down'[d] = down[d] \/ down'[d] = <<>>
      BY <1>1, <2>3 DEF C_Error
    <3>2. UNCHANGED <<sent, cqueue, got, up, proxy>>
      BY <2>3 DEF C_Error
    <3> QED
      BY <3>1, <3>2, EmptyOnce, NoMoreOnce
  <2> QED
    BY <1>3, <2>1, <2>2, <2>3, WriteOnce, ReadOnce DEF ClientStep
<1>4. ASSUME NEW c \in Conns, ServerStep(c)
      PROVE  Once(m)'
  <2>1. CASE S_Accept(c) \/ S_Prepare(c) \/ S_Expire(c)
    <3>1. UNCHANGED <<sent, cqueue, got, up, down, proxy>>
      BY <2>1 DEF S_Accept, S_Prepare, S_Expire, clientVars
    <3> QED
      BY <3>1, EmptyOnce, NoMoreOnce
  <2>2. CASE S_Error(c)
    <3>1. UNCHANGED <<sent, cqueue, got, down, proxy>> /\ up' = [up EXCEPT ![c] = <<>>]
      BY <2>2 DEF S_Error, clientVars
    <3>2. \A d \in Conns : up'[d] = up[d] \/ up'[d] = <<>>
      BY <1>1, <3>1
    <3> QED
      BY <3>1, <3>2, EmptyOnce, NoMoreOnce
  <2>3. CASE S_Destroy(c)
    <3>1. /\ UNCHANGED <<sent, cqueue, got, proxy>> /\ up' = [up EXCEPT ![c] = <<>>]
          /\ ResetUnread({c}) /\ {c} \in SUBSET Conns
      BY <2>3 DEF S_Destroy, clientVars
    <3>2. \A d \in Conns : up'[d] = up[d] \/ up'[d] = <<>>
      BY <1>1, <3>1
    <3>3. \A d \in Conns : down'[d] = <<>> \/ down'[d] = down[d]
      BY <3>1, ResetUnreadFacts
    <3> QED
      BY <3>1, <3>2, <3>3, EmptyOnce, NoMoreOnce
  <2>4. CASE S_Read(c)
    <3>1. /\ up[c] # <<>> /\ up' = [up EXCEPT ![c] = Tail(@)] /\ srv[c].step = "LINKED"
          /\ UNCHANGED <<sent, cqueue, got, down>>
      BY <2>4 DEF S_Read, clientVars
    <3>2. CASE OnInitNameMessage(c) \/ proxy' = proxy
      <4>1. NoMore(Tail(up[c]), up[c], m)
        BY <1>1, <3>1, TailOnce
      <4>2. \A d \in Conns : NoMore(up'[d], up[d], m)
        BY <1>1, <3>1, <4>1, EmptyOnce
      <4>3. \A n \in Names : NoMore(proxy'[n].pending, proxy[n].pending, m)
        BY <3>1, <3>2, LoginOnce, EmptyOnce
      <4> QED
        BY <3>1, <4>2, <4>3, EmptyOnce, NoMoreOnce
    <3>3. CASE Head(up[c]) # INIT_NAME /\ DispatchMessage(Head(up[c]), Name(c))
      BY <3>1, <3>3, DispatchOnce
    <3> QED
      BY <2>4, <3>2, <3>3 DEF S_Read
  <2> QED
    BY <1>4, <2>1, <2>2, <2>3, <2>4, WriteDoneOnce DEF ServerStep
<1>5. ASSUME NEW c \in Conns, Cut(c)
      PROVE  Once(m)'
  <2>1. PICK i \in 0 .. Len(up[c]) : up' = [up EXCEPT ![c] = SubSeq(@, 1, i)]
    BY <1>5 DEF Cut
  <2>2. PICK j \in 0 .. Len(down[c]) : down' = [down EXCEPT ![c] = SubSeq(@, 1, j)]
    BY <1>5 DEF Cut
  <2>3. NoMore(SubSeq(up[c], 1, i), up[c], m) /\ NoMore(SubSeq(down[c], 1, j), down[c], m)
    BY <1>1, PrefixOnce
  <2>4. \A d \in Conns : NoMore(up'[d], up[d], m) /\ NoMore(down'[d], down[d], m)
    BY <1>1, <2>1, <2>2, <2>3, EmptyOnce
  <2>5. UNCHANGED <<sent, cqueue, got, proxy>>
    BY <1>5 DEF Cut, clientVars
  <2> QED
    BY <2>4, <2>5, EmptyOnce, NoMoreOnce
<1>6. CASE AutoKillPeers
  <2>1. UNCHANGED <<sent, cqueue, got, up, down>>
    BY <1>6 DEF AutoKillPeers, clientVars
  <2>2. ASSUME NEW n \in Names
        PROVE  proxy'[n].pending = proxy[n].pending \/ proxy'[n].pending = <<>>
    <3>1. \/ proxy'[n] = Absent
          \/ proxy'[n] = [proxy[n] EXCEPT !.life = @ + 1]
          \/ proxy'[n] = [proxy[n] EXCEPT !.life = 0]
      BY <1>6 DEF AutoKillPeers
    <3>2. proxy[n] \in Proxy
      BY <1>1
    <3> QED
      BY <3>1, <3>2 DEF Absent, Proxy
  <2> QED
    BY <2>1, <2>2, EmptyOnce, NoMoreOnce
<1>7. CASE Restart
  <2>1. UNCHANGED <<sent, cqueue, got>> /\ ResetUnread(Conns) /\ Conns \in SUBSET Conns
    BY <1>7 DEF Restart, clientVars
  <2>2. \A d \in Conns : up'[d] = <<>> /\ (down'[d] = <<>> \/ down'[d] = down[d])
    BY <1>7, <2>1, ResetUnreadFacts DEF Restart
  <2>3. \A n \in Names : proxy'[n].pending = <<>>
    BY <1>7 DEF Restart, Absent
  <2> QED
    BY <2>1, <2>2, <2>3, EmptyOnce, NoMoreOnce
<1>8. CASE UNCHANGED vars
  BY <1>8, EmptyOnce, NoMoreOnce DEF vars, clientVars
<1> QED
  BY <1>2, <1>3, <1>4, <1>5, <1>6, <1>7, <1>8 DEF Next

\* A task is to quit, or is logged in, since a login decided so.
LEMMA OnlyBadQuitKept ==
    ASSUME IInv, TrustMode, OnlyBadQuit, [Next]_vars
    PROVE  OnlyBadQuit'
<1> SUFFICES ASSUME NEW d \in Conns
             PROVE  /\ srv'[d].quit => srv[d].quit \/ d[1] \in BadVersion
                    /\ srv'[d].host /\ d[1] \in BadVersion => srv[d].host
  BY DEF OnlyBadQuit
<1>1. srv \in [Conns -> ServerTask] /\ srv[d] \in ServerTask /\ proxy \in [Names -> Proxy]
  BY DEF IInv, CenterOK
<1>2. /\ NewTask \in ServerTask /\ ~NewTask.quit /\ ~NewTask.host
      /\ [NewTask EXCEPT !.step = "GONE"].quit = FALSE
      /\ [NewTask EXCEPT !.step = "GONE"].host = FALSE
  BY DEF NewTask, ServerTask
<1>3. CASE srv' = srv
  BY <1>3
<1>4. ASSUME NEW c \in Conns, NEW r \in ServerTask, srv' = [srv EXCEPT ![c] = r],
             r.quit => srv[c].quit \/ c[1] \in BadVersion,
             r.host /\ c[1] \in BadVersion => srv[c].host
      PROVE  /\ srv'[d].quit => srv[d].quit \/ d[1] \in BadVersion
             /\ srv'[d].host /\ d[1] \in BadVersion => srv[d].host
  BY <1>1, <1>4
<1>5. ASSUME NEW cl \in Clients, C_Connected(cl)
      PROVE  \A c \in Conns : srv'[c].quit = srv[c].quit /\ srv'[c].host = srv[c].host
  <2> DEFINE c == <<cl, nconn[cl] + 1>>
             r == [srv[c] EXCEPT !.step = "BACKLOG"]
  <2>1. c \in Conns
    <3>1. nconn[cl] \in Nat /\ nconn[cl] < MaxConn[cl] /\ MaxConn[cl] \in Nat
      BY <1>5, MaxConnAssumption DEF C_Connected, IInv, ClientOK
    <3>2. nconn[cl] + 1 \in Nat /\ 0 < nconn[cl] + 1 /\ nconn[cl] + 1 <= MaxConn[cl]
      BY <3>1
    <3> QED
      BY <3>2, ConnFacts
  <2>2. srv' = [srv EXCEPT ![c] = r] /\ srv[c] \in ServerTask
    BY <1>1, <1>5, <2>1 DEF C_Connected
  <2>3. r.quit = srv[c].quit /\ r.host = srv[c].host
    BY <2>2 DEF ServerTask
  <2> HIDE DEF r, c
  <2> QED
    BY <1>1, <2>1, <2>2, <2>3
<1>6. CASE \E cl \in Clients : ClientStep(cl)
  <2>1. PICK cl \in Clients : ClientStep(cl)
    BY <1>6
  <2>2. CASE C_Connected(cl)
    BY <1>5, <2>2
  <2>3. CASE C_Run(cl) \/ C_ConnectFail(cl) \/ C_Write(cl) \/ C_Read(cl) \/ C_Error(cl)
    BY <2>3 DEF C_Run, C_ConnectFail, C_Write, C_Read, C_Error
  <2> QED
    BY <2>1, <2>2, <2>3 DEF ClientStep
<1>7. ASSUME NEW c \in Conns, OnInitNameMessage(c)
      PROVE  /\ srv'[d].quit => srv[d].quit \/ d[1] \in BadVersion
             /\ srv'[d].host /\ d[1] \in BadVersion => srv[d].host
  <2> DEFINE n == Name(c)
             kick == TrustMode /\ IsConnectionAlive(n)
             base == IF kick THEN Orphaned(n) ELSE srv
             q == [base[c] EXCEPT !.quit = TRUE]
             h == [base[c] EXCEPT !.host = TRUE]
  <2>1. n \in Names
    BY ConnFacts
  <2>2. \/ c[1] \in BadVersion /\ srv' = [base EXCEPT ![c] = q]
        \/ c[1] \notin BadVersion /\ srv' = [base EXCEPT ![c] = h]
    BY <1>7 DEF OnInitNameMessage
  <2>3. /\ base \in [Conns -> ServerTask]
        /\ base[d].quit = srv[d].quit
        /\ base[d].host => srv[d].host
    BY <1>1, <2>1, OrphanedFacts
  <2>4. base[c] \in ServerTask
    BY <2>3
  <2> HIDE DEF base
  <2>5. q.host = base[c].host /\ h.quit = base[c].quit
    BY <2>4 DEF ServerTask
  <2> HIDE DEF q, h
  <2> QED
    BY <2>2, <2>3, <2>5
<1>8. ASSUME NEW c \in Conns, ServerStep(c)
      PROVE  /\ srv'[d].quit => srv[d].quit \/ d[1] \in BadVersion
             /\ srv'[d].host /\ d[1] \in BadVersion => srv[d].host
  <2>1. CASE OnInitNameMessage(c)
    BY <1>7, <2>1
  <2>2. CASE S_Destroy(c)
    BY <1>1, <1>2, <2>2 DEF S_Destroy
  <2>3. CASE \/ \E s \in {"LINKED", "LINGER", "QUIT"} : srv' = [srv EXCEPT ![c].step = s]
             \/ \E x \in {"NO", "MSG", "FAIL"} : srv' = [srv EXCEPT ![c].writing = x]
             \/ \E s \in {"LINGER", "QUIT"} : srv' = [srv EXCEPT ![c].step = s, ![c].writing = "NO"]
    <3>1. PICK r : /\ srv' = [srv EXCEPT ![c] = r]
                   /\ \/ \E s \in {"LINKED", "LINGER", "QUIT"} : r = [srv[c] EXCEPT !.step = s]
                      \/ \E x \in {"NO", "MSG", "FAIL"} : r = [srv[c] EXCEPT !.writing = x]
                      \/ \E s \in {"LINGER", "QUIT"} :
                            r = [srv[c] EXCEPT !.step = s, !.writing = "NO"]
      BY <2>3
    <3>2. srv[c] \in ServerTask
      BY <1>1
    <3>3. r.quit = srv[c].quit /\ r.host = srv[c].host
      BY <3>1, <3>2 DEF ServerTask
    <3> QED
      BY <1>1, <3>1, <3>3
  <2>4. \/ OnInitNameMessage(c) \/ S_Destroy(c) \/ srv' = srv
        \/ \E s \in {"LINKED", "LINGER", "QUIT"} : srv' = [srv EXCEPT ![c].step = s]
        \/ \E x \in {"NO", "MSG", "FAIL"} : srv' = [srv EXCEPT ![c].writing = x]
        \/ \E s \in {"LINGER", "QUIT"} : srv' = [srv EXCEPT ![c].step = s, ![c].writing = "NO"]
    <3>1. CASE S_Read(c)
      BY <3>1 DEF S_Read
    <3>2. CASE S_WriteDone(c)
      BY <3>2 DEF S_WriteDone
    <3>3. CASE S_Accept(c) \/ S_Prepare(c) \/ S_Error(c) \/ S_Expire(c)
      BY <3>3 DEF S_Accept, S_Prepare, S_Error, S_Expire
    <3> QED
      BY <1>8, <3>1, <3>2, <3>3 DEF ServerStep
  <2> QED
    BY <1>3, <2>1, <2>2, <2>3, <2>4
<1>9. CASE AutoKillPeers
  <2>1. PICK K : srv' = [c \in Conns |-> [srv[c] EXCEPT !.host = @ /\ Name(c) \notin K]]
    BY <1>9 DEF AutoKillPeers
  <2>2. srv'[d] = [srv[d] EXCEPT !.host = @ /\ Name(d) \notin K]
    BY <2>1
  <2>3. PICK b : srv'[d] = [srv[d] EXCEPT !.host = b] /\ (b => srv[d].host)
    BY <2>2, Zenon
  <2> QED
    BY <1>1, <2>3 DEF ServerTask
<1>10. CASE Restart
  BY <1>1, <1>2, <1>10 DEF Restart
<1>11. CASE \/ \E m \in Msgs : C_Send(m)
            \/ \E c \in Conns : Cut(c)
            \/ UNCHANGED vars
  BY <1>3, <1>11 DEF C_Send, Cut, vars
<1> QED
  BY <1>6, <1>8, <1>9, <1>10, <1>11 DEF Next

\* What a copy is.
LEMMA CopiesAre ==
    ASSUME NEW where, NEW who, NEW q, NEW m, NEW x \in Copies(where, who, q, m)
    PROVE  \E i \in 1 .. Len(q) : x = <<where, who, i>> /\ q[i] = m
  BY DEF Copies, At

\* The copies are one if each queue has one and no two queues have.
LEMMA OnceMeansOne ==
    ASSUME \A m \in Msgs : Once(m)
    PROVE  AtMostOnce
<1> SUFFICES ASSUME NEW m \in Msgs
             PROVE  /\ \A x, y \in Upstream(m) : x = y
                    /\ \A n \in Names :
                        /\ \A x, y \in Downstream(m, n) : x = y
                        /\ Upstream(m) = {} \/ Downstream(m, n) = {}
  BY DEF AtMostOnce
<1>1. ASSUME NEW x \in Upstream(m)
      PROVE  \/ \E cl \in Clients : \E i \in 1 .. Len(cqueue[cl]) :
                   x = <<"queue", cl, i>> /\ cqueue[cl][i] = m
             \/ \E c \in Conns : \E i \in 1 .. Len(up[c]) : x = <<"up", c, i>> /\ up[c][i] = m
  <2>1. \/ \E cl \in Clients : x \in Copies("queue", cl, cqueue[cl], m)
        \/ \E c \in Conns : x \in Copies("up", c, up[c], m)
    <3>1. x \in Queued(m) => \E cl \in Clients : x \in Copies("queue", cl, cqueue[cl], m)
      BY DEF Queued
    <3>2. x \in OnWayUp(m) => \E c \in Conns : x \in Copies("up", c, up[c], m)
      BY DEF OnWayUp
    <3> QED
      BY <3>1, <3>2 DEF Upstream
  <2>2. ASSUME NEW cl \in Clients, x \in Copies("queue", cl, cqueue[cl], m)
        PROVE  \E i \in 1 .. Len(cqueue[cl]) : x = <<"queue", cl, i>> /\ cqueue[cl][i] = m
    BY <2>2, CopiesAre
  <2>3. ASSUME NEW c \in Conns, x \in Copies("up", c, up[c], m)
        PROVE  \E i \in 1 .. Len(up[c]) : x = <<"up", c, i>> /\ up[c][i] = m
    BY <2>3, CopiesAre
  <2> QED
    BY <2>1, <2>2, <2>3
<1>2. ASSUME NEW x \in Upstream(m), NEW y \in Upstream(m)
      PROVE  x = y
  <2>1. UpOnce(m)
    BY DEF Once
  <2> QED
    BY <1>1, <2>1 DEF UpOnce, Has, Lone
<1>3. Upstream(m) # {} => Before(m)
  BY <1>1 DEF Before, Has
<1>4. ASSUME NEW n \in Names
      PROVE  /\ \A x, y \in Downstream(m, n) : x = y
             /\ Upstream(m) = {} \/ Downstream(m, n) = {}
  <2>1. ASSUME NEW x \in Downstream(m, n)
        PROVE  \/ \E i \in 1 .. Len(proxy[n].pending) :
                     x = <<"pending", n, i>> /\ proxy[n].pending[i] = m
               \/ \E c \in Conns :
                     /\ Name(c) = n
                     /\ \E i \in 1 .. Len(down[c]) : x = <<"down", c, i>> /\ down[c][i] = m
               \/ \E cl \in Clients :
                     /\ NameOf[cl] = n
                     /\ \E i \in 1 .. Len(got[cl]) : x = <<"got", cl, i>> /\ got[cl][i] = m
    <3>1. \/ x \in Copies("pending", n, proxy[n].pending, m)
          \/ \E c \in Conns : Name(c) = n /\ x \in Copies("down", c, down[c], m)
          \/ \E cl \in Clients : NameOf[cl] = n /\ x \in Copies("got", cl, got[cl], m)
      <4>1. x \in OnWayDown(m, n) =>
              \E c \in Conns : Name(c) = n /\ x \in Copies("down", c, down[c], m)
        BY DEF OnWayDown
      <4>2. x \in Received(m, n) =>
              \E cl \in Clients : NameOf[cl] = n /\ x \in Copies("got", cl, got[cl], m)
        BY DEF Received
      <4> QED
        BY <4>1, <4>2 DEF Downstream, Pending
    <3>2. ASSUME x \in Copies("pending", n, proxy[n].pending, m)
          PROVE  \E i \in 1 .. Len(proxy[n].pending) :
                    x = <<"pending", n, i>> /\ proxy[n].pending[i] = m
      BY <3>2, CopiesAre
    <3>3. ASSUME NEW c \in Conns, x \in Copies("down", c, down[c], m)
          PROVE  \E i \in 1 .. Len(down[c]) : x = <<"down", c, i>> /\ down[c][i] = m
      BY <3>3, CopiesAre
    <3>4. ASSUME NEW cl \in Clients, x \in Copies("got", cl, got[cl], m)
          PROVE  \E i \in 1 .. Len(got[cl]) : x = <<"got", cl, i>> /\ got[cl][i] = m
      BY <3>4, CopiesAre
    <3> QED
      BY <3>1, <3>2, <3>3, <3>4
  <2>2. DownOnce(m, n) /\ ~(Before(m) /\ After(m, n))
    BY DEF Once
  <2>3. ASSUME NEW x \in Downstream(m, n), NEW y \in Downstream(m, n)
        PROVE  x = y
    <3>1. CASE \E i \in 1 .. Len(proxy[n].pending) :
                  x = <<"pending", n, i>> /\ proxy[n].pending[i] = m
      BY <2>1, <2>2, <3>1 DEF DownOnce, Has, Lone
    <3>2. CASE \E c \in Conns :
                  /\ Name(c) = n
                  /\ \E i \in 1 .. Len(down[c]) : x = <<"down", c, i>> /\ down[c][i] = m
      BY <2>1, <2>2, <3>2 DEF DownOnce, Has, Lone
    <3>3. CASE \E cl \in Clients :
                  /\ NameOf[cl] = n
                  /\ \E i \in 1 .. Len(got[cl]) : x = <<"got", cl, i>> /\ got[cl][i] = m
      BY <2>1, <2>2, <3>3 DEF DownOnce, Has, Lone
    <3> QED
      BY <2>1, <3>1, <3>2, <3>3
  <2>4. Downstream(m, n) # {} => After(m, n)
    BY <2>1 DEF After, Has
  <2> QED
    BY <1>3, <2>2, <2>3, <2>4
<1> QED
  BY <1>2, <1>4

\* In trust mode no message is duplicated, by whatever reconnects, kicks and
\* restarts.  (Without trust a refusal may cut in on a message that is being
\* written, see S_WriteDone.)
THEOREM MessagesAreSingle == TrustMode => (Spec => []AtMostOnce)
<1> SUFFICES ASSUME TrustMode
             PROVE  Spec => []AtMostOnce
  OBVIOUS
<1> DEFINE Single == OnlyBadQuit /\ \A m \in Msgs : Once(m)
<1>1. Init => Single
  <2> SUFFICES ASSUME Init
               PROVE  Single
    OBVIOUS
  <2>1. OnlyBadQuit
    BY DEF Init, OnlyBadQuit, NewTask
  <2>2. ASSUME NEW m \in Msgs
        PROVE  Once(m)
    <3>1. /\ \A cl \in Clients : cqueue[cl] = <<>> /\ got[cl] = <<>>
          /\ \A c \in Conns : up[c] = <<>> /\ down[c] = <<>>
          /\ \A n \in Names : proxy[n].pending = <<>>
      BY DEF Init, Absent
    <3>2. UpOnce(m) /\ ~Before(m)
      BY <3>1, EmptyOnce DEF UpOnce, Before
    <3>3. \A n \in Names : DownOnce(m, n) /\ ~After(m, n)
      BY <3>1, EmptyOnce DEF DownOnce, After
    <3> QED
      BY <3>2, <3>3 DEF Once
  <2> QED
    BY <2>1, <2>2
<1>2. IInv /\ Single /\ [Next]_vars => Single'
  BY OnceKept, OnlyBadQuitKept
<1>3. Single => AtMostOnce
  BY OnceMeansOne
<1> QED
  BY <1>1, <1>2, <1>3, Invariance, PTL DEF Spec

=============================================================================
