------------------------------ MODULE PeerBus ------------------------------
(***************************************************************************)
(* The message bus of messagepeer/: clients (CMessagePeer with its          *)
(* CTaskPeerClient) connected by TCP to one message center (CPeerGlobals,   *)
(* one CTaskPeerServer per connection and one CPeerProxy per peer name).    *)
(*                                                                         *)
(* A client that has to reconnect does so for ever.  Its first package on a *)
(* connection is INIT_NAME, which attaches the connection to the proxy of   *)
(* its name; packages for a name wait in the proxy's pending queue while no *)
(* connection of that name is attached.                                     *)
(*                                                                         *)
(* A connection is <<client, i>>, the i-th one the client made, and also    *)
(* stands for the server task that handles it.  A package is in up or down  *)
(* once the writer has handed all of it to the socket: a reader never gets  *)
(* one that was written in part.  The one-second pause of Retry, the        *)
(* heartbeats and the 90 s timeout are abstracted to "the error may be      *)
(* noticed at any time after the connection breaks".                        *)
(***************************************************************************)
EXTENDS Integers, Sequences, FiniteSets, SequencesExt

CONSTANTS
    Clients,      \* the client processes
    Names,        \* peer names
    NameOf,       \* the name of each client; several may claim the same one
    BadVersion,   \* clients whose MessagePeerInitParam_t the center refuses
    Links,        \* the names each client has called Connect() with
    Msgs,         \* messages, numbered in the order their sender sends them
    Sender,       \* the client that sends a message
    To,           \* the name it is for, or Everyone
    Everyone,     \* the empty name: a broadcast
    NoTask,       \* task id 0
    TrustMode,    \* CPeerGlobals::mTrustMode
    QueueLen,     \* MESSAGE_PEER_SENDING_QUEUE_LEN
    MaxLife,      \* ticks of the killer an inactive proxy survives
    MaxConn,      \* bound: connections each client makes
    MaxCuts,      \* bound: connections the network breaks
    MaxRestarts   \* bound: restarts of the message center

ASSUME NameOfAssumption == NameOf \in [Clients -> Names]
ASSUME LinksAssumption == Links \in [Clients -> SUBSET Names]
ASSUME BadVersionAssumption == BadVersion \subseteq Clients
ASSUME MsgsAssumption == Msgs \subseteq Nat \ {0}
ASSUME SenderAssumption == Sender \in [Msgs -> Clients]
ASSUME ToAssumption == To \in [Msgs -> Names \cup {Everyone}]
ASSUME EveryoneAssumption == Everyone \notin Names
ASSUME TrustModeAssumption == TrustMode \in BOOLEAN
ASSUME QueueLenAssumption == QueueLen \in Nat \ {0}
ASSUME MaxLifeAssumption == MaxLife \in Nat \ {0}
ASSUME MaxConnAssumption == MaxConn \in [Clients -> Nat]
ASSUME MaxRestartsAssumption == MaxRestarts \in Nat

Conns == UNION {{cl} \X (1 .. MaxConn[cl]) : cl \in Clients}
ASSUME NoTaskAssumption == NoTask \notin Conns

INIT_NAME == 0           \* the functions of packages that are not messages
INIT_CHECK_FAIL == -1

VARIABLES
    cstep,      \* CTaskPeerClient::mStep, or what it is waiting for
    nconn,      \* how many connections each client has made
    cqueue,     \* CMessagePeer::mSendingQueue
    sent,       \* messages the applications have sent
    got,        \* what each client has given to its application
    up, down,   \* packages on their way to the center, and from it
    broken,     \* connections the network has broken
    srv,        \* the CTaskPeerServer of each connection
    proxy,      \* the CPeerProxy of each name
    restarts    \* how often the center was restarted

clientVars == <<cstep, nconn, cqueue, sent, got>>
vars == <<clientVars, up, down, broken, srv, proxy, restarts>>

\* A server task: host is "iHostProxy is valid", writing is the package in
\* mWriter, quit is quit_after_send.  LINGER is STEP_RETRY after a socket
\* error; a task in QUIT is dead but not destroyed yet.
ServerTask == [step : {"NONE", "BACKLOG", "LINKED", "LINGER", "QUIT", "GONE"},
               host : BOOLEAN,
               writing : {"NO", "MSG", "FAIL"},
               quit : BOOLEAN]

\* A proxy: ctx is "_peer_global_context_ is set"; here is FALSE when the
\* CPeerProxyManager has no proxy of the name.
Proxy == [here : BOOLEAN, task : Conns \cup {NoTask}, pending : Seq(Msgs),
          life : 0 .. MaxLife, names : SUBSET Names, ctx : BOOLEAN]

NewTask == [step |-> "NONE", host |-> FALSE, writing |-> "NO", quit |-> FALSE]
Absent == [here |-> FALSE, task |-> NoTask, pending |-> <<>>, life |-> 0,
           names |-> {}, ctx |-> FALSE]

Name(c) == NameOf[c[1]]
Current(cl) == <<cl, nconn[cl]>>

\* The client still has this connection's socket.
Holds(c) == cstep[c[1]] = "LINKED" /\ c = Current(c[1])

\* CTaskMgr::IsTask: the task exists and is not dead.
TaskIn(s, t) == t # NoTask /\ s[t].step \in {"LINKED", "LINGER"}
IsTask(t) == TaskIn(srv, t)
IsConnectionAlive(n) == proxy[n].here /\ IsTask(proxy[n].task)

Init ==
    /\ cstep = [cl \in Clients |-> "RETRY"]
    /\ nconn = [cl \in Clients |-> 0]
    /\ cqueue = [cl \in Clients |-> <<>>]
    /\ sent = {}
    /\ got = [cl \in Clients |-> <<>>]
    /\ up = [c \in Conns |-> <<>>]
    /\ down = [c \in Conns |-> <<>>]
    /\ broken = {}
    /\ srv = [c \in Conns |-> NewTask]
    /\ proxy = [n \in Names |-> Absent]
    /\ restarts = 0

----------------------------------------------------------------------------
\* The client.

\* Mutant: the head insertion forgets the limit.
PushHeadUnbounded(q, m) == <<m>> \o q

\* CPeerMessageStk::PushPtr and InsertElemPtr refuse when the queue is full;
\* no caller in the bus looks at the result.
Push(q, m) == IF Len(q) < QueueLen THEN Append(q, m) ELSE q
PushHead(q, m) == IF Len(q) < QueueLen THEN <<m>> \o q ELSE q

\* CMessagePeer::SendMessage.
C_Send(m) ==
    /\ m \notin sent
    /\ \A k \in Msgs : Sender[k] = Sender[m] /\ k < m => k \in sent
    /\ sent' = sent \cup {m}
    /\ cqueue' = IF cstep[Sender[m]] = "STOPPED" THEN cqueue
                 ELSE [cqueue EXCEPT ![Sender[m]] = Push(@, m)]
    /\ UNCHANGED <<cstep, nconn, got, up, down, broken, srv, proxy, restarts>>

\* STEP_RETRY of CTaskLinkRpc::Run: OnGetSocket starts a connector.  The
\* default mMaxRetries of a client is -1, for ever.
C_Run(cl) ==
    /\ cstep[cl] = "RETRY"
    /\ cstep' = [cstep EXCEPT ![cl] = "GET_SOCKET"]
    /\ UNCHANGED <<nconn, cqueue, sent, got, up, down, broken, srv, proxy,
                   restarts>>

\* The connector gives up (EVENT_STOP with an error): Retry.
C_ConnectFail(cl) ==
    /\ cstep[cl] = "GET_SOCKET"
    /\ cstep' = [cstep EXCEPT ![cl] = "RETRY"]
    /\ UNCHANGED <<nconn, cqueue, sent, got, up, down, broken, srv, proxy,
                   restarts>>

\* EVENT_CONNECTED: the client has a socket, the center has a connection to
\* accept, and INIT_NAME goes to the head of the sending queue.
C_Connected(cl) ==
    /\ cstep[cl] = "GET_SOCKET"
    /\ nconn[cl] < MaxConn[cl]
    /\ nconn' = [nconn EXCEPT ![cl] = @ + 1]
    /\ cstep' = [cstep EXCEPT ![cl] = "LINKED"]
    /\ cqueue' = [cqueue EXCEPT ![cl] = PushHead(@, INIT_NAME)]
    /\ srv' = [srv EXCEPT ![<<cl, nconn[cl] + 1>>].step = "BACKLOG"]
    /\ UNCHANGED <<sent, got, up, down, broken, proxy, restarts>>

\* Mutant: a package stays queued until the center has accepted the connection.
C_WriteAgain(cl) ==
    /\ cstep[cl] = "LINKED"
    /\ cqueue[cl] # <<>>
    /\ LET c == Current(cl) IN
        /\ cqueue' = IF srv[c].step = "BACKLOG" THEN cqueue
                     ELSE [cqueue EXCEPT ![cl] = Tail(@)]
        /\ Len(up[c]) < QueueLen + 1
        /\ up' = IF c \notin broken /\ srv[c].step \in {"BACKLOG", "LINKED"}
                 THEN [up EXCEPT ![c] = Append(@, Head(cqueue[cl]))]
                 ELSE up
    /\ UNCHANGED <<cstep, nconn, sent, got, down, broken, srv, proxy, restarts>>

\* The client's writer: OnPreparePackageToSend takes the head of the queue,
\* OnPackageSendOk deletes it when all of it is written.  Nothing but the
\* end of the connection can come between that matters to the client.
C_Write(cl) ==
    /\ cstep[cl] = "LINKED"
    /\ cqueue[cl] # <<>>
    /\ cqueue' = [cqueue EXCEPT ![cl] = Tail(@)]
    /\ LET c == Current(cl) IN
       up' = IF c \notin broken /\ srv[c].step \in {"BACKLOG", "LINKED"}
             THEN [up EXCEPT ![c] = Append(@, Head(cqueue[cl]))]
             ELSE up
    /\ UNCHANGED <<cstep, nconn, sent, got, down, broken, srv, proxy, restarts>>

\* Mutant: the client reconnects after INIT_CHECK_FAIL.
C_ReadRetrying(cl) ==
    /\ cstep[cl] = "LINKED"
    /\ LET c == Current(cl) IN
        /\ down[c] # <<>>
        /\ IF Head(down[c]) = INIT_CHECK_FAIL
           THEN /\ cstep' = [cstep EXCEPT ![cl] = "RETRY"]
                /\ UNCHANGED got
           ELSE /\ got' = [got EXCEPT ![cl] = Append(@, Head(down[c]))]
                /\ UNCHANGED cstep
        /\ down' = [down EXCEPT ![c] = Tail(@)]
    /\ UNCHANGED <<nconn, cqueue, sent, up, broken, srv, proxy, restarts>>

\* OnGotPackageData: INIT_CHECK_FAIL stops the client for good, any other
\* package is a message for the application.
C_Read(cl) ==
    /\ cstep[cl] = "LINKED"
    /\ LET c == Current(cl) IN
        /\ down[c] # <<>>
        /\ IF Head(down[c]) = INIT_CHECK_FAIL
           THEN /\ cstep' = [cstep EXCEPT ![cl] = "STOPPED"]
                /\ cqueue' = [cqueue EXCEPT ![cl] = <<>>]
                /\ down' = [down EXCEPT ![c] = <<>>]
                /\ UNCHANGED got
           ELSE /\ got' = [got EXCEPT ![cl] = Append(@, Head(down[c]))]
                /\ down' = [down EXCEPT ![c] = Tail(@)]
                /\ UNCHANGED <<cstep, cqueue>>
    /\ UNCHANGED <<nconn, sent, up, broken, srv, proxy, restarts>>

\* The client's reader or writer meets the end of the connection, after all
\* that has arrived when the center closed it: Retry closes the socket.
C_Error(cl) ==
    /\ cstep[cl] = "LINKED"
    /\ \/ Current(cl) \in broken
       \/ /\ srv[Current(cl)].step \in {"LINGER", "GONE"}
          /\ down[Current(cl)] = <<>>
    /\ cstep' = [cstep EXCEPT ![cl] = "RETRY"]
    /\ down' = [down EXCEPT ![Current(cl)] = <<>>]
    /\ UNCHANGED <<nconn, cqueue, sent, got, up, broken, srv, proxy, restarts>>

----------------------------------------------------------------------------
\* The network breaks a connection: of the packages on their way, a prefix
\* remains on each side.  The last connection the bound allows is spared.
Cut(c) ==
    /\ Holds(c) /\ c[2] < MaxConn[c[1]]
    /\ c \notin broken
    /\ Cardinality(broken) < MaxCuts
    /\ broken' = broken \cup {c}
    /\ \E i \in 0 .. Len(up[c]) : up' = [up EXCEPT ![c] = SubSeq(@, 1, i)]
    /\ \E i \in 0 .. Len(down[c]) : down' = [down EXCEPT ![c] = SubSeq(@, 1, i)]
    /\ UNCHANGED <<clientVars, srv, proxy, restarts>>

----------------------------------------------------------------------------
\* The message center: what a server task does to the proxies.

\* Mutant: a deleted proxy leaves its server task alone.
OrphanedRunning(n) == srv

\* Deleting the proxy of n: every iHostProxy that refers to it becomes
\* invalid (WEAK_REF_DESTROY) and its server task, if it has one, is quit.
Orphaned(n) ==
    [c \in Conns |->
        IF Name(c) # n THEN srv[c]
        ELSE IF c = proxy[n].task /\ IsTask(c)
             THEN [srv[c] EXCEPT !.host = FALSE, !.step = "QUIT", !.writing = "NO"]
             ELSE [srv[c] EXCEPT !.host = FALSE]]

\* Mutants: a login takes the name from a live connection, forgets what is
\* pending, or never deletes the old proxy.
OnInitNameTakingOver(c) ==
    LET n == Name(c)
        refuse == c[1] \in BadVersion
    IN IF refuse
       THEN srv' = [srv EXCEPT ![c].quit = TRUE] /\ UNCHANGED proxy
       ELSE /\ srv' = [srv EXCEPT ![c].host = TRUE]
            /\ proxy' = [proxy EXCEPT ![n] =
                            [@ EXCEPT !.here = TRUE, !.task = c, !.life = 0,
                                      !.names = Links[c[1]]]]

OnInitNameForgetful(c) ==
    LET n == Name(c)
        kick == TrustMode /\ IsConnectionAlive(n)
        refuse == c[1] \in BadVersion \/ (~kick /\ IsConnectionAlive(n))
        base == IF kick THEN Orphaned(n) ELSE srv
    IN IF refuse
       THEN /\ srv' = [base EXCEPT ![c].quit = TRUE]
            /\ proxy' = IF kick THEN [proxy EXCEPT ![n] = Absent] ELSE proxy
       ELSE /\ srv' = [base EXCEPT ![c].host = TRUE]
            /\ proxy' = [proxy EXCEPT ![n] =
                            [here |-> TRUE, task |-> c, life |-> 0, ctx |-> TRUE,
                             names |-> Links[c[1]], pending |-> <<>>]]

OnInitNameRefusing(c) ==
    LET n == Name(c)
    IN IF c[1] \in BadVersion \/ IsConnectionAlive(n)
       THEN srv' = [srv EXCEPT ![c].quit = TRUE] /\ UNCHANGED proxy
       ELSE /\ srv' = [srv EXCEPT ![c].host = TRUE]
            /\ proxy' = [proxy EXCEPT ![n] =
                            [@ EXCEPT !.here = TRUE, !.task = c, !.life = 0,
                                      !.names = Links[c[1]], !.ctx = TRUE]]

\* OnInitNameMessage on task c.  In trust mode a proxy whose task is alive is
\* deleted first, whatever becomes of the new connection; then a connection
\* of the wrong version is refused.  A name with a live connection refuses
\* another one, a name without one is re-activated with what is pending, and
\* an unknown name gets a new proxy.
OnInitNameMessage(c) ==
    LET n == Name(c)
        kick == TrustMode /\ IsConnectionAlive(n)
        known == proxy[n].here /\ ~kick
        refuse == c[1] \in BadVersion \/ (known /\ IsConnectionAlive(n))
        base == IF kick THEN Orphaned(n) ELSE srv
    IN IF refuse
       THEN /\ srv' = [base EXCEPT ![c].quit = TRUE]
            /\ proxy' = IF kick THEN [proxy EXCEPT ![n] = Absent] ELSE proxy
       ELSE /\ srv' = [base EXCEPT ![c].host = TRUE]
            /\ proxy' = [proxy EXCEPT ![n] =
                            [here |-> TRUE, task |-> c, life |-> 0,
                             names |-> Links[c[1]],
                             pending |-> IF known THEN @.pending ELSE <<>>,
                             ctx |-> IF known THEN @.ctx ELSE TRUE]]

\* Who gets a message of peer n: for a broadcast, the peers n has connected
\* to and those that have connected to n, each once.
Receivers(m, n) ==
    IF To[m] # Everyone THEN {To[m]}
    ELSE {r \in Names : /\ proxy[r].here
                        /\ \/ r \in proxy[n].names
                           \/ r # n /\ n \in proxy[r].names}

\* CPeerGlobals::DispatchMessage.  A name nobody has gets a proxy without a
\* task and without the global context (NewPendingPeerProxy); a full pending
\* queue refuses the message.
DispatchMessage(m, n) ==
    proxy' = [r \in Names |->
                IF r \notin Receivers(m, n) THEN proxy[r]
                ELSE [proxy[r] EXCEPT !.here = TRUE, !.pending = Push(@, m)]]

----------------------------------------------------------------------------
\* The server task.

\* Start with STEP_RETRY and the first Run(): reader and writer exist.
S_Accept(c) ==
    /\ srv[c].step = "BACKLOG"
    /\ srv' = [srv EXCEPT ![c].step = "LINKED"]
    /\ UNCHANGED <<clientVars, up, down, broken, proxy, restarts>>

\* OnGotPackageData.  A package before the task has a proxy stops the task
\* (ERROR_NO_FIRST_MESSAGE).
S_Read(c) ==
    /\ srv[c].step = "LINKED"
    /\ ~srv[c].quit                         \* CanReadNextPackage
    /\ up[c] # <<>>
    /\ up' = [up EXCEPT ![c] = Tail(@)]
    /\ \/ /\ Head(up[c]) = INIT_NAME
          /\ OnInitNameMessage(c)
       \/ /\ Head(up[c]) # INIT_NAME
          /\ ~srv[c].host
          /\ srv' = [srv EXCEPT ![c].step = "QUIT", ![c].writing = "NO"]
          /\ UNCHANGED proxy
       \/ /\ Head(up[c]) # INIT_NAME
          /\ srv[c].host
          /\ DispatchMessage(Head(up[c]), Name(c))
          /\ UNCHANGED srv
    /\ UNCHANGED <<clientVars, down, broken, restarts>>

\* OnPreparePackageToSend: the refusal, or the first pending message.
S_Prepare(c) ==
    /\ srv[c].step = "LINKED"
    /\ srv[c].writing = "NO"
    /\ \/ /\ srv[c].quit
          /\ srv' = [srv EXCEPT ![c].writing = "FAIL"]
       \/ /\ ~srv[c].quit
          /\ srv[c].host
          /\ proxy[Name(c)].pending # <<>>
          /\ srv' = [srv EXCEPT ![c].writing = "MSG"]
    /\ UNCHANGED <<clientVars, up, down, broken, proxy, restarts>>

\* All of a package is written and the client may read it.
Deliver(c, x) ==
    down' = IF Holds(c) /\ c \notin broken THEN [down EXCEPT ![c] = Append(@, x)]
            ELSE down

\* OnPackageSendOk: a task that is to quit stops, else the message written is
\* deleted.  A refusal that came while a message was being written overwrites
\* its header (mSendHeadBuf): what the client reads is then the message or
\* nothing it understands.
S_WriteDone(c) ==
    /\ srv[c].step = "LINKED"
    /\ \/ /\ srv[c].writing = "FAIL"
          /\ Deliver(c, INIT_CHECK_FAIL)
          /\ srv' = [srv EXCEPT ![c].step = "QUIT", ![c].writing = "NO"]
          /\ UNCHANGED proxy
       \/ /\ srv[c].writing = "MSG"
          /\ srv[c].quit
          /\ Deliver(c, Head(proxy[Name(c)].pending)) \/ UNCHANGED down
          /\ srv' = [srv EXCEPT ![c].step = "QUIT", ![c].writing = "NO"]
          /\ UNCHANGED proxy
       \/ /\ srv[c].writing = "MSG"
          /\ ~srv[c].quit
          /\ Deliver(c, Head(proxy[Name(c)].pending))
          /\ srv' = [srv EXCEPT ![c].writing = "NO"]
          /\ proxy' = [proxy EXCEPT ![Name(c)].pending = Tail(@)]
    /\ UNCHANGED <<clientVars, up, broken, restarts>>

\* A socket error on the center's side: Retry closes the socket, and the task
\* sleeps for a second before it finds that it may not retry.
S_Error(c) ==
    /\ srv[c].step = "LINKED"
    /\ c \in broken \/ ~Holds(c)
    /\ srv' = [srv EXCEPT ![c].step = "LINGER", ![c].writing = "NO"]
    /\ up' = [up EXCEPT ![c] = <<>>]
    /\ UNCHANGED <<clientVars, down, broken, proxy, restarts>>

\* Mutant: the server task retries for ever, as a client does.
S_ExpireRetrying(c) ==
    /\ srv[c].step = "LINGER"
    /\ srv' = [srv EXCEPT ![c].step = "LINKED"]
    /\ UNCHANGED <<clientVars, up, down, broken, proxy, restarts>>

\* mRetries exceeds mMaxRetries, which is 1: Stop.
S_Expire(c) ==
    /\ srv[c].step = "LINGER"
    /\ srv' = [srv EXCEPT ![c].step = "QUIT"]
    /\ UNCHANGED <<clientVars, up, down, broken, proxy, restarts>>

\* Closing a socket with unread data resets the connection, and what is on
\* its way to the client may be lost.
ResetUnread(C) ==
    \E D \in SUBSET {c \in C : up[c] # <<>> /\ down[c] # <<>>} :
        down' = [c \in Conns |-> IF c \in D THEN <<>> ELSE down[c]]

\* CheckDelete destroys the dead task; its socket is closed.
S_Destroy(c) ==
    /\ srv[c].step = "QUIT"
    /\ ResetUnread({c})
    /\ srv' = [srv EXCEPT ![c] = [NewTask EXCEPT !.step = "GONE"]]
    /\ up' = [up EXCEPT ![c] = <<>>]
    /\ UNCHANGED <<clientVars, broken, proxy, restarts>>

----------------------------------------------------------------------------
\* Mutants: the killer ages the living too, or only those that had a task.
AutoKillAnyone ==
    LET Old == {n \in Names : proxy[n].here /\ proxy[n].life + 1 >= MaxLife}
    IN /\ proxy' = [n \in Names |->
                     IF n \in Old THEN Absent
                     ELSE IF proxy[n].here THEN [proxy[n] EXCEPT !.life = @ + 1]
                     ELSE proxy[n]]
       /\ srv' = [c \in Conns |-> [srv[c] EXCEPT !.host = @ /\ Name(c) \notin Old]]
       /\ UNCHANGED <<clientVars, up, down, broken, restarts>>

AutoKillAttachedOnly ==
    LET Idle == {n \in Names : /\ proxy[n].here /\ ~IsConnectionAlive(n)
                               /\ proxy[n].task # NoTask}
        Killed == {n \in Idle : proxy[n].life + 1 >= MaxLife}
    IN /\ proxy' = [n \in Names |->
                     IF n \in Killed THEN Absent
                     ELSE IF n \in Idle THEN [proxy[n] EXCEPT !.life = @ + 1]
                     ELSE [proxy[n] EXCEPT !.life = 0]]
       /\ srv' = [c \in Conns |-> [srv[c] EXCEPT !.host = @ /\ Name(c) \notin Killed]]
       /\ UNCHANGED <<clientVars, up, down, broken, restarts>>

\* A tick of the killer: every proxy without a live connection grows older,
\* the old ones are deleted.
AutoKillPeers ==
    LET Idle == {n \in Names : proxy[n].here /\ ~IsConnectionAlive(n)}
        Killed == {n \in Idle : proxy[n].life + 1 >= MaxLife}
    IN /\ proxy' = [n \in Names |->
                     IF n \in Killed THEN Absent
                     ELSE IF n \in Idle THEN [proxy[n] EXCEPT !.life = @ + 1]
                     ELSE [proxy[n] EXCEPT !.life = 0]]
       /\ srv' = [c \in Conns |-> [srv[c] EXCEPT !.host = @ /\ Name(c) \notin Killed]]
       /\ UNCHANGED <<clientVars, up, down, broken, restarts>>

\* The message center's process ends and is started again: connections are
\* closed, proxies and pending messages are gone.
Restart ==
    /\ restarts < MaxRestarts
    /\ restarts' = restarts + 1
    /\ srv' = [c \in Conns |->
                IF srv[c].step = "NONE" THEN srv[c] ELSE [NewTask EXCEPT !.step = "GONE"]]
    /\ up' = [c \in Conns |-> <<>>]
    /\ ResetUnread(Conns)
    /\ proxy' = [n \in Names |-> Absent]
    /\ UNCHANGED <<clientVars, broken>>

----------------------------------------------------------------------------
ClientStep(cl) ==
    C_Run(cl) \/ C_ConnectFail(cl) \/ C_Connected(cl) \/ C_Write(cl)
        \/ C_Read(cl) \/ C_Error(cl)

ServerStep(c) ==
    S_Accept(c) \/ S_Read(c) \/ S_Prepare(c) \/ S_WriteDone(c)
        \/ S_Error(c) \/ S_Expire(c) \/ S_Destroy(c)

Next ==
    \/ \E m \in Msgs : C_Send(m)
    \/ \E cl \in Clients : ClientStep(cl)
    \/ \E c \in Conns : ServerStep(c) \/ Cut(c)
    \/ AutoKillPeers
    \/ Restart

Spec == Init /\ [][Next]_vars

\* Both programs' schedulers visit every task again and again, a connect that
\* is tried for ever succeeds, and the killer's timer ticks.
FairSpec ==
    /\ Spec
    /\ \A cl \in Clients :
        /\ WF_vars(C_Run(cl)) /\ SF_vars(C_Connected(cl))
        /\ WF_vars(C_Write(cl)) /\ WF_vars(C_Read(cl)) /\ WF_vars(C_Error(cl))
    /\ \A c \in Conns :
        /\ WF_vars(S_Accept(c)) /\ WF_vars(S_Read(c))
        /\ WF_vars(S_Prepare(c)) /\ WF_vars(S_WriteDone(c))
        /\ WF_vars(S_Error(c)) /\ WF_vars(S_Expire(c)) /\ WF_vars(S_Destroy(c))
    /\ WF_vars(AutoKillPeers)

----------------------------------------------------------------------------
Packages == Msgs \cup {INIT_NAME, INIT_CHECK_FAIL}

\* The type invariant, and no queue grows beyond its limit.
TypeOK ==
    /\ cstep \in [Clients -> {"RETRY", "GET_SOCKET", "LINKED", "STOPPED"}]
    /\ nconn \in [Clients -> Nat] /\ \A cl \in Clients : nconn[cl] <= MaxConn[cl]
    /\ cqueue \in [Clients -> Seq(Msgs \cup {INIT_NAME})]
    /\ \A cl \in Clients : Len(cqueue[cl]) <= QueueLen
    /\ sent \subseteq Msgs
    /\ got \in [Clients -> Seq(Msgs)]
    /\ up \in [Conns -> Seq(Msgs \cup {INIT_NAME})]
    /\ down \in [Conns -> Seq(Msgs \cup {INIT_CHECK_FAIL})]
    /\ broken \subseteq Conns
    /\ srv \in [Conns -> ServerTask]
    /\ proxy \in [Names -> Proxy]
    /\ \A n \in Names : Len(proxy[n].pending) <= QueueLen
    /\ restarts \in 0 .. MaxRestarts

\* A server task that has logged in and the proxy it logged in to point at
\* each other as long as the task is alive, so that never two live
\* connections serve one name, however kicks, late INIT_NAMEs, the killer and
\* the destruction of old tasks interleave.
AttachmentMutual ==
    /\ \A c \in Conns :
        IsTask(c) /\ srv[c].host => proxy[Name(c)].here /\ proxy[Name(c)].task = c
    /\ \A n \in Names :
        IsConnectionAlive(n) => srv[proxy[n].task].host /\ Name(proxy[n].task) = n

At(q, m) == {i \in 1 .. Len(q) : q[i] = m}

\* The copies of a message before the center has it, and those for the name n
\* afterwards, each with the queue or the connection it is in and its place.
Copies(where, who, q, m) == {<<where, who, i>> : i \in At(q, m)}
Queued(m) == UNION {Copies("queue", cl, cqueue[cl], m) : cl \in Clients}
OnWayUp(m) == UNION {Copies("up", c, up[c], m) : c \in Conns}
Pending(m, n) == Copies("pending", n, proxy[n].pending, m)
OnWayDown(m, n) == UNION {Copies("down", c, down[c], m) : c \in {d \in Conns : Name(d) = n}}
Received(m, n) ==
    UNION {Copies("got", cl, got[cl], m) : cl \in {d \in Clients : NameOf[d] = n}}

Upstream(m) == Queued(m) \cup OnWayUp(m)
Downstream(m, n) == Pending(m, n) \cup OnWayDown(m, n) \cup Received(m, n)

\* No message is duplicated: neither a reconnect of its sender nor one of its
\* receiver, which send the head of their queue again, makes a second copy
\* of a package that went through.
AtMostOnce ==
    \A m \in Msgs :
        /\ \A x, y \in Upstream(m) : x = y
        /\ \A n \in Names :
            /\ \A x, y \in Downstream(m, n) : x = y
            /\ Upstream(m) = {} \/ Downstream(m, n) = {}

\* CTaskPeerServer::AttachTaskPeerServer asserts that the proxy's former task
\* is not a task any more: a proxy passes from one task to another only when
\* the first one is dead, or is being quit in the same step.
AttachReplacesDeadStep ==
    \A n \in Names :
        proxy[n].here /\ proxy'[n].here /\ proxy'[n].task # proxy[n].task
            => ~TaskIn(srv', proxy[n].task)
AttachReplacesDead == [][AttachReplacesDeadStep]_vars

\* What waits for a name is not lost as long as the center runs: messages
\* leave the pending queue one by one in order, by being written, or all at
\* once when the killer deletes the proxy, and it deletes none whose
\* connection is alive.  Only a trusting center drops them at a login.
PendingKeptStep ==
    restarts' = restarts => \A n \in Names :
        LET old == proxy[n].pending
            new == proxy'[n].pending
        IN \/ IsPrefix(old, new)
           \/ /\ old # <<>> /\ new = Tail(old)
              /\ IsTask(proxy[n].task) /\ srv[proxy[n].task].writing = "MSG"
           \/ ~proxy'[n].here /\ ~IsConnectionAlive(n) /\ proxy[n].life + 1 >= MaxLife
           \/ TrustMode /\ IsConnectionAlive(n) /\ ~TaskIn(srv', proxy[n].task)
PendingKept == [][PendingKeptStep]_vars

\* "first thing , tell the server my name" (taskpeerclient.cpp): the first
\* package a server task reads is INIT_NAME.
NameToldFirst ==
    \A c \in Conns :
        srv[c].step = "LINKED" /\ ~srv[c].host /\ ~srv[c].quit /\ up[c] # <<>>
            => Head(up[c]) = INIT_NAME

\* PEER_GLOBALS asserts the global context wherever a proxy uses it, as
\* CPeerProxy::OnSocketDisconnected does: a proxy that can be disconnected has
\* a context.
AttachedHasContext ==
    \A c \in Conns : IsTask(c) /\ srv[c].host => proxy[Name(c)].ctx

----------------------------------------------------------------------------
Served(cl) ==
    /\ cstep[cl] = "LINKED"
    /\ srv[Current(cl)].step = "LINKED"
    /\ srv[Current(cl)].host

\* With a trusting center and a name of its own, a client is logged in for
\* good once the network stops failing, whatever its old connections, late or
\* repeated INIT_NAMEs and a full sending queue did before.
EventuallyServed == \A cl \in Clients : <>[]Served(cl)

\* Without trust it is logged in for good or refused for good.
EventuallySettled ==
    \A cl \in Clients : <>[]Served(cl) \/ <>[](cstep[cl] = "STOPPED")

\* A connection its client has left is eventually closed by the center.
TasksEnd ==
    \A c \in Conns :
        (srv[c].step \notin {"NONE", "GONE"} /\ ~Holds(c)) ~> (srv[c].step = "GONE")

\* Messages do not stay in the center: the pending queue of every name runs
\* empty, by a connection or by the killer.
PendingDrains ==
    \A n \in Names : (proxy[n].pending # <<>>) ~> (proxy[n].pending = <<>>)

============================================================================
