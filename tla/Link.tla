-------------------------------- MODULE Link --------------------------------
(***************************************************************************)
(* One direction of a link of the message bus: CTaskLinkRpc with its       *)
(* writer and CSocketReaderWriter at the sending end, its reader at the    *)
(* other.  A package is a header, which names the two lengths, the header  *)
(* data and the data; the socket carries them as a stream that the writer  *)
(* fills and the reader empties piece by piece.  Both ends find out by     *)
(* themselves that a connection is gone, by an error or, when it is gone   *)
(* silently, by the timeouts, and the sending end connects again;          *)
(* heartbeats keep an idle connection from timing out, and Reset replaces  *)
(* reader and writer while packages are on their way.                      *)
(* PackageChannel says what all this amounts to.                           *)
(***************************************************************************)
EXTENDS Naturals, Sequences, FiniteSets, SequencesExt

CONSTANTS MaxMsgs,     \* bound: packages, numbered as they are queued
          Bare,        \* the packages without data
          MaxRetries,  \* mMaxRetries, of CTaskLinkRpc::SetMaxRetries
          Capacity,    \* pieces the sockets' buffers hold
          Timeout,     \* mTimeout, in ticks of the clock
          MaxFaults    \* bound: connections broken and ends reset

ASSUME LinkAssumption ==
    /\ MaxMsgs \in Nat /\ Bare \subseteq 1 .. MaxMsgs
    /\ MaxRetries \in Nat \ {0} /\ Capacity \in Nat \ {0}
    /\ Timeout \in Nat \ {0, 1} /\ MaxFaults \in Nat

Conns == 1 .. MaxRetries
Msgs == 1 .. MaxMsgs
Heartbeat == 0

VARIABLES
    out,       \* the sending queue
    made,      \* packages that have been queued so far
    cur,       \* mRetries: the connection of the sending end
    link,      \* the sending end: "retry", "up" or "stopped"
    w,         \* CTaskLinkRpcWriter: step, package, pieces written
    hbTime,    \* mHearBeatTime
    writeTime, \* mWriteTimer
    alive,     \* the connections neither end nor the network has closed
    silent,    \* the connections that are gone without either end being told
    stuck,     \* pieces written to a silent connection
    wire,      \* the pieces on the way
    rd,        \* CTaskLinkRpcReader of each connection: step, header, pieces
    readTime,  \* mReadTimer
    canRead,   \* the receiving end reads on: CanReadNextPackage
    got,       \* packages reported by EVENT_GOT_DATA
    torn,      \* connections on which a reset has cut a package
    faults

sender == <<out, made, cur, link, w, hbTime, writeTime>>
receiver == <<rd, readTime, canRead, got>>
network == <<alive, silent, stuck, wire>>
vars == <<sender, receiver, network, torn, faults>>

-----------------------------------------------------------------------------

Piece(m, part) == [m |-> m, part |-> part]

\* CombPackage: what is written for a package.
Pieces(m) ==
    IF m = Heartbeat THEN <<Piece(m, "header")>>
    ELSE IF m \in Bare THEN <<Piece(m, "header"), Piece(m, "header_data")>>
    ELSE <<Piece(m, "header"), Piece(m, "header_data"), Piece(m, "data")>>

NewWriter == [step |-> "prepare", m |-> Heartbeat, off |-> 0]
NewReader == [step |-> "prepare", header |-> Heartbeat, buf |-> <<>>]
NoReader == [NewReader EXCEPT !.step = "none"]

Fault == faults < MaxFaults /\ faults' = faults + 1

Writing == w.step \in {"write_package", "write_heartbeat"}
Waiting(c) == rd[c].step \in {"header", "header_data", "data"}
MidPackage(c) == rd[c].step \in {"header_data", "data"}

\* Packages on this connection arrive.
Sound(c) == c \in alive \ silent
\* The ends are told that the connection is gone.
Gone(c) == c \notin alive \cup silent

Room ==
    IF cur \in silent THEN Capacity - stuck
    ELSE IF cur \in alive THEN Capacity - Len(wire[cur]) ELSE Capacity

\* CTaskLinkRpc::Retry at the sending end: close the socket, drop both tasks.
\* What the sockets have buffered still arrives.
Retry ==
    /\ link' = "retry"
    /\ w' = NewWriter /\ writeTime' = 0
    /\ alive' = alive \ {cur}

\* The receiving end closes the connection; what is on the way is lost.
StopReader(c) ==
    /\ rd' = [rd EXCEPT ![c] = NoReader]
    /\ readTime' = [readTime EXCEPT ![c] = 0]
    /\ alive' = alive \ {c}
    /\ wire' = [wire EXCEPT ![c] = <<>>]

-----------------------------------------------------------------------------
(* The sending end.                                                        *)

\* CTaskPeerClient::SendMessage, CPeerProxy::AddPendingMessage.
SendMessage(m) ==
    /\ m = made + 1
    /\ made' = m
    /\ out' = Append(out, m)
    /\ UNCHANGED <<cur, link, w, hbTime, writeTime, receiver, network, torn, faults>>

\* CTaskLinkRpc::Run in STEP_RETRY: mRetries counts every connection.
Connect ==
    /\ link = "retry"
    /\ cur < MaxRetries
    /\ cur' = cur + 1
    /\ link' = "up"
    /\ alive' = alive \cup {cur'}
    /\ rd' = [rd EXCEPT ![cur'] = NewReader]
    /\ hbTime' = 0 /\ stuck' = 0
    /\ UNCHANGED <<out, made, w, writeTime, readTime, canRead, got, silent, wire, torn, faults>>

ExceedMaxRetries ==
    /\ link = "retry"
    /\ cur = MaxRetries
    /\ link' = "stopped"
    /\ UNCHANGED <<out, made, cur, w, hbTime, writeTime, receiver, network, torn, faults>>

\* STEP_PREPARE_PACKAGE: the head of the queue, or a heartbeat when there has
\* been nothing to send for half the timeout.
PreparePackage ==
    /\ link = "up" /\ w.step = "prepare"
    /\ out # <<>>
    /\ w' = [step |-> "write_package", m |-> Head(out), off |-> 0]
    /\ writeTime' = 0
    /\ UNCHANGED <<out, made, cur, link, hbTime, receiver, network, torn, faults>>

\* Mutant: a heartbeat only when the timeout has passed.
HeartbeatTimeFull == Timeout

HeartbeatTime == Timeout \div 2

PrepareHeartbeat ==
    /\ link = "up" /\ w.step = "prepare"
    /\ out = <<>>
    /\ hbTime >= HeartbeatTime
    /\ hbTime' = 0
    /\ w' = [step |-> "write_heartbeat", m |-> Heartbeat, off |-> 0]
    /\ writeTime' = 0
    /\ UNCHANGED <<out, made, cur, link, receiver, network, torn, faults>>

\* Mutant: a heartbeat reports EVENT_PACKAGE_SEND_OK as well.
SendOkAlways == out' = IF out = <<>> THEN out ELSE Tail(out)

\* EVENT_PACKAGE_SEND_OK deletes the head of the queue in the same Run that
\* wrote the last piece.
SendOk == out' = IF w.step = "write_package" THEN Tail(out) ELSE out

\* DoWrite: as much as the socket takes.  A connection that is gone may take
\* data until the sending end notices.
Write ==
    /\ link = "up" /\ Writing
    /\ \E n \in 1 .. Len(Pieces(w.m)) - w.off :
         LET end == w.off + n
         IN  /\ n <= Room
             /\ wire' = IF Sound(cur)
                        THEN [wire EXCEPT ![cur] = @ \o SubSeq(Pieces(w.m), w.off + 1, end)]
                        ELSE wire
             /\ stuck' = IF cur \in silent THEN stuck + n ELSE stuck
             /\ IF end = Len(Pieces(w.m))
                THEN w' = NewWriter /\ SendOk
                ELSE w' = [w EXCEPT !.off = end] /\ UNCHANGED out
    /\ writeTime' = 0
    /\ UNCHANGED <<made, cur, link, hbTime, receiver, alive, silent, torn, faults>>

\* A read or a write fails, as the connection is gone.
ConnectionClosed ==
    /\ link = "up"
    /\ Gone(cur)
    /\ Retry
    /\ UNCHANGED <<out, made, cur, hbTime, receiver, silent, stuck, wire, torn, faults>>

WriteTimeout ==
    /\ link = "up" /\ Writing
    /\ Room = 0
    /\ writeTime >= Timeout
    /\ Retry
    /\ UNCHANGED <<out, made, cur, hbTime, receiver, silent, stuck, wire, torn, faults>>

\* CPeerProxy::Reset, for PEER_FUNC_RESET_PEER_PROXY: writer and reader are
\* replaced, the queue is cleared, then the message itself is queued.
ResetSender(m) ==
    /\ m = made + 1
    /\ Fault
    /\ made' = m
    /\ out' = <<m>>
    /\ w' = NewWriter /\ hbTime' = 0 /\ writeTime' = 0
    /\ torn' = IF w.off > 0 THEN torn \cup {cur} ELSE torn
    /\ UNCHANGED <<cur, link, receiver, network>>

-----------------------------------------------------------------------------
(* The receiving end.                                                      *)

PrepareReadHeader(c) ==
    /\ rd[c].step = "prepare"
    /\ canRead
    /\ rd' = [rd EXCEPT ![c] = [NewReader EXCEPT !.step = "header"]]
    /\ readTime' = [readTime EXCEPT ![c] = 0]
    /\ UNCHANGED <<sender, canRead, got, network, torn, faults>>

\* DoRead takes the next piece off the stream.
Take(c) ==
    /\ wire[c] # <<>>
    /\ wire' = [wire EXCEPT ![c] = Tail(@)]
    /\ readTime' = [readTime EXCEPT ![c] = 0]

\* The header is known by its tag and names the lengths of what follows; a
\* heartbeat has neither header data nor data and is not reported.
ReadHeader(c) ==
    /\ rd[c].step = "header"
    /\ Take(c)
    /\ LET p == Head(wire[c])
       IN  /\ p.part = "header"
           /\ rd' = [rd EXCEPT ![c] =
                IF p.m = Heartbeat THEN NewReader
                ELSE [step |-> "header_data", header |-> p.m, buf |-> <<p>>]]
    /\ UNCHANGED <<sender, canRead, got, alive, silent, stuck, torn, faults>>

WrongTag(c) ==
    /\ rd[c].step = "header"
    /\ wire[c] # <<>>
    /\ Head(wire[c]).part # "header"
    /\ StopReader(c)
    /\ UNCHANGED <<sender, canRead, got, silent, stuck, torn, faults>>

Report(c, buf) ==
    /\ rd' = [rd EXCEPT ![c] = NewReader]
    /\ got' = Append(got, [conn |-> c, buf |-> buf, torn |-> c \in torn])

\* Mutant: data is waited for, although the header names none.
ReadHeaderDataOnly(c) ==
    /\ rd[c].step = "header_data"
    /\ Take(c)
    /\ rd' = [rd EXCEPT ![c].step = "data", ![c].buf = Append(@, Head(wire[c]))]
    /\ UNCHANGED <<sender, got, canRead, alive, silent, stuck, torn, faults>>

\* Nothing but their length tells header data and data from other pieces.
ReadHeaderData(c) ==
    /\ rd[c].step = "header_data"
    /\ Take(c)
    /\ LET buf == Append(rd[c].buf, Head(wire[c]))
       IN  IF rd[c].header \in Bare
           THEN Report(c, buf)
           ELSE /\ rd' = [rd EXCEPT ![c].step = "data", ![c].buf = buf]
                /\ UNCHANGED got
    /\ UNCHANGED <<sender, canRead, alive, silent, stuck, torn, faults>>

ReadData(c) ==
    /\ rd[c].step = "data"
    /\ Take(c)
    /\ Report(c, Append(rd[c].buf, Head(wire[c])))
    /\ UNCHANGED <<sender, canRead, alive, silent, stuck, torn, faults>>

ReadError(c) ==
    /\ Waiting(c)
    /\ wire[c] = <<>> /\ Gone(c)
    /\ StopReader(c)
    /\ UNCHANGED <<sender, canRead, got, silent, stuck, torn, faults>>

ReadTimeout(c) ==
    /\ Waiting(c)
    /\ wire[c] = <<>>
    /\ readTime[c] >= Timeout
    /\ StopReader(c)
    /\ UNCHANGED <<sender, canRead, got, silent, stuck, torn, faults>>

\* CTaskLinkRpc::Reset at the receiving end: a new reader waits for a header.
ResetReceiver(c) ==
    /\ rd[c].step # "none"
    /\ Fault
    /\ rd' = [rd EXCEPT ![c] = NewReader]
    /\ readTime' = [readTime EXCEPT ![c] = 0]
    /\ torn' = IF MidPackage(c) THEN torn \cup {c} ELSE torn
    /\ UNCHANGED <<sender, canRead, got, network>>

\* SetCanReadNextPackage of the application.
SetCanRead ==
    /\ canRead' = ~canRead
    /\ UNCHANGED <<sender, rd, readTime, got, network, torn, faults>>

-----------------------------------------------------------------------------
(* The network and the clock.                                              *)

Lose(c, n) == wire' = [wire EXCEPT ![c] = SubSeq(@, 1, n)]

\* Both ends are told, and the last that was written is lost: also when the
\* sending end has closed the connection.
Broken(c) ==
    /\ c \notin silent
    /\ c \in alive \/ wire[c] # <<>>
    /\ alive' = alive \ {c}
    /\ \E n \in 0 .. Len(wire[c]) : Lose(c, n)
    /\ Fault
    /\ UNCHANGED <<sender, receiver, silent, stuck, torn>>

\* The sending end goes on writing into its buffer.
Silenced(c) ==
    /\ Sound(c)
    /\ silent' = silent \cup {c}
    /\ \E n \in 0 .. Len(wire[c]) : Lose(c, n) /\ stuck' = Len(wire[c]) - n
    /\ Fault
    /\ UNCHANGED <<sender, receiver, alive, torn>>

\* Tasks run many times in a tick: time passes when none of them can go on.
ReaderBusy(c) ==
    \/ rd[c].step = "prepare" /\ canRead
    \/ Waiting(c) /\ (wire[c] # <<>> \/ Gone(c) \/ readTime[c] >= Timeout)

WriterBusy ==
    \/ link = "retry"
    \/ link = "up" /\ Gone(cur)
    \/ link = "up" /\ w.step = "prepare" /\ (out # <<>> \/ hbTime >= HeartbeatTime)
    \/ link = "up" /\ Writing /\ (Room > 0 \/ writeTime >= Timeout)

\* Mutants: the interval is not added; it is added when nothing is read.
CountWriteNothing == writeTime
CountReadNothing == readTime
CountReadAlways == [c \in Conns |-> readTime[c] + 1]

\* mWriteTimer and mReadTimer add up the intervals without progress.
CountWrite == IF link = "up" /\ Writing THEN writeTime + 1 ELSE writeTime
CountRead == [c \in Conns |-> IF Waiting(c) THEN readTime[c] + 1 ELSE readTime[c]]

Tick ==
    /\ ~WriterBusy
    /\ \A c \in Conns : ~ReaderBusy(c)
    /\ hbTime' = IF link = "up" /\ w.step = "prepare" THEN hbTime + 1 ELSE hbTime
    /\ writeTime' = CountWrite
    /\ readTime' = CountRead
    /\ UNCHANGED <<out, made, cur, link, w, rd, canRead, got, network, torn, faults>>

-----------------------------------------------------------------------------

Init ==
    /\ out = <<>> /\ made = 0
    /\ cur = 0 /\ link = "retry"
    /\ w = NewWriter /\ hbTime = 0 /\ writeTime = 0
    /\ alive = {} /\ silent = {} /\ stuck = 0
    /\ wire = [c \in Conns |-> <<>>]
    /\ rd = [c \in Conns |-> NoReader] /\ readTime = [c \in Conns |-> 0]
    /\ canRead = TRUE /\ got = <<>>
    /\ torn = {} /\ faults = 0

WriterStep ==
    \/ Connect \/ ExceedMaxRetries
    \/ PreparePackage \/ PrepareHeartbeat \/ Write
    \/ ConnectionClosed \/ WriteTimeout

ReaderStep(c) ==
    \/ PrepareReadHeader(c) \/ ReadHeader(c) \/ WrongTag(c)
    \/ ReadHeaderData(c) \/ ReadData(c) \/ ReadError(c) \/ ReadTimeout(c)

Next ==
    \/ WriterStep \/ Tick \/ SetCanRead
    \/ \E m \in Msgs : SendMessage(m) \/ ResetSender(m)
    \/ \E c \in Conns : ReaderStep(c) \/ ResetReceiver(c) \/ Broken(c) \/ Silenced(c)

Spec == Init /\ [][Next]_vars

\* The task managers of both ends run and the clock goes on, however often the
\* application changes its mind; nobody must send, read on, reset or break.
FairSpec ==
    /\ Spec
    /\ WF_vars(WriterStep) /\ SF_vars(Tick)
    /\ \A c \in Conns : WF_vars(ReaderStep(c))

-----------------------------------------------------------------------------
(* Properties.                                                             *)

TypeOK ==
    /\ out \in Seq(Msgs) /\ made \in 0 .. MaxMsgs
    /\ cur \in 0 .. MaxRetries /\ link \in {"retry", "up", "stopped"}
    /\ w \in [step : {"prepare", "write_package", "write_heartbeat"},
              m : Msgs \cup {Heartbeat}, off : 0 .. 2]
    /\ hbTime \in 0 .. Timeout /\ writeTime \in 0 .. Timeout
    /\ alive \subseteq Conns /\ silent \subseteq Conns
    /\ stuck \in 0 .. Capacity /\ torn \subseteq Conns
    /\ \A c \in Conns :
         /\ Len(wire[c]) <= Capacity
         /\ rd[c].step \in {"none", "prepare", "header", "header_data", "data"}
         /\ readTime[c] \in 0 .. Timeout
    /\ canRead \in BOOLEAN /\ faults \in 0 .. MaxFaults

Whole(buf) == buf = Pieces(buf[1].m)

\* Whatever is cut off, closed, timed out or written again: a package that is
\* reported is one package that was sent, all of it, as long as no reset has
\* cut a package on its connection (CTaskLinkRpcReader::Run, EVENT_GOT_DATA).
Intact == \A i \in DOMAIN got : got[i].torn \/ Whole(got[i].buf)

\* Heartbeats at half the timeout (CTaskLinkRpcWriter::Run) keep the receiving
\* end from giving a sound connection up whose sending end is still there.
TimeoutIsTrue ==
    \A c \in Conns : ReadTimeout(c) => ~(link = "up" /\ cur = c /\ Sound(c))
NoFalseTimeout == [][TimeoutIsTrue]_vars

\* Both ends give a connection up that is gone, told or untold; the receiving
\* end unless it does not read (DoRead and DoWrite, mReadTimer, mWriteTimer).
GoneIsNoticed ==
    /\ \A c \in Conns :
         (~Sound(c) /\ rd[c].step # "none") ~> (rd[c].step = "none" \/ ~canRead)
    /\ (link = "up" /\ ~Sound(cur)) ~> (link # "up" \/ Sound(cur))

\* All packages leave the queue, on this connection or a later one, or the link
\* stops with its retries, whatever the network and the receiver do
\* (CTaskLinkRpc::Run, DoWrite).
QueueDrains == (out # <<>>) ~> (out = <<>> \/ link = "stopped")

\* A package is on its way when its last piece is, and received when that piece
\* is; on a connection that a reset has torn nothing counts.
OnWay(s) == {m \in Msgs : \E i \in 1 .. Len(s) : s[i] = Last(Pieces(m))}

Ok == alive \ (torn \cup silent)
Flight == [c \in Conns |-> IF c \in torn THEN {} ELSE OnWay(wire[c])]
Reported(g) == [conn |-> g.conn, msg |-> IF g.torn THEN 0 ELSE g.buf[1].m]
Heard == [i \in 1 .. Len(got) |-> Reported(got[i])]

Ch == INSTANCE PackageChannel WITH
    queue <- out, last <- made, ok <- Ok, flight <- Flight, got <- Heard

\* The link implements the channel: on each connection packages arrive in
\* order and once, those that are lost are the last ones, and one that was
\* written in part stays at the head of the queue for the next connection
\* (CTaskLinkRpcWriter::Run, CTaskPeerClient::OnPackageSendOk).
Channel == Ch!Spec

=============================================================================
