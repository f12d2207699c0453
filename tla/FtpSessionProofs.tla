-------------------------- MODULE FtpSessionProofs --------------------------
(***************************************************************************)
(* Proofs about one session of the FTP server (FtpSession.tla), for every   *)
(* set of files and requests, every timeout and every number of requests,   *)
(* chunks and faults.                                                       *)
(*                                                                         *)
(* A reply belongs to the request it is sent for because nothing has been   *)
(* sent for a request before its first reply is prepared (Fresh), and only  *)
(* the reply that opens its transfer before the last one (Begun).  What is  *)
(* "complete" is so because the file, what the reader has taken from the    *)
(* connection and what is on the way to it are together what was sent.      *)
(***************************************************************************)
EXTENDS FtpSession, SequenceLemmas

Codes == {"none", "150", "200", "220", "221", "226", "227", "451", "550"}
ReplyType == [of : Nat, code : Codes, sound : BOOLEAN]
SentType == [of : Nat, to : Nat, code : Codes, sound : BOOLEAN]
WriterType == [on : BOOLEAN, buf : ReplyType]
DataType == [kind : {"none", "client", "server"},
             state : {"closed", "listening", "connecting", "open"}]
DrType == [on : BOOLEAN, buf : Seq(Chunk), time : 0 .. Timeout - 1]
DwType == [state : {"none", "suspended", "running"}, src : Seq(Chunk), off : Nat,
           full : BOOLEAN, time : 0 .. Timeout - 1]

\* The types of the control connection, of the data connection and the files,
\* and of the clocks.
ControlOK ==
    /\ step \in {"send_response", "wait_response", "read_request", "wait_request",
                 "handle_request", "wait_connect", "wait_accept", "wait_send",
                 "wait_receive", "ended"}
    /\ after \in {"none", "quit", "wait_data", "wait_accept", "receive_file"}
    /\ resp \in ReplyType /\ resp.of <= req
    /\ atEnd \in BOOLEAN /\ req \in Nat /\ reader \in BOOLEAN
    /\ writer \in WriterType
    /\ ctl \in {"up", "fin", "silent", "down"}
    /\ reqs \in Seq(Commands) /\ req <= Len(reqs) /\ Len(reqs) <= MaxRequests
    /\ replies \in Seq(SentType)
    /\ faults \in 0 .. MaxFaults

DataOK ==
    /\ data \in DataType /\ listening \in BOOLEAN
    /\ peer \in {"none", "open", "fin", "lost", "silent"}
    /\ up \in Seq(Chunk) /\ down \in Seq(Chunk) /\ Len(down) <= 1
    /\ sent \in Seq(Chunk) /\ wrote \in Seq(Chunk)
    /\ dr \in DrType /\ dw \in DwType /\ dw.off <= Len(dw.src)
    /\ io \in Files \cup {NoFile} /\ store \in [Files -> Seq(Chunk)]
    /\ chunks \in 0 .. MaxChunks

TimesOK ==
    readTime \in 0 .. Timeout - 1 /\ connTime \in 0 .. Timeout - 1 /\ quiet \in 0 .. Timeout
ClocksOK == syncTime \in 0 .. SyncPeriod /\ calm \in 0 .. SyncPeriod + 1

Replying == step \in {"send_response", "wait_response"}
Ready == IsConnected \/ listening

\* What has been sent for the request that was read last: nothing, or the
\* reply that opens its transfer.
Fresh == \A i \in 1 .. Len(replies) : replies[i].to < req
Begun == \A i \in 1 .. Len(replies) :
            \/ replies[i].to < req
            \/ replies[i].to = req /\ replies[i].of = req /\ replies[i].code = "150"
Opening == resp.of = req /\ resp.code = "150" /\ Fresh

\* In which step which task is at work.
StepsFit ==
    /\ step = "wait_response" => writer.on
    /\ writer.on => Replying
    /\ Live /\ ~reader => /\ step \in {"send_response", "wait_response", "read_request"}
                          /\ after = "none" /\ ~dr.on /\ dw.state = "none"
    /\ Live /\ ~Replying => after = "none"
    /\ listening <=> IF Replying THEN after = "wait_accept" ELSE step = "wait_accept"
    /\ step = "wait_connect" => IsConnected
    /\ dr.on => /\ io \in Files
                /\ step # "wait_receive" => Replying /\ after = "receive_file" /\ Opening
    /\ dw.state = "running" => step = "wait_send"
    /\ Live /\ after = "wait_data" =>
         dw.state = "suspended" /\ dw.off = 0 /\ ~dw.full /\ IsConnected /\ Opening

\* Where the chunks of a transfer are.
MovesFit ==
    /\ Ready /\ dw.state # "running" => wrote = <<>> /\ down = <<>>
    /\ Ready /\ ~dr.on /\ peer # "lost" => up = sent
    /\ dr.on /\ peer # "lost" => (store[io] \o dr.buf) \o up = sent
    /\ dr.on /\ ~IsConnected => up = <<>> /\ peer \in {"fin", "lost"}
    /\ dw.state = "running" =>
        /\ dw.off = IF dw.full THEN Len(wrote) + 1 ELSE Len(wrote)
        /\ \A i \in 1 .. Len(wrote) : wrote[i] = dw.src[i]

\* The time of a task that moves data is no longer than the connection is quiet.
TimesFit ==
    /\ dr.on => IF step = "wait_receive" THEN dr.time <= quiet ELSE dr.time = 0
    /\ dw.state = "running" => IF wrote = <<>> THEN down = <<>> ELSE dw.time <= quiet

\* What the next reply may be.
RepliesFit ==
    /\ \A i \in 1 .. Len(replies) : replies[i].to <= req
    /\ resp.code = "226" => resp.sound
    /\ writer.buf.code = "226" => writer.buf.sound
    /\ step \in {"handle_request", "wait_connect"} => Fresh /\ resp.of < req
    /\ Replying => /\ resp.of < req => Command.verb \in Transfer
                   /\ Fresh \/ (Begun /\ resp.of = req /\ resp.code = "226")
    /\ step = "wait_send" /\ dw.state = "running" => Begun
    /\ step = "wait_receive" /\ dr.on => Begun
    /\ step = "send_response" /\ writer.on => atEnd
    /\ writer.buf # NoReply /\ writer.on =>
        \/ writer.buf = resp /\ step = "wait_response"
        \/ /\ writer.buf.of = req /\ writer.buf.code = "150"
           /\ Fresh /\ resp.code = "226" /\ resp.of = req

IInv ==
    /\ ControlOK /\ DataOK /\ TimesOK
    /\ StepsFit /\ MovesFit /\ TimesFit /\ RepliesFit /\ RepliesMatch

\* The time of a data writer counts only while it waits for the connection to
\* take what it has read.
PaceFit == dw.time = 0 \/ (dw.state = "running" /\ dw.full /\ dw.time <= quiet)

\* A transfer over a connection that is there.
Held == Transferring /\ IsConnected /\ ctl # "down"

\* The control connection is given a time that is no longer than its transfer
\* is quiet, and goes on from it until SyncTimeout runs again.
CalmFit ==
    /\ ClocksOK
    /\ TooQuiet(quiet) => calm = 0
    /\ Held => calm <= syncTime \/ readTime + SyncPeriod + 1 < Timeout + syncTime

KeptInv == IInv /\ PaceFit /\ CalmFit

----------------------------------------------------------------------------
\* A chunk that is sent is behind those in the file, the buffer and on the way.
LEMMA ChunkMoves ==
    \A f, b, u \in Seq(Chunk), x \in Chunk :
        (f \o b) \o Append(u, x) = Append((f \o b) \o u, x)
  BY MoveFacts

\* The chunks of the files and of the lists.
LEMMA ChunkFacts ==
    /\ OnDisk \in [Files -> Seq(Chunk)] /\ Absent \in Seq(Chunk) /\ Absent # <<>>
    /\ \A k \in 1 .. MaxChunks : k \in Chunk
    /\ <<>> \in Seq(Chunk) /\ Len(<<>>) = 0 /\ NoFile \notin Files
    /\ MaxChunks \in Nat /\ MaxFaults \in Nat /\ MaxRequests \in Nat
    /\ Timeout \in Nat /\ Timeout > 0
<1>1. ASSUME NEW f \in Files
      PROVE  OnDisk[f] \in Seq(Chunk)
  <2>1. OnDisk[f] \in Seq(Int)
    BY OnDiskAssumption
  <2>2. \A i \in 1 .. Len(OnDisk[f]) : OnDisk[f][i] \in Chunk
    BY <2>1 DEF Chunk
  <2>3. OnDisk[f] \in [1 .. Len(OnDisk[f]) -> Chunk] /\ Len(OnDisk[f]) \in Nat
    BY <2>1, <2>2
  <2> QED
    BY <2>3
<1>2. Listing \in Chunk /\ \A k \in 1 .. MaxChunks : k \in Chunk
  BY DEF Chunk
<1>3. Absent \in Seq(Chunk) /\ Absent # <<>>
  BY <1>2 DEF Absent
<1> QED
  BY <1>1, <1>2, <1>3, OnDiskAssumption, BoundsAssumption, FilesAssumption

\* The records that the tasks of a session begin and end with.
LEMMA RecordFacts ==
    /\ NoReply \in ReplyType /\ NoReply.code = "none" /\ NoReply.of = 0
    /\ NoWriter \in WriterType /\ NoWriter.on = FALSE /\ NoWriter.buf = NoReply
    /\ NoDataReader \in DrType /\ NoDataReader.on = FALSE /\ NoDataReader.buf = <<>>
    /\ NoDataReader.time = 0
    /\ NoDataWriter \in DwType /\ NoDataWriter.state = "none" /\ NoDataWriter.off = 0
    /\ NoDataWriter.src = <<>> /\ NoDataWriter.full = FALSE /\ NoDataWriter.time = 0
<1>1. NoReply \in ReplyType /\ NoReply.code = "none" /\ NoReply.of = 0
  BY DEF NoReply, ReplyType, Codes
<1>2. NoWriter \in WriterType /\ NoWriter.on = FALSE /\ NoWriter.buf = NoReply
  BY <1>1 DEF NoWriter, WriterType
<1>3. 0 \in 0 .. Timeout - 1
  BY ChunkFacts
<1>4. /\ NoDataReader \in DrType /\ NoDataReader.on = FALSE /\ NoDataReader.buf = <<>>
      /\ NoDataReader.time = 0
  BY <1>3, ChunkFacts DEF NoDataReader, DrType
<1>5. /\ NoDataWriter \in DwType /\ NoDataWriter.state = "none" /\ NoDataWriter.off = 0
      /\ NoDataWriter.src = <<>> /\ NoDataWriter.full = FALSE /\ NoDataWriter.time = 0
  BY <1>3, ChunkFacts DEF NoDataWriter, DwType
<1> QED
  BY <1>1, <1>2, <1>4, <1>5

\* TypeOK follows from its parts.
LEMMA TypeParts == ControlOK /\ DataOK /\ TimesOK /\ ClocksOK /\ StepsFit => TypeOK
<1> SUFFICES ASSUME ControlOK, DataOK, TimesOK, ClocksOK, StepsFit
             PROVE  TypeOK
  OBVIOUS
<1>1. /\ resp.of \in 0 .. req /\ req \in 0 .. Len(reqs) /\ Len(reqs) <= MaxRequests
      /\ writer.on \in BOOLEAN
  BY DEF ControlOK, ReplyType, WriterType
<1>2. dr.on \in BOOLEAN /\ dr.time \in 0 .. Timeout - 1 /\ (dr.on => io \in Files)
  BY DEF DataOK, DrType, StepsFit
<1>3. /\ dw.state \in {"none", "suspended", "running"} /\ dw.time \in 0 .. Timeout - 1
      /\ dw.off \in 0 .. Len(dw.src)
  BY DEF DataOK, DwType
<1> QED
  BY <1>1, <1>2, <1>3 DEF ControlOK, DataOK, TimesOK, ClocksOK, TypeOK, DataType

----------------------------------------------------------------------------
\* Requests that the client sends come after those that were read.
LEMMA MatchKept ==
    ASSUME IInv, replies' = replies, \/ reqs' = reqs
                                     \/ \E c \in Commands : reqs' = Append(reqs, c)
    PROVE  RepliesMatch' /\ \A k \in 1 .. req : reqs'[k] = reqs[k]
<1>1. /\ reqs \in Seq(Commands) /\ req \in Nat /\ req <= Len(reqs) /\ Len(reqs) \in Nat
      /\ replies \in Seq(SentType)
  BY DEF IInv, ControlOK
<1>2. \A k \in 1 .. Len(reqs) : reqs'[k] = reqs[k]
  <2>1. CASE reqs' = reqs
    BY <2>1
  <2>2. ASSUME NEW c \in Commands, reqs' = Append(reqs, c)
        PROVE  \A k \in 1 .. Len(reqs) : reqs'[k] = reqs[k]
    BY <1>1, <2>2, AppendProperties
  <2> QED
    BY <2>1, <2>2
<1>3. \A k \in 1 .. req : k \in 1 .. Len(reqs)
  BY <1>1
<1>4. ASSUME NEW i \in DOMAIN replies, replies[i].of < replies[i].to
      PROVE  reqs'[replies[i].to] = reqs[replies[i].to]
  <2>1. DOMAIN replies = 1 .. Len(replies) /\ replies[i] \in SentType
    BY <1>1
  <2>2. replies[i].to \in Nat /\ replies[i].of \in Nat /\ replies[i].to <= req
    BY <2>1 DEF SentType, IInv, RepliesFit
  <2>3. replies[i].to \in 1 .. req
    BY <1>1, <1>4, <2>2
  <2> QED
    BY <1>2, <1>3, <2>3
<1> QED
  BY <1>2, <1>3, <1>4 DEF IInv, RepliesMatch

\* Steps of the tasks that move data, of the client and of the clock: the
\* session and its replies stay as they are.
LEMMA SameSession ==
    ASSUME IInv,
           UNCHANGED <<step, after, resp, atEnd, req, writer, reader, replies, listening, io>>,
           dr'.on = dr.on,
           \/ dw'.state = dw.state
           \/ dw.state = "running" /\ dw'.state = "none",
           dw.state = "suspended" => dw'.off = dw.off /\ dw'.full = dw.full,
           after = "wait_data" \/ step = "wait_connect" => IsConnected' = IsConnected,
           \/ reqs' = reqs
           \/ \E c \in Commands : reqs' = Append(reqs, c)
    PROVE  StepsFit' /\ RepliesFit' /\ RepliesMatch'
<1>1. RepliesMatch' /\ \A k \in 1 .. req : reqs'[k] = reqs[k]
  BY MatchKept
<1>2. /\ StepsFit /\ RepliesFit /\ ControlOK /\ resp.of \in Nat /\ req \in Nat
  BY DEF IInv, ControlOK, ReplyType
<1>3. Fresh' = Fresh /\ Begun' = Begun /\ Opening' = Opening /\ Replying' = Replying /\ Live' = Live
  BY DEF Fresh, Begun, Opening, Replying, Live
<1>4. StepsFit'
  BY <1>2, <1>3, Zenon DEF StepsFit
<1>5. resp.of < req => Command' = Command
  BY <1>1, <1>2 DEF Command
<1>6. RepliesFit'
  BY <1>2, <1>3, <1>5 DEF RepliesFit
<1> QED
  BY <1>1, <1>4, <1>6

\* A session that stops has no task and no connection any more.
LEMMA Stopped ==
    ASSUME IInv, Stop, replies' \in Seq(SentType), RepliesMatch',
           \A i \in 1 .. Len(replies') : replies'[i].to <= req
    PROVE  IInv'
<1>1. /\ step' = "ended" /\ ctl' = "down" /\ writer' = NoWriter /\ reader' = FALSE
      /\ data' = [data EXCEPT !.state = "closed"] /\ listening' = FALSE
      /\ dr' = NoDataReader /\ dw' = NoDataWriter /\ io' = NoFile
      /\ UNCHANGED <<after, resp, atEnd, req, peer, up, down, sent, wrote, store, reqs, chunks,
                     connTime, readTime, quiet, faults>>
  BY DEF Stop, client, times, clocks, moves
<1>2. ControlOK'
  BY <1>1, RecordFacts DEF IInv, ControlOK
<1>3. data' \in DataType /\ data'.state = "closed"
  BY <1>1 DEF IInv, DataOK, DataType
<1>4. DataOK'
  <2>1. dw' \in DwType /\ dr' \in DrType /\ dw'.off <= Len(dw'.src)
    <3>1. Len(dw'.src) = 0
      BY <1>1, RecordFacts
    <3> QED
      BY <1>1, <3>1, RecordFacts
  <2> QED
    BY <1>1, <1>3, <2>1 DEF IInv, DataOK
<1>5. TimesOK'
  BY <1>1 DEF IInv, TimesOK
<1>6. StepsFit'
  BY <1>1, RecordFacts DEF StepsFit, Live, Replying
<1>7. MovesFit' /\ TimesFit'
  BY <1>1, <1>3, RecordFacts DEF MovesFit, TimesFit, Ready, IsConnected
<1>8. RepliesFit'
  BY <1>1, RecordFacts DEF IInv, RepliesFit, Replying
<1> QED
  BY <1>2, <1>4, <1>5, <1>6, <1>7, <1>8 DEF IInv

\* The end of a session without another reply.
LEMMA StopStep ==
    ASSUME IInv, WriterStop \/ ReaderStop \/ ReaderTimeout \/ WaitBufTimeout \/ ConnectTimeout
    PROVE  IInv'
<1>1. Stop /\ replies' = replies
  BY DEF WriterStop, ReaderStop, ReaderTimeout, WaitBufTimeout, ConnectTimeout
<1>2. reqs' = reqs
  BY <1>1 DEF Stop, client
<1>3. RepliesMatch'
  BY <1>1, <1>2, MatchKept
<1>4. /\ replies' \in Seq(SentType)
      /\ \A i \in 1 .. Len(replies') : replies'[i].to <= req
  BY <1>1 DEF IInv, ControlOK, RepliesFit
<1> QED
  BY <1>1, <1>3, <1>4, Stopped

----------------------------------------------------------------------------
\* The client and the network: requests and connections.
LEMMA ControlStep ==
    ASSUME IInv, (\E c \in Commands : Send(c)) \/ CloseControl \/ WriterFail \/ ReaderClose
    PROVE  IInv'
<1>1. /\ UNCHANGED <<session, writer, reader, replies, dataConn, dr, dw, disk, chunks, faults,
                     connTime, quiet>>
      /\ ctl' \in {ctl, "fin", "down"}
      /\ readTime' \in {readTime, 0}
      /\ \/ reqs' = reqs
         \/ /\ Len(reqs) < MaxRequests
            /\ \E c \in Commands : reqs' = Append(reqs, c)
  BY DEF Send, CloseControl, WriterFail, ReaderClose, ServerUnchanged, session, dataConn, disk,
         client, times, clocks, moves
<1>2. ControlOK'
  <2>1. /\ reqs' \in Seq(Commands) /\ req <= Len(reqs') /\ Len(reqs') <= MaxRequests
    <3>1. /\ reqs \in Seq(Commands) /\ req <= Len(reqs) /\ Len(reqs) <= MaxRequests
          /\ req \in Nat /\ Len(reqs) \in Nat /\ MaxRequests \in Nat
      BY ChunkFacts DEF IInv, ControlOK
    <3>2. ASSUME NEW c \in Commands, reqs' = Append(reqs, c), Len(reqs) < MaxRequests
          PROVE  /\ reqs' \in Seq(Commands) /\ req <= Len(reqs') /\ Len(reqs') <= MaxRequests
      <4>1. reqs' \in Seq(Commands) /\ Len(reqs') = Len(reqs) + 1
        BY <3>1, <3>2, AppendProperties
      <4> QED
        BY <3>1, <3>2, <4>1
    <3> QED
      BY <1>1, <3>1, <3>2
  <2> QED
    BY <1>1, <2>1 DEF IInv, ControlOK, session
<1>3. DataOK'
  BY <1>1 DEF IInv, DataOK, dataConn, disk
<1>4. TimesOK'
  <2>1. 0 \in 0 .. Timeout - 1
    BY ChunkFacts
  <2> QED
    BY <1>1, <2>1 DEF IInv, TimesOK
<1>5. StepsFit' /\ RepliesFit' /\ RepliesMatch'
  <2>1. UNCHANGED <<step, after, resp, atEnd, req, writer, reader, replies, listening, io, dr, dw,
                    data>>
    BY <1>1 DEF session, dataConn, disk
  <2> QED
    BY <1>1, <2>1, SameSession DEF IsConnected
<1>6. MovesFit' /\ TimesFit'
  BY <1>1 DEF IInv, MovesFit, TimesFit, Ready, IsConnected, session, dataConn, disk
<1> QED
  BY <1>2, <1>3, <1>4, <1>5, <1>6 DEF IInv

\* What the client does on its end of the data connection.
LEMMA PeerStep ==
    ASSUME IInv, Connect \/ SendChunk \/ TakeChunk \/ ClosePeer \/ Lose \/ Vanish
    PROVE  IInv'
<1>1. /\ UNCHANGED <<session, writer, reader, replies, data, listening, wrote, dr, dw, disk,
                     reqs, times>>
      /\ ctl' \in {ctl, "silent"}
      /\ peer' \in {peer, "open", "fin", "lost", "silent"}
      /\ peer \in {"fin", "lost"} => peer' = peer
      /\ down' = down \/ down' = <<>>
      /\ \/ up' = up /\ sent' = sent /\ chunks' = chunks
         \/ /\ peer = "open" /\ peer' = peer /\ chunks < MaxChunks /\ chunks' = chunks + 1
            /\ up' = Append(up, chunks') /\ sent' = Append(sent, chunks')
         \/ /\ peer' = "lost" /\ sent' = sent /\ chunks' = chunks /\ peer = "open"
            /\ \E n \in 0 .. Len(up) : up' = SubSeq(up, 1, n)
      /\ faults' = faults \/ (faults < MaxFaults /\ faults' = faults + 1)
  BY DEF Connect, SendChunk, TakeChunk, ClosePeer, Lose, Vanish, Fault, ServerUnchanged, client
<1>2. UNCHANGED <<step, after, resp, atEnd, req, io, store, connTime, readTime, quiet>>
  BY <1>1 DEF session, disk, times, clocks, moves
<1>3. ControlOK'
  BY <1>1, <1>2, ChunkFacts DEF IInv, ControlOK
<1>4. /\ up \in Seq(Chunk) /\ sent \in Seq(Chunk) /\ down \in Seq(Chunk) /\ chunks \in Nat
      /\ chunks <= MaxChunks /\ MaxChunks \in Nat /\ store \in [Files -> Seq(Chunk)]
      /\ dr.buf \in Seq(Chunk) /\ Len(down) <= 1 /\ dr \in DrType
  BY ChunkFacts DEF IInv, DataOK, DrType
<1>5. up' \in Seq(Chunk) /\ sent' \in Seq(Chunk) /\ chunks' \in 0 .. MaxChunks
  <2>1. CASE /\ chunks < MaxChunks /\ chunks' = chunks + 1
             /\ up' = Append(up, chunks') /\ sent' = Append(sent, chunks')
    <3>1. chunks' \in 1 .. MaxChunks
      BY <1>4, <2>1
    <3>2. chunks' \in Chunk
      BY <3>1, ChunkFacts
    <3> QED
      BY <1>4, <2>1, <3>1, <3>2, AppendProperties
  <2>2. ASSUME NEW n \in 0 .. Len(up), up' = SubSeq(up, 1, n)
        PROVE  up' \in Seq(Chunk)
    BY <1>4, <2>2, PrefixFacts
  <2> QED
    BY <1>1, <1>4, <2>1, <2>2
<1>6. DataOK'
  <2>1. down' \in Seq(Chunk) /\ Len(down') <= 1
    <3>1. CASE down' = down
      BY <1>4, <3>1
    <3>2. CASE down' = <<>>
      <4>1. Len(down') = 0
        BY <3>2
      <4> QED
        BY <3>2, <4>1, ChunkFacts
    <3> QED
      BY <1>1, <3>1, <3>2
  <2> QED
    BY <1>1, <1>2, <1>5, <2>1 DEF IInv, DataOK
<1>7. TimesOK'
  BY <1>2 DEF IInv, TimesOK
<1>8. StepsFit' /\ RepliesFit' /\ RepliesMatch'
  BY <1>1, <1>2, SameSession DEF IsConnected
<1>9. MovesFit'
  <2>1. IsConnected' = IsConnected /\ Ready' = Ready
    BY <1>1 DEF IsConnected, Ready
  <2>2. peer' # "lost" =>
            /\ peer # "lost"
            /\ \/ up' = up /\ sent' = sent
               \/ \E x \in Chunk : up' = Append(up, x) /\ sent' = Append(sent, x)
    <3>1. CASE /\ chunks < MaxChunks /\ chunks' = chunks + 1 /\ peer = "open"
               /\ up' = Append(up, chunks') /\ sent' = Append(sent, chunks')
      <4>1. chunks' \in 1 .. MaxChunks
        BY <1>4, <3>1
      <4> QED
        BY <3>1, <4>1, ChunkFacts
    <3> QED
      BY <1>1, <3>1
  <2>3. Ready' /\ ~dr'.on /\ peer' # "lost" => up' = sent'
    BY <1>1, <2>1, <2>2 DEF IInv, MovesFit
  <2>4. ASSUME dr'.on, peer' # "lost"
        PROVE  (store'[io'] \o dr'.buf) \o up' = sent'
    <3>1. (store[io] \o dr.buf) \o up = sent /\ io \in Files
      BY <1>1, <2>2, <2>4 DEF IInv, MovesFit, StepsFit
    <3>2. ASSUME NEW x \in Chunk
          PROVE  (store[io] \o dr.buf) \o Append(up, x) = Append((store[io] \o dr.buf) \o up, x)
      <4>1. PICK f \in Seq(Chunk), b \in Seq(Chunk) : f = store[io] /\ b = dr.buf
        BY <1>4, <3>1
      <4>2. up \in Seq(Chunk)
        BY <1>4
      <4>3. (f \o b) \o Append(up, x) = Append((f \o b) \o up, x)
        BY <3>2, <4>2, ChunkMoves, Zenon
      <4> QED
        BY <4>1, <4>3
    <3> QED
      BY <1>1, <1>2, <2>2, <2>4, <3>1, <3>2
  <2>5. dr'.on /\ ~IsConnected' => up' = <<>> /\ peer' \in {"fin", "lost"}
    BY <1>1, <2>1 DEF IInv, MovesFit
  <2> QED
    BY <1>1, <2>1, <2>3, <2>4, <2>5 DEF IInv, MovesFit
<1>10. TimesFit'
  BY <1>1, <1>2 DEF IInv, TimesFit
<1> QED
  BY <1>3, <1>6, <1>7, <1>8, <1>9, <1>10 DEF IInv

----------------------------------------------------------------------------
\* When a request is handled, nothing has been sent for it, and no task moves
\* data.
LEMMA RequestFacts ==
    ASSUME IInv, step = "handle_request"
    PROVE  /\ after = "none" /\ ~listening /\ ~dr.on /\ dw.state # "running"
           /\ reader /\ ~writer.on /\ Fresh /\ resp.of < req /\ Live /\ ~Replying
           /\ Command \in Commands /\ Command.file \in Files \cup {NoFile}
           /\ Content(Command.file) \in Seq(Chunk) /\ Source \in Seq(Chunk)
           /\ Command.verb = "stor" => (Command.file \in Files <=> Command.file # NoFile)
<1>1. /\ Live /\ ~Replying
  BY DEF Live, Replying
<1>2. /\ after = "none" /\ ~listening /\ ~dr.on /\ dw.state # "running"
      /\ reader /\ ~writer.on /\ Fresh /\ resp.of < req
  BY <1>1 DEF IInv, StepsFit, RepliesFit, ControlOK, WriterType
<1>3. Command \in Commands
  <2>1. /\ reqs \in Seq(Commands) /\ req \in Nat /\ resp.of \in Nat /\ req <= Len(reqs)
    BY DEF IInv, ControlOK, ReplyType
  <2>2. req \in 1 .. Len(reqs)
    BY <1>2, <2>1
  <2> QED
    BY <2>1, <2>2 DEF Command
<1>4. Command.file \in Files \cup {NoFile}
  BY <1>3, CommandsAssumption
<1>5. Content(Command.file) \in Seq(Chunk)
  BY ChunkFacts DEF Content, IInv, DataOK
<1>6. Source \in Seq(Chunk)
  <2>1. <<Listing>> \in Seq(Chunk)
    BY ChunkFacts DEF Absent
  <2> QED
    BY <1>5, <2>1, ChunkFacts DEF Source
<1> QED
  BY <1>1, <1>2, <1>3, <1>4, <1>5, <1>6, ChunkFacts

\* The first reply to a request, or the reply before it when a request to
\* transfer finds no data connection.
LEMMA Answered ==
    ASSUME IInv, step \in {"handle_request", "wait_connect"}, step' = "send_response",
           UNCHANGED <<req, writer, reader, replies, reqs>>,
           \/ resp' = resp /\ Command.verb \in Transfer
           \/ /\ resp'.of = req /\ resp'.code \in Codes /\ resp'.code # "226"
              /\ resp' \in ReplyType
    PROVE  RepliesFit' /\ RepliesMatch' /\ Fresh' /\ resp' \in ReplyType /\ resp'.of <= req
<1>1. RepliesMatch'
  BY MatchKept
<1>2. Fresh' /\ Fresh /\ ~writer.on
  BY DEF IInv, RepliesFit, StepsFit, Fresh, Replying, ControlOK, WriterType
<1>3. Command' = Command /\ req \in Nat
  BY DEF Command, IInv, ControlOK
<1>4. RepliesFit'
  BY <1>2, <1>3 DEF IInv, RepliesFit, Replying
<1> QED
  BY <1>1, <1>2, <1>3, <1>4 DEF IInv, ControlOK

\* A prepared reply has its request, its code and its soundness.
LEMMA PrepareFacts ==
    ASSUME IInv, NEW code \in Codes, NEW sound \in BOOLEAN, PrepareResponse(code, sound)
    PROVE  /\ resp' \in ReplyType /\ resp'.of = req /\ resp'.code = code /\ resp'.sound = sound
           /\ atEnd' \in BOOLEAN
BY DEF PrepareResponse, ReplyType, IInv, ControlOK

\* What is left as it is while the session answers.
LEMMA QuietData ==
    ASSUME IInv, UNCHANGED <<dataConn, dr, dw, io, chunks>>, store' \in [Files -> Seq(Chunk)],
           dr.on => store' = store
    PROVE  DataOK' /\ MovesFit'
BY DEF IInv, DataOK, MovesFit, Ready, IsConnected, dataConn

\* Requests that are answered at once.
LEMMA AnswerStep ==
    ASSUME IInv, HandleSimple \/ HandleDele
    PROVE  IInv'
<1>1. /\ step = "handle_request" /\ step' = "send_response"
      /\ UNCHANGED <<req, writer, reader, ctl, replies, dataConn, dr, dw, io, reqs, chunks,
                     connTime, readTime, quiet, faults>>
      /\ \E code \in {"200", "221", "550"} : PrepareResponse(code, TRUE)
      /\ after' \in {after, "quit"}
      /\ \/ store' = store
         \/ store' = [store EXCEPT ![Command.file] = Absent]
  BY DEF HandleSimple, HandleDele, Handle, Answer, control, disk, client, times, clocks, moves
<1>2. /\ resp' \in ReplyType /\ resp'.of = req /\ resp'.code \in {"200", "221", "550"}
      /\ atEnd' \in BOOLEAN /\ resp'.code \in Codes
  BY <1>1, PrepareFacts DEF Codes
<1>3. /\ after = "none" /\ ~listening /\ ~dr.on /\ dw.state # "running" /\ reader /\ ~writer.on
  BY <1>1, RequestFacts
<1>4. RepliesFit' /\ RepliesMatch'
  BY <1>1, <1>2, Answered
<1>5. DataOK' /\ MovesFit'
  <2>1. store' \in [Files -> Seq(Chunk)]
    BY <1>1, ChunkFacts DEF IInv, DataOK
  <2> QED
    BY <1>1, <1>3, <2>1, QuietData
<1>6. ControlOK' /\ TimesOK'
  BY <1>1, <1>2, <1>3 DEF IInv, ControlOK, TimesOK
<1>7. StepsFit'
  BY <1>1, <1>3 DEF StepsFit, Replying, Live, dataConn
<1>8. TimesFit'
  BY <1>1, <1>3 DEF TimesFit
<1> QED
  BY <1>4, <1>5, <1>6, <1>7, <1>8 DEF IInv

\* Requests for a data connection.
LEMMA ConnectionStep ==
    ASSUME IInv, HandlePort \/ HandlePasv
    PROVE  IInv'
<1>1. /\ step = "handle_request"
      /\ UNCHANGED <<req, writer, reader, ctl, replies, dr, dw, io, store, reqs, chunks,
                     readTime, quiet, faults>>
      /\ peer' = "none" /\ up' = <<>> /\ down' = <<>> /\ sent' = <<>> /\ wrote' = <<>>
      /\ connTime' \in {connTime, 0}
      /\ \/ /\ step' = "wait_connect" /\ data' = [kind |-> "client", state |-> "connecting"]
            /\ UNCHANGED <<after, resp, atEnd, listening>>
         \/ /\ step' = "send_response" /\ listening' = TRUE /\ after' = "wait_accept"
            /\ PrepareResponse("227", TRUE)
            /\ data' = IF data.kind = "server" THEN [data EXCEPT !.state = "listening"] ELSE data
  BY DEF HandlePort, HandlePasv, Handle, NewPeer, control, disk, client, times, clocks, moves
<1>2. /\ after = "none" /\ ~listening /\ ~dr.on /\ dw.state # "running" /\ reader /\ ~writer.on
      /\ Fresh /\ resp.of < req
  BY <1>1, RequestFacts
<1>3. data' \in DataType
  <2>1. data \in DataType
    BY DEF IInv, DataOK
  <2>2. CASE data' = [kind |-> "client", state |-> "connecting"]
    BY <2>2 DEF DataType
  <2>3. CASE data' = [data EXCEPT !.state = "listening"]
    BY <2>1, <2>3 DEF DataType
  <2> QED
    BY <1>1, <2>1, <2>2, <2>3
<1>4. DataOK' /\ TimesOK'
  <2>1. 0 \in 0 .. Timeout - 1 /\ Len(down') = 0
    BY <1>1, ChunkFacts
  <2>2. listening' \in BOOLEAN
    BY <1>1 DEF IInv, DataOK
  <2>3. up' \in Seq(Chunk) /\ down' \in Seq(Chunk) /\ sent' \in Seq(Chunk) /\ wrote' \in Seq(Chunk)
    BY <1>1, ChunkFacts
  <2>4. DataOK'
    BY <1>1, <1>3, <2>1, <2>2, <2>3 DEF IInv, DataOK
  <2> QED
    BY <1>1, <2>1, <2>4 DEF IInv, TimesOK
<1>5. MovesFit' /\ TimesFit'
  BY <1>1, <1>2 DEF MovesFit, TimesFit
<1>6. CASE /\ step' = "wait_connect" /\ data' = [kind |-> "client", state |-> "connecting"]
           /\ UNCHANGED <<after, resp, atEnd, listening>>
  <2>1. RepliesMatch'
    BY <1>1, MatchKept
  <2>2. Fresh'
    BY <1>1, <1>2 DEF Fresh
  <2>3. RepliesFit'
    BY <1>1, <1>2, <1>6, <2>2 DEF IInv, RepliesFit, Replying
  <2>4. StepsFit'
    BY <1>1, <1>2, <1>6 DEF StepsFit, Replying, Live, IsConnected
  <2>5. ControlOK'
    BY <1>1, <1>6 DEF IInv, ControlOK
  <2> QED
    BY <1>4, <1>5, <2>1, <2>3, <2>4, <2>5 DEF IInv
<1>7. CASE /\ step' = "send_response" /\ listening' = TRUE /\ after' = "wait_accept"
           /\ PrepareResponse("227", TRUE)
  <2>1. "227" \in Codes /\ TRUE \in BOOLEAN
    BY DEF Codes
  <2>2. resp' \in ReplyType /\ resp'.of = req /\ resp'.code = "227" /\ atEnd' \in BOOLEAN
    BY <1>7, <2>1, PrepareFacts
  <2>3. RepliesFit' /\ RepliesMatch'
    BY <1>1, <1>7, <2>1, <2>2, Answered
  <2>4. StepsFit'
    BY <1>1, <1>2, <1>7 DEF StepsFit, Replying, Live
  <2>5. ControlOK'
    BY <1>1, <1>7, <2>2 DEF IInv, ControlOK
  <2> QED
    BY <1>4, <1>5, <2>3, <2>4, <2>5 DEF IInv
<1> QED
  BY <1>1, <1>6, <1>7

\* Requests to download and to list.
LEMMA DownloadStep ==
    ASSUME IInv, HandleDownload
    PROVE  IInv'
<1> DEFINE w == [dw EXCEPT !.state = "suspended", !.src = Source, !.off = 0, !.full = FALSE]
<1>1. /\ step = "handle_request" /\ step' = "send_response" /\ Command.verb \in {"retr", "list"}
      /\ UNCHANGED <<req, writer, reader, ctl, replies, dataConn, dr, store, reqs, chunks,
                     connTime, readTime, quiet, faults>>
      /\ io' \in {io, NoFile, Command.file}
      /\ \/ PrepareResponse("550", TRUE) /\ after' = after /\ dw' = dw
         \/ /\ IsConnected /\ PrepareResponse("150", TRUE) /\ after' = "wait_data" /\ dw' = w
         \/ resp' = resp /\ atEnd' = atEnd /\ after' = after /\ dw' = dw
  BY DEF HandleDownload, Handle, control, client, times, clocks, moves
<1>2. /\ after = "none" /\ ~listening /\ ~dr.on /\ dw.state # "running" /\ reader /\ ~writer.on
      /\ Command.file \in Files \cup {NoFile} /\ Source \in Seq(Chunk)
  BY <1>1, RequestFacts
<1>3. dw \in DwType /\ dw.off <= Len(dw.src)
  BY DEF IInv, DataOK
<1>4. /\ w \in DwType /\ w.state = "suspended" /\ w.off = 0 /\ w.src = Source /\ ~w.full
      /\ w.off <= Len(w.src)
  <2>1. /\ w \in DwType /\ w.state = "suspended" /\ w.off = 0 /\ w.src = Source /\ ~w.full
    BY <1>2, <1>3 DEF DwType
  <2> QED
    BY <1>2, <2>1
<1> HIDE DEF w
<1>5. /\ atEnd' \in BOOLEAN /\ resp' \in ReplyType /\ resp'.of <= req
      /\ \/ resp' = resp
         \/ resp'.of = req /\ resp'.code \in {"150", "550"}
      /\ after' = "wait_data" => resp'.of = req /\ resp'.code = "150" /\ IsConnected /\ dw' = w
      /\ after' \in {after, "wait_data"}
  <2>1. "550" \in Codes /\ "150" \in Codes /\ TRUE \in BOOLEAN /\ req <= req
    BY DEF Codes, IInv, ControlOK
  <2>2. PrepareResponse("550", TRUE) =>
            resp' \in ReplyType /\ resp'.of = req /\ resp'.code = "550" /\ atEnd' \in BOOLEAN
                       /\ resp'.of <= req
    BY <2>1, PrepareFacts
  <2>3. PrepareResponse("150", TRUE) =>
            resp' \in ReplyType /\ resp'.of = req /\ resp'.code = "150" /\ atEnd' \in BOOLEAN
                       /\ resp'.of <= req
    BY <2>1, PrepareFacts
  <2>4. atEnd \in BOOLEAN /\ resp \in ReplyType /\ resp.of <= req
    BY DEF IInv, ControlOK
  <2> QED
    BY <1>1, <1>2, <2>2, <2>3, <2>4, Zenon
<1>6. RepliesFit' /\ RepliesMatch' /\ Fresh'
  <2>1. \/ resp' = resp /\ Command.verb \in Transfer
        \/ /\ resp'.of = req /\ resp'.code \in Codes /\ resp'.code # "226" /\ resp' \in ReplyType
    BY <1>1, <1>5 DEF Transfer, Codes
  <2> QED
    BY <1>1, <2>1, Answered
<1>7. dw' \in DwType /\ dw'.off <= Len(dw'.src) /\ dw'.state # "running"
  BY <1>1, <1>2, <1>3, <1>4
<1>8. DataOK' /\ TimesOK'
  BY <1>1, <1>2, <1>7 DEF IInv, DataOK, TimesOK, dataConn
<1>9. MovesFit' /\ TimesFit'
  BY <1>1, <1>2, <1>7 DEF IInv, MovesFit, TimesFit, Ready, IsConnected, dataConn
<1>10. ControlOK'
  BY <1>1, <1>2, <1>5 DEF IInv, ControlOK
<1>11. StepsFit'
  BY <1>1, <1>2, <1>4, <1>5, <1>6, <1>7
     DEF StepsFit, Replying, Live, Opening, IsConnected, dataConn
<1> QED
  BY <1>6, <1>8, <1>9, <1>10, <1>11 DEF IInv

\* Requests to upload.
LEMMA UploadStep ==
    ASSUME IInv, HandleStor
    PROVE  IInv'
<1> DEFINE r == [NoDataReader EXCEPT !.on = TRUE]
<1>1. /\ step = "handle_request" /\ step' = "send_response" /\ Command.verb = "stor"
      /\ UNCHANGED <<req, writer, reader, ctl, replies, dataConn, dw, reqs, chunks,
                     connTime, readTime, quiet, faults>>
      /\ io' = Command.file /\ store' = [store EXCEPT ![Command.file] = <<>>]
      /\ \/ PrepareResponse("451", TRUE) /\ after' = after /\ dr' = dr
         \/ /\ IsConnected /\ PrepareResponse("150", TRUE) /\ after' = "receive_file" /\ dr' = r
            /\ Command.file # NoFile
         \/ resp' = resp /\ atEnd' = atEnd /\ after' = after /\ dr' = dr
  BY DEF HandleStor, Handle, control, client, times, clocks, moves
<1>2. /\ after = "none" /\ ~listening /\ ~dr.on /\ dw.state # "running" /\ reader /\ ~writer.on
      /\ Command.file \in Files \cup {NoFile}
      /\ Command.file \in Files <=> Command.file # NoFile
  BY <1>1, RequestFacts
<1>3. dr \in DrType
  BY DEF IInv, DataOK
<1>4. r \in DrType /\ r.on = TRUE /\ r.buf = <<>> /\ r.time = 0
  BY RecordFacts DEF DrType
<1> HIDE DEF r
<1>5. /\ atEnd' \in BOOLEAN /\ resp' \in ReplyType /\ resp'.of <= req
      /\ \/ resp' = resp
         \/ resp'.of = req /\ resp'.code \in {"150", "451"}
      /\ \/ after' = after /\ dr' = dr
         \/ /\ resp'.of = req /\ resp'.code = "150" /\ IsConnected /\ dr' = r
            /\ Command.file \in Files /\ after' = "receive_file"
  <2>1. "451" \in Codes /\ "150" \in Codes /\ TRUE \in BOOLEAN /\ req <= req
    BY DEF Codes, IInv, ControlOK
  <2>2. PrepareResponse("451", TRUE) =>
            resp' \in ReplyType /\ resp'.of = req /\ resp'.code = "451" /\ atEnd' \in BOOLEAN
                       /\ resp'.of <= req
    BY <2>1, PrepareFacts
  <2>3. PrepareResponse("150", TRUE) =>
            resp' \in ReplyType /\ resp'.of = req /\ resp'.code = "150" /\ atEnd' \in BOOLEAN
                       /\ resp'.of <= req
    BY <2>1, PrepareFacts
  <2>4. atEnd \in BOOLEAN /\ resp \in ReplyType /\ resp.of <= req
    BY DEF IInv, ControlOK
  <2> QED
    BY <1>1, <1>2, <2>2, <2>3, <2>4, Zenon
<1>6. RepliesFit' /\ RepliesMatch' /\ Fresh'
  <2>1. \/ resp' = resp /\ Command.verb \in Transfer
        \/ /\ resp'.of = req /\ resp'.code \in Codes /\ resp'.code # "226" /\ resp' \in ReplyType
    BY <1>1, <1>5 DEF Transfer, Codes
  <2> QED
    BY <1>1, <2>1, Answered
<1>7. /\ store' \in [Files -> Seq(Chunk)]
      /\ Command.file \in Files => store'[Command.file] = <<>>
  BY <1>1, ChunkFacts DEF IInv, DataOK
<1>8. DataOK' /\ TimesOK'
  <2>1. dr' \in DrType
    BY <1>3, <1>4, <1>5
  <2> QED
    BY <1>1, <1>2, <1>7, <2>1 DEF IInv, DataOK, TimesOK, dataConn
<1>9. UNCHANGED <<data, listening, peer, up, down, sent, wrote>>
  BY <1>1 DEF dataConn
<1>10. MovesFit'
  <2>1. CASE dr' = dr
    BY <1>1, <1>2, <1>9, <2>1 DEF IInv, MovesFit, Ready, IsConnected
  <2>2. CASE dr' = r /\ IsConnected /\ Command.file \in Files
    <3>1. IsConnected' /\ Ready /\ (peer # "lost" => up = sent) /\ up \in Seq(Chunk)
      BY <1>2, <1>9, <2>2 DEF IInv, MovesFit, Ready, IsConnected, DataOK
    <3>2. store'[io'] = <<>> /\ dr'.buf = <<>>
      BY <1>1, <1>4, <1>7, <2>2
    <3>3. (<<>> \o <<>>) \o up = up
      BY <3>1
    <3>4. (store'[io'] \o dr'.buf) \o up' = up
      BY <1>9, <3>2, <3>3
    <3> QED
      BY <1>1, <1>2, <1>4, <1>9, <2>2, <3>1, <3>4 DEF IInv, MovesFit
  <2> QED
    BY <1>5, <2>1, <2>2
<1>11. TimesFit'
  BY <1>1, <1>2, <1>4, <1>5 DEF TimesFit
<1>12. ControlOK'
  BY <1>1, <1>2, <1>5 DEF IInv, ControlOK
<1>13. StepsFit'
  BY <1>1, <1>2, <1>4, <1>5, <1>6, <1>9
     DEF StepsFit, Replying, Live, Opening, IsConnected
<1> QED
  BY <1>6, <1>8, <1>10, <1>11, <1>12, <1>13 DEF IInv

\* The reply to a request to connect, when the client has been reached.
LEMMA ConnectedStep ==
    ASSUME IInv, Connected
    PROVE  IInv'
<1>1. /\ step = "wait_connect" /\ step' = "send_response"
      /\ data' = [data EXCEPT !.state = "open"]
      /\ PrepareResponse("200", TRUE) /\ connTime' = 0
      /\ UNCHANGED <<after, req, writer, reader, ctl, replies, listening, peer, up, down, sent,
                     wrote, dr, dw, io, store, reqs, chunks, readTime, quiet, faults>>
  BY DEF Connected, control, disk, client, clocks, moves
<1>2. resp' \in ReplyType /\ resp'.of = req /\ resp'.code = "200" /\ atEnd' \in BOOLEAN
  <2>1. "200" \in Codes /\ TRUE \in BOOLEAN
    BY DEF Codes
  <2> QED
    BY <1>1, <2>1, PrepareFacts
<1>3. /\ after = "none" /\ ~listening /\ ~dr.on /\ dw.state # "running" /\ reader /\ ~writer.on
      /\ IsConnected
  BY <1>1 DEF IInv, StepsFit, Live, Replying, ControlOK, WriterType
<1>4. RepliesFit' /\ RepliesMatch'
  <2>1. "200" \in Codes
    BY DEF Codes
  <2> QED
    BY <1>1, <1>2, <2>1, Answered
<1>5. data' \in DataType /\ data'.state = "open"
  BY <1>1 DEF IInv, DataOK, DataType
<1>6. DataOK'
  BY <1>1, <1>5 DEF IInv, DataOK
<1>7. TimesOK'
  <2>1. 0 \in 0 .. Timeout - 1
    BY ChunkFacts
  <2> QED
    BY <1>1, <2>1 DEF IInv, TimesOK
<1>8. MovesFit' /\ TimesFit'
  BY <1>1, <1>3, <1>5 DEF IInv, MovesFit, TimesFit, Ready, IsConnected
<1>9. ControlOK'
  <2>1. req <= req
    BY DEF IInv, ControlOK
  <2> QED
    BY <1>1, <1>2, <2>1 DEF IInv, ControlOK
<1>10. StepsFit'
  BY <1>1, <1>3, <1>5 DEF StepsFit, Replying, Live
<1> QED
  BY <1>4, <1>6, <1>7, <1>8, <1>9, <1>10 DEF IInv

\* The client has been accepted.
LEMMA AcceptStep ==
    ASSUME IInv, Accept
    PROVE  IInv'
<1>1. /\ step = "wait_accept" /\ step' = "read_request" /\ listening' = FALSE
      /\ data' = [kind |-> "server", state |-> "open"]
      /\ UNCHANGED <<after, resp, atEnd, req, writer, reader, ctl, replies, peer, up, down, sent,
                     wrote, dr, dw, io, store, reqs, chunks, connTime, readTime, quiet, faults>>
  BY DEF Accept, control, disk, client, times, clocks, moves
<1>2. /\ after = "none" /\ listening /\ ~dr.on /\ dw.state # "running" /\ reader /\ ~writer.on
  BY <1>1 DEF IInv, StepsFit, Live, Replying, ControlOK, WriterType
<1>3. data' \in DataType /\ data'.state = "open"
  BY <1>1 DEF DataType
<1>4. DataOK' /\ TimesOK' /\ ControlOK'
  BY <1>1, <1>3 DEF IInv, DataOK, TimesOK, ControlOK
<1>5. MovesFit' /\ TimesFit'
  BY <1>1, <1>2, <1>3 DEF IInv, MovesFit, TimesFit, Ready, IsConnected
<1>6. StepsFit'
  BY <1>1, <1>2 DEF StepsFit, Replying, Live
<1>7. RepliesMatch'
  BY <1>1, MatchKept
<1>8. RepliesFit'
  BY <1>1, <1>2 DEF IInv, RepliesFit, Replying
<1> QED
  BY <1>4, <1>5, <1>6, <1>7, <1>8 DEF IInv

\* The writer of a reply and the reader of requests start, and a request is
\* read.
LEMMA TurnStep ==
    ASSUME IInv, SendResponse \/ ReadRequest \/ GotRequest
    PROVE  IInv'
<1>1. /\ UNCHANGED <<after, resp, ctl, replies, dataConn, dr, dw, io, store, reqs, chunks,
                     connTime, readTime, quiet, faults>>
      /\ \/ /\ step = "send_response" /\ step' = "wait_response"
            /\ writer' = [on |-> TRUE, buf |-> NoReply] /\ atEnd' = FALSE
            /\ reader' = reader /\ req' = req
         \/ /\ step = "read_request" /\ step' = "wait_request" /\ reader' = TRUE
            /\ UNCHANGED <<writer, atEnd, req>>
         \/ /\ step = "wait_request" /\ step' = "handle_request" /\ req < Len(reqs)
            /\ req' = req + 1
            /\ UNCHANGED <<writer, atEnd, reader>>
  BY DEF SendResponse, ReadRequest, GotRequest, control, disk, client, times, clocks, moves
<1>2. UNCHANGED <<data, listening, peer, up, down, sent, wrote>>
  BY <1>1 DEF dataConn
<1>3. /\ req \in Nat /\ resp.of \in Nat /\ resp.of <= req /\ Len(reqs) \in Nat
      /\ writer \in WriterType /\ replies \in Seq(SentType)
      /\ \A i \in 1 .. Len(replies) : replies[i].to \in Nat /\ replies[i].to <= req
  <2>1. replies \in Seq(SentType)
    BY DEF IInv, ControlOK
  <2>2. ASSUME NEW i \in 1 .. Len(replies)
        PROVE  replies[i].to \in Nat
    <3>1. replies[i] \in SentType
      BY <2>1
    <3> QED
      BY <3>1 DEF SentType
  <2> QED
    BY <2>1, <2>2 DEF IInv, ControlOK, RepliesFit, ReplyType
<1>4. RepliesMatch'
  BY <1>1, MatchKept DEF RepliesMatch
<1>5. DataOK' /\ TimesOK'
  BY <1>1, <1>2 DEF IInv, DataOK, TimesOK
<1>6. CASE /\ step = "send_response" /\ step' = "wait_response"
           /\ writer' = [on |-> TRUE, buf |-> NoReply] /\ atEnd' = FALSE
           /\ reader' = reader /\ req' = req
  <2>1. writer' \in WriterType /\ writer'.on = TRUE /\ writer'.buf = NoReply
    BY <1>6, RecordFacts DEF WriterType
  <2>2. ControlOK'
    BY <1>1, <1>6, <2>1 DEF IInv, ControlOK
  <2>3. Opening' = Opening
    BY <1>1, <1>6 DEF Opening, Fresh
  <2>4. StepsFit'
    BY <1>1, <1>2, <1>6, <2>1, <2>3 DEF IInv, StepsFit, Replying, Live, IsConnected
  <2>5. MovesFit' /\ TimesFit'
    BY <1>1, <1>2, <1>6 DEF IInv, MovesFit, TimesFit, Ready, IsConnected
  <2>6. RepliesFit'
    BY <1>1, <1>6, <2>1, RecordFacts DEF IInv, RepliesFit, Replying, Fresh, Begun, Command
  <2> QED
    BY <1>4, <1>5, <2>2, <2>4, <2>5, <2>6 DEF IInv
<1>7. CASE /\ step = "read_request" /\ step' = "wait_request" /\ reader' = TRUE
           /\ UNCHANGED <<writer, atEnd, req>>
  <2>1. ControlOK'
    BY <1>1, <1>7 DEF IInv, ControlOK
  <2>2. after = "none" /\ ~dr.on /\ dw.state # "running" /\ ~listening /\ ~writer.on
    BY <1>7 DEF IInv, StepsFit, Live, Replying, ControlOK, WriterType
  <2>3. StepsFit'
    BY <1>1, <1>2, <1>7, <2>2 DEF IInv, StepsFit, Replying, Live
  <2>4. MovesFit' /\ TimesFit'
    BY <1>1, <1>2, <2>2 DEF IInv, MovesFit, TimesFit, Ready, IsConnected
  <2>5. RepliesFit'
    BY <1>1, <1>7, <2>2 DEF IInv, RepliesFit, Replying
  <2> QED
    BY <1>4, <1>5, <2>1, <2>3, <2>4, <2>5 DEF IInv
<1>8. CASE /\ step = "wait_request" /\ step' = "handle_request" /\ req < Len(reqs)
           /\ req' = req + 1
           /\ UNCHANGED <<writer, atEnd, reader>>
  <2>1. ControlOK'
    BY <1>1, <1>3, <1>8 DEF IInv, ControlOK
  <2>2. after = "none" /\ ~dr.on /\ dw.state # "running" /\ ~listening /\ ~writer.on /\ reader
    BY <1>8 DEF IInv, StepsFit, Live, Replying, ControlOK, WriterType
  <2>3. StepsFit'
    BY <1>1, <1>2, <1>8, <2>2 DEF IInv, StepsFit, Replying, Live
  <2>4. MovesFit' /\ TimesFit'
    BY <1>1, <1>2, <2>2 DEF IInv, MovesFit, TimesFit, Ready, IsConnected
  <2>5. Fresh' /\ resp.of < req' /\ \A i \in 1 .. Len(replies) : replies[i].to <= req'
    BY <1>1, <1>3, <1>8 DEF Fresh
  <2>6. RepliesFit'
    BY <1>1, <1>8, <2>2, <2>5 DEF IInv, RepliesFit, Replying
  <2> QED
    BY <1>4, <1>5, <2>1, <2>3, <2>4, <2>6 DEF IInv
<1> QED
  BY <1>1, <1>6, <1>7, <1>8

----------------------------------------------------------------------------
\* The reply that is sent is one to the request that was read last, or to
\* the request before a request to transfer; and it is the first one, or the
\* one that ends the transfer.
LEMMA SentFacts ==
    ASSUME IInv, writer.on, writer.buf # NoReply, req' = req, reqs' = reqs,
           \/ replies' = replies
           \/ replies' = Append(replies, Reply(writer.buf))
    PROVE  /\ replies' \in Seq(SentType) /\ RepliesMatch'
           /\ \A i \in 1 .. Len(replies') : replies'[i].to <= req
           /\ Fresh /\ writer.buf.of = req /\ writer.buf.code = "150" => Begun'
<1>1. /\ replies \in Seq(SentType) /\ Len(replies) \in Nat /\ req \in Nat
      /\ writer.buf \in ReplyType /\ resp \in ReplyType /\ resp.of <= req
      /\ RepliesMatch /\ \A i \in 1 .. Len(replies) : replies[i].to <= req
  BY DEF IInv, ControlOK, WriterType, RepliesFit
<1>2. CASE replies' = replies
  <2>1. RepliesMatch'
    BY <1>2, MatchKept
  <2>2. Fresh => Begun'
    BY <1>2 DEF Fresh, Begun
  <2> QED
    BY <1>1, <1>2, <2>1, <2>2
<1>3. CASE replies' = Append(replies, Reply(writer.buf))
  <2> DEFINE r == Reply(writer.buf)
             n == Len(replies) + 1
  <2>1. /\ r \in SentType /\ r.of = writer.buf.of /\ r.to = req /\ r.code = writer.buf.code
        /\ r.sound = writer.buf.sound
    BY <1>1 DEF Reply, ReplyType, SentType
  <2>2. replies' = Append(replies, r)
    BY <1>3
  <2> HIDE DEF r
  <2>3. /\ replies' \in Seq(SentType) /\ Len(replies') = n /\ replies'[n] = r
        /\ DOMAIN replies' = 1 .. n /\ DOMAIN replies = 1 .. Len(replies)
        /\ \A i \in 1 .. Len(replies) : replies'[i] = replies[i]
    BY <1>1, <2>1, <2>2, AppendProperties
  <2>4. Replying
    BY DEF IInv, StepsFit
  <2>5. /\ r.code = "226" => r.sound
        /\ r.of = r.to \/ (r.of < r.to /\ reqs[r.to].verb \in Transfer)
        /\ \/ Fresh
           \/ Begun /\ r.of = req /\ r.code = "226"
    <3>1. r.of \in Nat
      BY <2>1 DEF SentType
    <3>2. resp.of \in Nat
      BY <1>1 DEF ReplyType
    <3>3. CASE writer.buf = resp
      BY <1>1, <2>1, <2>4, <3>1, <3>2, <3>3 DEF IInv, RepliesFit, Command
    <3>4. CASE writer.buf.of = req /\ writer.buf.code = "150" /\ Fresh
      BY <1>1, <2>1, <3>4
    <3> QED
      BY <3>3, <3>4 DEF IInv, RepliesFit
  <2>6. \A i \in 1 .. n : i = n \/ i \in 1 .. Len(replies)
    BY <1>1
  <2>7. \A i \in 1 .. Len(replies') : replies'[i].to <= req
    BY <1>1, <2>1, <2>3, <2>6
  <2>8. RepliesMatch'
    <3>1. ASSUME NEW i \in 1 .. n
          PROVE  /\ replies'[i].code = "226" => replies'[i].sound
                 /\ \/ replies'[i].of = replies'[i].to
                    \/ /\ replies'[i].of < replies'[i].to
                       /\ reqs[replies'[i].to].verb \in Transfer
      <4>1. CASE i = n
        BY <2>1, <2>3, <2>5, <4>1
      <4>2. CASE i \in 1 .. Len(replies)
        BY <1>1, <2>3, <4>2 DEF RepliesMatch
      <4> QED
        BY <2>6, <4>1, <4>2
    <3>2. ASSUME NEW i \in 1 .. n, NEW j \in 1 .. n, i < j
          PROVE  \/ replies'[i].to < replies'[j].to
                 \/ /\ replies'[i].to = replies'[j].to /\ replies'[i].of = replies'[j].of
                    /\ replies'[i].code = "150" /\ replies'[j].code = "226"
      <4>1. i \in 1 .. Len(replies)
        BY <1>1, <3>2
      <4>2. CASE j = n
        BY <2>1, <2>3, <2>5, <4>1, <4>2 DEF Fresh, Begun
      <4>3. CASE j \in 1 .. Len(replies)
        BY <1>1, <2>3, <3>2, <4>1, <4>3 DEF RepliesMatch
      <4> QED
        BY <2>6, <4>2, <4>3
    <3> QED
      BY <2>3, <3>1, <3>2 DEF RepliesMatch
  <2>9. Fresh /\ writer.buf.of = req /\ writer.buf.code = "150" => Begun'
    <3>1. ASSUME Fresh, writer.buf.of = req, writer.buf.code = "150", NEW i \in 1 .. n
          PROVE  \/ replies'[i].to < req
                 \/ replies'[i].to = req /\ replies'[i].of = req /\ replies'[i].code = "150"
      <4>1. CASE i = n
        BY <2>1, <2>3, <3>1, <4>1
      <4>2. CASE i \in 1 .. Len(replies)
        BY <2>3, <3>1, <4>2 DEF Fresh
      <4> QED
        BY <2>6, <4>1, <4>2
    <3> QED
      BY <2>3, <3>1 DEF Begun
  <2> QED
    BY <2>3, <2>7, <2>8, <2>9
<1> QED
  BY <1>2, <1>3

\* The writer of a reply has finished: the session goes on with what the
\* reply opens.
LEMMA FinishStep ==
    ASSUME IInv, writer.on, ~Closing, Finish, ctl' = ctl, atEnd' = atEnd,
           replies' \in Seq(SentType), RepliesMatch',
           \A i \in 1 .. Len(replies') : replies'[i].to <= req,
           Opening => Begun',
           step = "send_response" => \/ replies' = replies
                                     \/ Begun' /\ resp.of = req /\ resp.code = "226"
    PROVE  IInv'
<1>1. /\ writer' = NoWriter
      /\ UNCHANGED <<resp, req, reader, data, listening, peer, up, down, sent, wrote, dr, io,
                     store, reqs, chunks, connTime, readTime, faults>>
      /\ IF step = "wait_response"
         THEN AfterResponse /\ after' = "none" /\ quiet' = 0
         ELSE UNCHANGED <<step, after, dw, quiet>>
  BY DEF Finish, dataConn, disk, client, clocks, moves
<1>2. Replying /\ writer'.on = FALSE /\ writer'.buf = NoReply /\ writer' \in WriterType
  BY <1>1, RecordFacts DEF IInv, StepsFit
<1>3. resp' = resp /\ req' = req /\ Command' = Command
  BY <1>1 DEF Command
<1>4. CASE step = "send_response"
  <2>1. UNCHANGED <<step, after, dw, quiet>>
    BY <1>1, <1>4
  <2>2. ControlOK' /\ DataOK' /\ TimesOK'
    BY <1>1, <1>2, <2>1 DEF IInv, ControlOK, DataOK, TimesOK
  <2>3. MovesFit' /\ TimesFit'
    BY <1>1, <2>1 DEF IInv, MovesFit, TimesFit, Ready, IsConnected
  <2>4. /\ Opening => Opening'
        /\ (Fresh \/ (Begun /\ resp.of = req /\ resp.code = "226"))
              => (Fresh \/ (Begun /\ resp.of = req /\ resp.code = "226"))'
    BY <1>1, <1>4 DEF Opening, Fresh, Begun
  <2>5. StepsFit'
    BY <1>1, <1>2, <1>4, <2>1, <2>4 DEF IInv, StepsFit, Replying, Live, IsConnected
  <2>6. RepliesFit'
    BY <1>1, <1>2, <1>3, <1>4, <2>1, <2>4, RecordFacts DEF IInv, RepliesFit, Replying
  <2> QED
    BY <2>2, <2>3, <2>5, <2>6 DEF IInv
<1>5. CASE step = "wait_response"
  <2>1. /\ step' = CASE after = "wait_data" -> "wait_send"
                     [] after = "wait_accept" -> "wait_accept"
                     [] after = "receive_file" -> "wait_receive"
                     [] OTHER -> "read_request"
        /\ dw' = IF after = "wait_data" THEN [dw EXCEPT !.state = "running"] ELSE dw
        /\ after' = "none" /\ quiet' = 0
    BY <1>1, <1>5 DEF AfterResponse
  <2>2. /\ after \in {"none", "wait_data", "wait_accept", "receive_file"}
        /\ dw \in DwType /\ dw.off <= Len(dw.src) /\ dr.on \in BOOLEAN
    BY <1>5 DEF IInv, ControlOK, Closing, DataOK, DrType
  <2>3. /\ after = "wait_data" <=> step' = "wait_send"
        /\ after = "wait_accept" <=> step' = "wait_accept"
        /\ after = "receive_file" <=> step' = "wait_receive"
        /\ after = "none" <=> step' = "read_request"
        /\ step' \in {"wait_send", "wait_accept", "wait_receive", "read_request"}
    BY <2>1, <2>2
  <2>4. /\ dw' \in DwType /\ dw'.off = dw.off /\ dw'.src = dw.src /\ dw'.full = dw.full
        /\ dw'.time = dw.time
        /\ dw'.state = IF after = "wait_data" THEN "running" ELSE dw.state
    BY <2>1, <2>2 DEF DwType
  <2>5. /\ dw.state # "running"
        /\ listening <=> after = "wait_accept"
        /\ dr.on => after = "receive_file" /\ Opening /\ io \in Files /\ dr.time = 0
        /\ after = "wait_data" => /\ dw.state = "suspended" /\ dw.off = 0 /\ ~dw.full
                                  /\ IsConnected /\ Opening
        /\ ~reader => after = "none" /\ ~dr.on /\ dw.state = "none"
    BY <1>2, <1>5 DEF IInv, StepsFit, Live, TimesFit
  <2>6. ControlOK'
    BY <1>1, <1>2, <2>1, <2>3 DEF IInv, ControlOK
  <2>7. DataOK' /\ TimesOK'
    <3>1. 0 \in 0 .. Timeout
      BY ChunkFacts
    <3> QED
      BY <1>1, <2>1, <2>2, <2>4, <3>1 DEF IInv, DataOK, TimesOK
  <2>8. StepsFit'
    BY <1>1, <1>2, <2>1, <2>3, <2>4, <2>5 DEF StepsFit, Replying, Live
  <2>9. Ready' = Ready /\ IsConnected' = IsConnected
    BY <1>1 DEF Ready, IsConnected
  <2>10. after = "wait_data" => wrote = <<>> /\ down = <<>> /\ Len(wrote) = 0
    BY <2>5 DEF IInv, MovesFit, Ready
  <2>11. MovesFit'
    <3>1. MovesFit /\ io' = io /\ store' = store /\ dr' = dr /\ UNCHANGED <<up, down, sent, wrote, peer>>
      BY <1>1 DEF IInv
    <3>2. CASE after = "wait_data"
      <4>1. /\ dw'.state = "running" /\ dw'.off = 0 /\ ~dw'.full /\ wrote' = <<>> /\ Len(wrote') = 0
        BY <2>4, <2>5, <2>10, <3>1, <3>2
      <4>2. ~dr'.on
        BY <2>5, <3>1, <3>2
      <4>3. /\ dw'.off = IF dw'.full THEN Len(wrote') + 1 ELSE Len(wrote')
            /\ \A i \in 1 .. Len(wrote') : wrote'[i] = dw'.src[i]
        BY <4>1
      <4>4. Ready' /\ peer' # "lost" => up' = sent'
        BY <2>9, <3>1, <4>2 DEF MovesFit
      <4> QED
        BY <4>1, <4>2, <4>3, <4>4 DEF MovesFit
    <3>3. CASE after # "wait_data"
      BY <2>4, <2>5, <2>9, <3>1, <3>3 DEF MovesFit
    <3> QED
      BY <3>2, <3>3
  <2>12. TimesFit'
    BY <1>1, <2>1, <2>3, <2>4, <2>5, <2>10 DEF TimesFit
  <2>13. RepliesFit'
    BY <1>1, <1>2, <1>3, <2>3, <2>4, <2>5, RecordFacts DEF IInv, RepliesFit, Replying
  <2> QED
    BY <2>6, <2>7, <2>8, <2>11, <2>12, <2>13 DEF IInv
<1> QED
  BY <1>2, <1>4, <1>5 DEF Replying

\* The writer of the control connection: the reply is loaded, written, and
\* the last thing that a session does.
LEMMA WriterStep ==
    ASSUME IInv, WriterLoad \/ WriterWrite \/ WriterWriteLast
    PROVE  IInv'
<1>1. CASE WriterLoad /\ atEnd
  <2>1. /\ writer.on /\ writer.buf = NoReply /\ ~Closing /\ Finish /\ atEnd' = atEnd
        /\ ctl' = ctl /\ replies' = replies
    BY <1>1 DEF WriterLoad
  <2>2. reqs' = reqs /\ req' = req
    BY <2>1 DEF Finish, client
  <2>3. RepliesMatch'
    BY <2>1, <2>2, MatchKept
  <2>4. Fresh => Begun'
    BY <2>1, <2>2 DEF Fresh, Begun
  <2>5. /\ replies' \in Seq(SentType)
        /\ \A i \in 1 .. Len(replies') : replies'[i].to <= req
    BY <2>1 DEF IInv, ControlOK, RepliesFit
  <2> QED
    BY <2>1, <2>3, <2>4, <2>5, FinishStep DEF Opening
<1>2. CASE WriterLoad /\ ~atEnd
  <2>1. /\ writer.on /\ writer' = [writer EXCEPT !.buf = resp] /\ atEnd' = TRUE
        /\ UNCHANGED <<step, after, resp, req, reader, ctl, replies, data, listening, peer, up,
                       down, sent, wrote, dr, dw, io, store, reqs, chunks, connTime, readTime,
                       quiet, faults>>
    BY <1>2 DEF WriterLoad, dataConn, disk, client, times, clocks, moves
  <2>2. writer' \in WriterType /\ writer'.on = TRUE /\ writer'.buf = resp
    BY <2>1 DEF IInv, ControlOK, WriterType
  <2>3. step = "wait_response"
    BY <1>2, <2>1 DEF IInv, StepsFit, RepliesFit, Replying
  <2>4. ControlOK' /\ DataOK' /\ TimesOK'
    BY <2>1, <2>2 DEF IInv, ControlOK, DataOK, TimesOK
  <2>5. MovesFit' /\ TimesFit'
    BY <2>1 DEF IInv, MovesFit, TimesFit, Ready, IsConnected
  <2>6. Fresh' = Fresh /\ Begun' = Begun /\ Opening' = Opening /\ Command' = Command
    BY <2>1 DEF Fresh, Begun, Opening, Command
  <2>7. StepsFit'
    BY <2>1, <2>2, <2>3, <2>6 DEF IInv, StepsFit, Replying, Live, IsConnected
  <2>8. RepliesFit'
    BY <2>1, <2>2, <2>3, <2>6 DEF IInv, RepliesFit, Replying
  <2>9. RepliesMatch'
    BY <2>1, MatchKept
  <2> QED
    BY <2>4, <2>5, <2>7, <2>8, <2>9 DEF IInv
<1>3. CASE WriterWrite
  <2>1. /\ writer.on /\ writer.buf # NoReply /\ ~Closing /\ Finish /\ atEnd' = atEnd
        /\ ctl' = ctl
        /\ \/ replies' = replies
           \/ replies' = Append(replies, Reply(writer.buf))
    BY <1>3 DEF WriterWrite
  <2>2. reqs' = reqs /\ req' = req
    BY <2>1 DEF Finish, client
  <2>3. /\ replies' \in Seq(SentType) /\ RepliesMatch'
        /\ \A i \in 1 .. Len(replies') : replies'[i].to <= req
        /\ Fresh /\ writer.buf.of = req /\ writer.buf.code = "150" => Begun'
    BY <2>1, <2>2, SentFacts
  <2>4. \/ writer.buf = resp /\ step = "wait_response"
        \/ /\ writer.buf.of = req /\ writer.buf.code = "150"
           /\ Fresh /\ resp.code = "226" /\ resp.of = req
    BY <2>1 DEF IInv, RepliesFit
  <2>5. Opening => Begun'
    BY <2>3, <2>4 DEF Opening
  <2>6. step = "send_response" => Begun' /\ resp.of = req /\ resp.code = "226"
    BY <2>3, <2>4
  <2> QED
    BY <2>1, <2>3, <2>5, <2>6, FinishStep
<1>4. CASE WriterWriteLast
  <2>1. /\ writer.on /\ writer.buf # NoReply /\ Stop
        /\ \/ replies' = replies
           \/ replies' = Append(replies, Reply(writer.buf))
    BY <1>4 DEF WriterWriteLast
  <2>2. reqs' = reqs /\ req' = req
    BY <2>1 DEF Stop, client
  <2>3. /\ replies' \in Seq(SentType) /\ RepliesMatch'
        /\ \A i \in 1 .. Len(replies') : replies'[i].to <= req
    BY <2>1, <2>2, SentFacts
  <2> QED
    BY <2>1, <2>3, Stopped
<1> QED
  BY <1>1, <1>2, <1>3, <1>4

----------------------------------------------------------------------------
\* While the data writer runs the session waits for it.
LEMMA SendingFacts ==
    ASSUME IInv, dw.state = "running"
    PROVE  /\ step = "wait_send" /\ after = "none" /\ ~listening /\ ~dr.on /\ reader
           /\ ~writer.on /\ Begun /\ Live /\ ~Replying
           /\ dw \in DwType /\ dw.off \in Nat /\ dw.off <= Len(dw.src) /\ dw.src \in Seq(Chunk)
           /\ Len(dw.src) \in Nat /\ wrote \in Seq(Chunk) /\ Len(wrote) \in Nat
           /\ dw.off = IF dw.full THEN Len(wrote) + 1 ELSE Len(wrote)
           /\ \A i \in 1 .. Len(wrote) : wrote[i] = dw.src[i]
<1>1. step = "wait_send"
  BY DEF IInv, StepsFit
<1>2. Live /\ ~Replying
  BY <1>1 DEF Live, Replying
<1>3. /\ after = "none" /\ ~listening /\ ~dr.on /\ reader /\ ~writer.on /\ Begun
  BY <1>1, <1>2 DEF IInv, StepsFit, RepliesFit, ControlOK, DataOK, DrType, WriterType
<1>4. /\ dw \in DwType /\ dw.off \in Nat /\ dw.off <= Len(dw.src) /\ dw.src \in Seq(Chunk)
      /\ Len(dw.src) \in Nat /\ wrote \in Seq(Chunk) /\ Len(wrote) \in Nat
  BY DEF IInv, DataOK, DwType
<1>5. /\ dw.off = IF dw.full THEN Len(wrote) + 1 ELSE Len(wrote)
      /\ \A i \in 1 .. Len(wrote) : wrote[i] = dw.src[i]
  BY DEF IInv, MovesFit
<1> QED
  BY <1>1, <1>2, <1>3, <1>4, <1>5

\* A download is complete when all of its source has been written.
LEMMA CompleteStep ==
    ASSUME IInv, dw.state = "running", NEW w \in DwType, w.off <= Len(w.src), FinishData(w),
           wrote' \in Seq(Chunk), wrote' = dw.src, quiet' \in {quiet, 0},
           UNCHANGED <<writer, reader, ctl, replies, listening, sent, dr, store, reqs, chunks,
                       connTime, readTime, faults>>
    PROVE  IInv'
<1>1. /\ step' = "send_response" /\ after' = after /\ req' = req
      /\ dw' = [w EXCEPT !.state = "suspended"]
      /\ PrepareResponse("226", wrote' = dw.src)
      /\ data' = [data EXCEPT !.state = "closed"]
      /\ peer' = "none" /\ up' = <<>> /\ down' = <<>> /\ io' = NoFile
  BY DEF FinishData, CloseDataSocket
<1>2. /\ resp' \in ReplyType /\ resp'.of = req /\ resp'.code = "226" /\ resp'.sound = TRUE
      /\ atEnd' \in BOOLEAN
  <2>1. "226" \in Codes /\ TRUE \in BOOLEAN /\ (wrote' = dw.src) = TRUE
    BY DEF Codes
  <2>2. PrepareResponse("226", TRUE)
    BY <1>1, <2>1 DEF PrepareResponse
  <2> QED
    BY <2>1, <2>2, PrepareFacts
<1>3. /\ step = "wait_send" /\ after = "none" /\ ~listening /\ ~dr.on /\ reader
      /\ ~writer.on /\ Begun
  BY SendingFacts
<1>4. dw' \in DwType /\ dw'.state = "suspended" /\ dw'.off = w.off /\ dw'.src = w.src
  BY <1>1 DEF DwType
<1>5. data' \in DataType /\ data'.state = "closed"
  BY <1>1 DEF IInv, DataOK, DataType
<1>6. DataOK' /\ TimesOK'
  <2>1. Len(down') = 0 /\ 0 \in 0 .. Timeout /\ up' \in Seq(Chunk) /\ down' \in Seq(Chunk)
    BY <1>1, ChunkFacts
  <2>2. dw' \in DwType /\ dw'.off <= Len(dw'.src)
    BY <1>4
  <2> QED
    BY <1>1, <1>5, <2>1, <2>2 DEF IInv, DataOK, TimesOK
<1>7. ControlOK'
  <2>1. req <= req
    BY DEF IInv, ControlOK
  <2> QED
    BY <1>1, <1>2, <2>1 DEF IInv, ControlOK
<1>8. MovesFit' /\ TimesFit'
  BY <1>3, <1>4, <1>5 DEF MovesFit, TimesFit, Ready, IsConnected
<1>9. StepsFit'
  BY <1>1, <1>3, <1>4 DEF StepsFit, Replying, Live
<1>10. Begun' /\ RepliesMatch'
  BY <1>1, <1>3, MatchKept DEF Begun
<1>11. RepliesFit'
  <2>1. req \in Nat
    BY DEF IInv, ControlOK
  <2> QED
    BY <1>1, <1>2, <1>3, <1>10, <2>1 DEF IInv, RepliesFit, Replying
<1> QED
  BY <1>6, <1>7, <1>8, <1>9, <1>10, <1>11 DEF IInv

\* A chunk is read from the file.
LEMMA LoadStep ==
    ASSUME IInv, DataWriterLoad
    PROVE  IInv'
<1>1. /\ dw.state = "running" /\ ~dw.full /\ wrote' = wrote
      /\ UNCHANGED <<writer, reader, ctl, replies, listening, sent, dr, store, reqs, chunks,
                     connTime, readTime, quiet, faults>>
      /\ IF dw.off = Len(dw.src) THEN FinishData(dw)
         ELSE Proceed([dw EXCEPT !.off = @ + 1, !.full = TRUE], down)
  BY DEF DataWriterLoad, control, client, times, clocks, moves
<1>2. /\ step = "wait_send" /\ after = "none" /\ ~listening /\ ~dr.on
      /\ dw \in DwType /\ dw.off \in Nat /\ dw.off <= Len(dw.src) /\ dw.src \in Seq(Chunk)
      /\ Len(dw.src) \in Nat /\ wrote \in Seq(Chunk) /\ Len(wrote) \in Nat
      /\ dw.off = Len(wrote)
      /\ \A i \in 1 .. Len(wrote) : wrote[i] = dw.src[i]
  BY <1>1, SendingFacts
<1>3. CASE dw.off = Len(dw.src)
  <2>1. wrote' = dw.src
    BY <1>1, <1>2, <1>3, SeqEqual
  <2>2. wrote' \in Seq(Chunk) /\ quiet' \in {quiet, 0} /\ FinishData(dw)
    BY <1>1, <1>2, <1>3
  <2> QED
    BY <1>1, <1>2, <2>1, <2>2, CompleteStep
<1>4. CASE dw.off # Len(dw.src)
  <2> DEFINE w == [dw EXCEPT !.off = @ + 1, !.full = TRUE]
  <2>1. /\ w \in DwType /\ w.off = dw.off + 1 /\ w.full = TRUE /\ w.state = dw.state
        /\ w.src = dw.src /\ w.time = dw.time
    <3>1. dw.off + 1 \in Nat /\ dw \in DwType
      BY <1>2
    <3> QED
      BY <3>1 DEF DwType
  <2>2. Proceed(w, down)
    BY <1>1, <1>4
  <2> HIDE DEF w
  <2>3. /\ dw' = w /\ down' = down
        /\ UNCHANGED <<step, after, resp, atEnd, req, data, peer, up, io>>
    BY <2>1, <2>2 DEF Proceed, IsComplete, session
  <2>4. StepsFit' /\ RepliesFit' /\ RepliesMatch'
    BY <1>1, <1>2, <2>1, <2>3, SameSession
  <2>5. w.off <= Len(w.src)
    BY <1>2, <1>4, <2>1
  <2>6. ControlOK' /\ DataOK' /\ TimesOK'
    BY <1>1, <2>1, <2>3, <2>5 DEF IInv, ControlOK, DataOK, TimesOK
  <2>7. MovesFit'
    <3>1. Ready' = Ready /\ IsConnected' = IsConnected
      BY <1>1, <2>3 DEF Ready, IsConnected
    <3>2. /\ dw'.off = IF dw'.full THEN Len(wrote') + 1 ELSE Len(wrote')
          /\ \A i \in 1 .. Len(wrote') : wrote'[i] = dw'.src[i]
      BY <1>1, <1>2, <2>1, <2>3
    <3> QED
      BY <1>1, <1>2, <2>1, <2>3, <3>1, <3>2 DEF IInv, MovesFit
  <2>8. TimesFit'
    BY <1>1, <1>2, <2>1, <2>3 DEF IInv, TimesFit
  <2> QED
    BY <2>4, <2>6, <2>7, <2>8 DEF IInv
<1> QED
  BY <1>3, <1>4

\* A chunk is written to the data connection.
LEMMA WriteStep ==
    ASSUME IInv, DataWriterWrite
    PROVE  IInv'
<1> DEFINE w == [dw EXCEPT !.full = FALSE, !.time = 0]
           x == dw.src[dw.off]
<1>1. /\ dw.state = "running" /\ dw.full /\ wrote' = Append(wrote, x) /\ quiet' = 0
      /\ UNCHANGED <<writer, reader, ctl, replies, listening, sent, dr, store, reqs, chunks,
                     connTime, readTime, faults>>
      /\ Proceed(w, IF peer = "fin" THEN down ELSE <<x>>)
  BY DEF DataWriterWrite, control, client, clocks
<1>2. /\ step = "wait_send" /\ after = "none" /\ ~listening /\ ~dr.on
      /\ dw \in DwType /\ dw.off \in Nat /\ dw.off <= Len(dw.src) /\ dw.src \in Seq(Chunk)
      /\ Len(dw.src) \in Nat /\ wrote \in Seq(Chunk) /\ Len(wrote) \in Nat
      /\ dw.off = Len(wrote) + 1
      /\ \A i \in 1 .. Len(wrote) : wrote[i] = dw.src[i]
  BY <1>1, SendingFacts
<1>3. 0 \in 0 .. Timeout - 1 /\ 0 \in 0 .. Timeout
  BY ChunkFacts
<1>4. /\ w \in DwType /\ w.off = dw.off /\ w.full = FALSE /\ w.state = dw.state
      /\ w.src = dw.src /\ w.time = 0
  BY <1>2, <1>3 DEF DwType
<1>5. x \in Chunk /\ dw.off \in 1 .. Len(dw.src)
  BY <1>2
<1>6. /\ wrote' \in Seq(Chunk) /\ Len(wrote') = dw.off /\ wrote'[dw.off] = x /\ wrote' # <<>>
      /\ \A i \in 1 .. Len(wrote) : wrote'[i] = wrote[i]
  BY <1>1, <1>2, <1>5, AppendProperties
<1>7. \A i \in 1 .. Len(wrote') : wrote'[i] = dw.src[i]
  <2>1. \A i \in 1 .. Len(wrote') : i = dw.off \/ i \in 1 .. Len(wrote)
    BY <1>2, <1>6
  <2> QED
    BY <1>2, <1>6, <2>1
<1> HIDE DEF w
<1>8. CASE IsComplete(w)
  <2>1. FinishData(w) /\ Len(wrote') = Len(dw.src)
    BY <1>1, <1>4, <1>6, <1>8 DEF Proceed, IsComplete
  <2>2. wrote' = dw.src
    BY <1>2, <1>6, <1>7, <2>1, SeqEqual
  <2>3. quiet' \in {quiet, 0} /\ w.off <= Len(w.src)
    BY <1>1, <1>2, <1>4
  <2> QED
    BY <1>1, <1>4, <1>6, <2>1, <2>2, <2>3, CompleteStep
<1>9. CASE ~IsComplete(w)
  <2>1. /\ dw' = w /\ down' = IF peer = "fin" THEN down ELSE <<x>>
        /\ UNCHANGED <<step, after, resp, atEnd, req, data, peer, up, io>>
    BY <1>1, <1>9 DEF Proceed, session
  <2>2. StepsFit' /\ RepliesFit' /\ RepliesMatch'
    BY <1>1, <1>2, <1>4, <2>1, SameSession
  <2>3. down' \in Seq(Chunk) /\ Len(down') <= 1
    <3>1. <<x>> \in Seq(Chunk) /\ Len(<<x>>) = 1
      BY <1>5
    <3> QED
      BY <2>1, <3>1 DEF IInv, DataOK
  <2>4. w.off <= Len(w.src)
    BY <1>2, <1>4
  <2>5. ControlOK' /\ DataOK' /\ TimesOK'
    BY <1>1, <1>3, <1>4, <1>6, <2>1, <2>3, <2>4 DEF IInv, ControlOK, DataOK, TimesOK
  <2>6. MovesFit'
    <3>1. Ready' = Ready /\ IsConnected' = IsConnected
      BY <1>1, <2>1 DEF Ready, IsConnected
    <3>2. /\ dw'.off = IF dw'.full THEN Len(wrote') + 1 ELSE Len(wrote')
          /\ \A i \in 1 .. Len(wrote') : wrote'[i] = dw'.src[i]
      BY <1>4, <1>6, <1>7, <2>1
    <3> QED
      BY <1>1, <1>2, <1>4, <2>1, <3>1, <3>2 DEF IInv, MovesFit
  <2>7. TimesFit'
    BY <1>1, <1>2, <1>4, <1>6, <2>1 DEF TimesFit
  <2> QED
    BY <2>2, <2>5, <2>6, <2>7 DEF IInv
<1> QED
  BY <1>8, <1>9

\* The data writer finds its connection closed, or waited too long, and is
\* gone.
LEMMA WriterGoneStep ==
    ASSUME IInv, DataWriterFail \/ DataWriterStop \/ DataWriterTimeout
    PROVE  IInv'
<1>1. /\ dw.state = "running"
      /\ UNCHANGED <<step, after, resp, atEnd, req, writer, reader, ctl, replies, listening, peer,
                     up, down, sent, wrote, dr, io, store, reqs, chunks, connTime, readTime,
                     quiet, faults>>
      /\ \/ data' = [data EXCEPT !.state = "closed"] /\ dw' \in {dw, NoDataWriter}
         \/ data' = data /\ ~IsConnected /\ dw' = NoDataWriter
  BY DEF DataWriterFail, DataWriterStop, DataWriterTimeout, DataWriterExpires, session, control,
         dataConn, disk, client, times, clocks, moves
<1>2. /\ step = "wait_send" /\ after = "none" /\ ~listening /\ ~dr.on
      /\ dw \in DwType /\ dw.off <= Len(dw.src)
  BY <1>1, SendingFacts
<1>3. data' \in DataType /\ data'.state = "closed"
  BY <1>1 DEF IInv, DataOK, DataType, IsConnected
<1>4. dw' \in DwType /\ dw'.off <= Len(dw'.src)
  <2>1. Len(NoDataWriter.src) = 0
    BY RecordFacts
  <2> QED
    BY <1>1, <1>2, <2>1, RecordFacts
<1>5. StepsFit' /\ RepliesFit' /\ RepliesMatch'
  BY <1>1, <1>2, RecordFacts, SameSession
<1>6. ControlOK' /\ DataOK' /\ TimesOK'
  BY <1>1, <1>3, <1>4 DEF IInv, ControlOK, DataOK, TimesOK
<1>7. MovesFit'
  BY <1>1, <1>2, <1>3, RecordFacts DEF IInv, MovesFit, Ready, IsConnected
<1>8. TimesFit'
  BY <1>1, <1>2, RecordFacts DEF IInv, TimesFit
<1> QED
  BY <1>5, <1>6, <1>7, <1>8 DEF IInv

----------------------------------------------------------------------------
\* While a data reader runs its file is open, and the session waits for it
\* or is still sending the reply that opens the transfer.
LEMMA ReceivingFacts ==
    ASSUME IInv, dr.on
    PROVE  /\ io \in Files /\ Live /\ reader /\ dw.state # "running" /\ ~listening
           /\ \/ step = "wait_receive" /\ after = "none" /\ ~writer.on /\ Begun /\ ~Replying
              \/ /\ Replying /\ step # "wait_receive" /\ after = "receive_file" /\ Opening
           /\ dr \in DrType /\ dr.buf \in Seq(Chunk) /\ up \in Seq(Chunk) /\ sent \in Seq(Chunk)
           /\ store \in [Files -> Seq(Chunk)] /\ store[io] \in Seq(Chunk)
<1>1. /\ io \in Files
      /\ step # "wait_receive" => Replying /\ after = "receive_file" /\ Opening
  BY DEF IInv, StepsFit
<1>2. Live /\ (step = "wait_receive" => ~Replying) /\ step # "wait_send"
  BY <1>1 DEF Live, Replying
<1>3. /\ reader /\ dw.state # "running" /\ ~listening
      /\ step = "wait_receive" => after = "none" /\ ~writer.on /\ Begun
  BY <1>1, <1>2 DEF IInv, StepsFit, RepliesFit, ControlOK, DataOK, DrType, WriterType
<1>4. /\ dr \in DrType /\ dr.buf \in Seq(Chunk) /\ up \in Seq(Chunk) /\ sent \in Seq(Chunk)
      /\ store \in [Files -> Seq(Chunk)] /\ store[io] \in Seq(Chunk)
  BY <1>1 DEF IInv, DataOK, DrType
<1> QED
  BY <1>1, <1>2, <1>3, <1>4

\* What the reader has taken goes to the file, and nothing else changes the
\* files.
LEMMA PutFacts ==
    ASSUME IInv, dr.on, PutDataToDesFile
    PROVE  /\ store' \in [Files -> Seq(Chunk)] /\ store'[io] = store[io] \o dr.buf
           /\ store'[io] \in Seq(Chunk)
<1>1. Listing \in Chunk
  BY DEF Chunk
<1>2. io \in Files /\ store \in [Files -> Seq(Chunk)]
  BY ReceivingFacts
<1>3. PICK s \in Seq(Chunk), b \in Seq(Chunk) : s = store[io] /\ b = dr.buf
  BY ReceivingFacts
<1>4. s \o b \in Seq(Chunk)
  BY <1>1, <1>3, MoveFacts
<1>5. store' = [store EXCEPT ![io] = s \o b]
  BY <1>3 DEF PutDataToDesFile
<1> QED
  BY <1>2, <1>3, <1>4, <1>5

\* A chunk is taken from the connection, or the end of it is seen.
LEMMA ReceiveStep ==
    ASSUME IInv, DataReaderRead \/ DataReaderClose
    PROVE  IInv'
<1>1. /\ dr.on /\ IsConnected /\ PutDataToDesFile
      /\ UNCHANGED <<step, after, resp, atEnd, req, writer, reader, ctl, replies, listening, peer,
                     down, sent, wrote, dw, io, reqs, chunks, connTime, readTime, faults>>
      /\ \/ /\ up # <<>> /\ dr' = [dr EXCEPT !.buf = <<Head(up)>>, !.time = 0]
            /\ up' = Tail(up) /\ quiet' = 0 /\ data' = data
         \/ /\ dr' = [dr EXCEPT !.buf = <<>>] /\ up' = up /\ quiet' = quiet
            /\ \/ data' = data
               \/ /\ data' = [data EXCEPT !.state = "closed"]
                  /\ up = <<>> /\ peer \in {"fin", "lost"}
  BY DEF DataReaderRead, DataReaderClose, session, control, client, times, clocks, moves
<1>2. /\ io \in Files /\ Live /\ reader /\ dw.state # "running" /\ ~listening
      /\ \/ step = "wait_receive" /\ after = "none"
         \/ Replying /\ step # "wait_receive" /\ after = "receive_file"
      /\ dr \in DrType /\ up \in Seq(Chunk) /\ sent \in Seq(Chunk)
  BY <1>1, ReceivingFacts
<1>3. /\ store' \in [Files -> Seq(Chunk)] /\ store'[io] = store[io] \o dr.buf
  BY <1>1, PutFacts
<1>4. data' \in DataType
  <2>1. data \in DataType
    BY DEF IInv, DataOK
  <2>2. CASE data' = [data EXCEPT !.state = "closed"]
    BY <2>1, <2>2 DEF DataType
  <2> QED
    BY <1>1, <2>1, <2>2
<1>5. Listing \in Chunk
  BY DEF Chunk
<1>6. PICK s \in Seq(Chunk), b \in Seq(Chunk) : s = store[io] /\ b = dr.buf
  BY <1>1, ReceivingFacts
<1>7. /\ up # <<>> => \E h \in Seq(Chunk), t \in Seq(Chunk) :
                          /\ h = <<Head(up)>> /\ t = Tail(up)
                          /\ ((s \o b) \o h) \o t = (s \o b) \o up
      /\ ((s \o b) \o <<>>) \o up = (s \o b) \o up
  <2>1. s \o b \in Seq(Chunk) /\ up \in Seq(Chunk)
    BY <1>2, <1>5, <1>6, MoveFacts
  <2>2. PICK f \in Seq(Chunk), u \in Seq(Chunk) : f = s \o b /\ u = up
    BY <2>1
  <2>3. ASSUME u # <<>>
        PROVE  \E h \in Seq(Chunk), t \in Seq(Chunk) :
                   h = <<Head(u)>> /\ t = Tail(u) /\ (f \o h) \o t = f \o u
    <3>1. <<Head(u)>> \in Seq(Chunk) /\ Tail(u) \in Seq(Chunk)
      BY <2>2, <2>3, HeadTailProperties
    <3>2. PICK h \in Seq(Chunk), t \in Seq(Chunk) : h = <<Head(u)>> /\ t = Tail(u)
      BY <3>1
    <3>3. (f \o h) \o t = f \o u
      BY <2>2, <2>3, <3>2, HeadMoves
    <3> QED
      BY <3>2, <3>3
  <2>4. ((s \o b) \o <<>>) \o u = (s \o b) \o u
    BY <1>5, <1>6, <2>2, MoveFacts
  <2> QED
    BY <2>2, <2>3, <2>4
<1>8. 0 \in 0 .. Timeout - 1 /\ 0 \in 0 .. Timeout /\ <<>> \in Seq(Chunk)
  BY ChunkFacts
<1>9. /\ dr' \in DrType /\ dr'.on = TRUE /\ up' \in Seq(Chunk)
      /\ (s \o b) \o up = ((s \o b) \o dr'.buf) \o up'
      /\ \/ dr'.time = 0
         \/ dr'.time = dr.time /\ quiet' = quiet
  <2>1. CASE /\ up # <<>> /\ dr' = [dr EXCEPT !.buf = <<Head(up)>>, !.time = 0]
             /\ up' = Tail(up)
    <3>1. PICK h \in Seq(Chunk), t \in Seq(Chunk) :
              /\ h = <<Head(up)>> /\ t = Tail(up)
              /\ ((s \o b) \o h) \o t = (s \o b) \o up
      BY <1>7, <2>1
    <3>2. dr' = [dr EXCEPT !.buf = h, !.time = 0]
      BY <2>1, <3>1
    <3>3. /\ dr' \in DrType /\ dr'.on = TRUE /\ dr'.time = 0 /\ dr'.buf = h
      BY <1>1, <1>2, <1>8, <3>1, <3>2 DEF DrType
    <3> QED
      BY <2>1, <3>1, <3>3
  <2>2. CASE dr' = [dr EXCEPT !.buf = <<>>] /\ up' = up /\ quiet' = quiet
    <3>1. /\ dr' \in DrType /\ dr'.on = TRUE /\ dr'.time = dr.time /\ dr'.buf = <<>>
      BY <1>1, <1>2, <1>8, <2>2 DEF DrType
    <3> QED
      BY <1>2, <1>7, <2>2, <3>1
  <2> QED
    BY <1>1, <2>1, <2>2
<1>10. StepsFit' /\ RepliesFit' /\ RepliesMatch'
  <2>1. after # "wait_data" /\ step # "wait_connect"
    BY <1>2 DEF Replying
  <2>2. dr'.on = dr.on
    BY <1>1, <1>9 DEF IInv, DataOK, DrType
  <2> QED
    BY <1>1, <2>1, <2>2, SameSession
<1>11. ControlOK' /\ DataOK' /\ TimesOK'
  <2>1. ControlOK'
    BY <1>1 DEF IInv, ControlOK
  <2>2. DataOK'
    BY <1>1, <1>3, <1>4, <1>9 DEF IInv, DataOK
  <2>3. quiet' \in {0, quiet} /\ readTime' = readTime /\ connTime' = connTime
    BY <1>1
  <2> QED
    BY <1>8, <2>1, <2>2, <2>3 DEF IInv, TimesOK
<1>12. MovesFit'
  <2>1. peer' # "lost" => (store'[io'] \o dr'.buf) \o up' = sent'
    BY <1>1, <1>3, <1>6, <1>9 DEF IInv, MovesFit
  <2>2. Ready' => Ready
    BY <1>1 DEF Ready
  <2>3. ~IsConnected' => up' = <<>> /\ peer' \in {"fin", "lost"}
    BY <1>1 DEF IsConnected
  <2> QED
    BY <1>1, <1>2, <1>9, <2>1, <2>2, <2>3 DEF IInv, MovesFit
<1>13. TimesFit'
  <2>1. dr.time \in 0 .. Timeout - 1 /\ quiet' \in 0 .. Timeout
    BY <1>1, <1>2, <1>8 DEF DrType, IInv, TimesOK
  <2> QED
    BY <1>1, <1>2, <1>9, <2>1 DEF IInv, TimesFit
<1> QED
  BY <1>10, <1>11, <1>12, <1>13 DEF IInv

\* The data reader stops, and its transfer counts as complete: it is, or
\* the client has not closed the connection.
LEMMA QuitStep ==
    ASSUME IInv, DataReaderStop \/ DataReaderTimeout
    PROVE  IInv'
<1>1. /\ dr.on /\ QuitData
      /\ ~IsConnected \/ peer \notin {"fin", "lost"}
  BY DEF DataReaderStop, DataReaderTimeout, DataReaderExpires, Idle, DataReaderBusy
<1>2. /\ dr' = NoDataReader /\ PutDataToDesFile /\ step' = "send_response"
      /\ PrepareResponse("226", peer = "fin" => store'[io] = sent)
      /\ io' = NoFile /\ data' = [data EXCEPT !.state = "closed"]
      /\ UNCHANGED <<after, req, writer, reader, ctl, replies, listening, peer, up, down, sent,
                     wrote, dw, reqs, chunks, connTime, readTime, quiet, faults>>
  BY <1>1 DEF QuitData, control, client, times, clocks, moves
<1>3. /\ io \in Files /\ Live /\ reader /\ dw.state # "running" /\ ~listening
      /\ \/ step = "wait_receive" /\ after = "none" /\ ~writer.on /\ Begun
         \/ Replying /\ after = "receive_file" /\ Opening
  BY <1>1, ReceivingFacts
<1>4. /\ store' \in [Files -> Seq(Chunk)] /\ store'[io] = store[io] \o dr.buf
  BY <1>1, <1>2, PutFacts
<1>5. peer = "fin" => store'[io] = sent
  <2>1. Listing \in Chunk
    BY DEF Chunk
  <2>2. PICK s \in Seq(Chunk), b \in Seq(Chunk) : s = store[io] /\ b = dr.buf
    BY <1>1, ReceivingFacts
  <2>3. (s \o b) \o <<>> = s \o b
    BY <2>1, <2>2, ChunkFacts, MoveFacts
  <2> QED
    BY <1>1, <1>4, <2>2, <2>3 DEF IInv, MovesFit
<1>6. /\ resp' \in ReplyType /\ resp'.of = req /\ resp'.code = "226" /\ resp'.sound = TRUE
      /\ atEnd' = TRUE
  <2>1. "226" \in Codes /\ TRUE \in BOOLEAN /\ (peer = "fin" => store'[io] = sent) = TRUE
    BY <1>5 DEF Codes
  <2>2. PrepareResponse("226", TRUE)
    BY <1>2, <2>1 DEF PrepareResponse
  <2> QED
    BY <2>1, <2>2, PrepareFacts DEF PrepareResponse
<1>7. data' \in DataType /\ data'.state = "closed"
  BY <1>2 DEF IInv, DataOK, DataType
<1>8. dr' \in DrType /\ dr'.on = FALSE
  BY <1>2, RecordFacts
<1>9. DataOK' /\ TimesOK'
  BY <1>2, <1>4, <1>7, <1>8 DEF IInv, DataOK, TimesOK
<1>10. ControlOK'
  <2>1. req <= req
    BY DEF IInv, ControlOK
  <2> QED
    BY <1>2, <1>6, <2>1 DEF IInv, ControlOK
<1>11. MovesFit' /\ TimesFit'
  BY <1>2, <1>3, <1>7, <1>8 DEF MovesFit, TimesFit, Ready, IsConnected
<1>12. StepsFit'
  BY <1>2, <1>3, <1>8 DEF IInv, StepsFit, Replying, Live
<1>13. Begun' /\ RepliesMatch'
  BY <1>2, <1>3, MatchKept DEF Begun, Opening, Fresh
<1>14. RepliesFit'
  <2>1. req \in Nat
    BY DEF IInv, ControlOK
  <2>2. writer'.buf # NoReply /\ writer'.on =>
            writer'.buf.of = req /\ writer'.buf.code = "150" /\ Fresh'
    BY <1>2, <1>3 DEF IInv, RepliesFit, Opening, Fresh
  <2> QED
    BY <1>2, <1>3, <1>6, <1>13, <2>1, <2>2 DEF IInv, RepliesFit, Replying
<1> QED
  BY <1>9, <1>10, <1>11, <1>12, <1>13, <1>14 DEF IInv

----------------------------------------------------------------------------
\* When all tasks wait there is a reader, no reply is being written, and the
\* task that moves data is in its transfer.
LEMMA IdleFacts ==
    ASSUME IInv, Idle
    PROVE  /\ reader /\ ~writer.on /\ Live
           /\ dr.on => /\ step = "wait_receive" /\ IsConnected /\ peer \notin {"fin", "lost"}
                       /\ dr.time <= quiet
           /\ dw.state = "running" => /\ ~dr.on /\ IsConnected /\ wrote # <<>>
                                      /\ dw.time <= quiet
<1>1. /\ Live /\ ~writer.on
      /\ step \notin {"handle_request", "send_response", "read_request", "wait_response"}
  BY DEF Idle, ServerBusy, IInv, StepsFit
<1>2. reader /\ ~Replying
  BY <1>1 DEF IInv, StepsFit, Replying, ControlOK
<1>3. dr.on => /\ step = "wait_receive" /\ IsConnected /\ peer \notin {"fin", "lost"}
               /\ dr.time <= quiet
  BY <1>2, ReceivingFacts DEF Idle, DataReaderBusy, IInv, TimesFit
<1>4. dw.state = "running" => /\ ~dr.on /\ IsConnected /\ wrote # <<>> /\ dw.time <= quiet
  BY SendingFacts DEF Idle, DataWriterBusy, IInv, TimesFit
<1> QED
  BY <1>1, <1>2, <1>3, <1>4

\* The clock goes on when nothing is late.
LEMMA TickStep ==
    ASSUME IInv, Tick
    PROVE  IInv'
<1>1. /\ Idle /\ readTime' = readTime + 1
      /\ connTime' = IF step = "wait_connect" THEN connTime + 1 ELSE connTime
      /\ quiet' = IF ~Transferring THEN 0 ELSE IF quiet < Timeout THEN quiet + 1 ELSE quiet
      /\ dr' = IF dr.on THEN [dr EXCEPT !.time = @ + 1] ELSE dr
      /\ dw' = IF dw.state = "running" THEN [dw EXCEPT !.time = @ + 1] ELSE dw
      /\ UNCHANGED <<step, after, resp, atEnd, req, writer, reader, ctl, replies, data, listening,
                     peer, up, down, sent, wrote, io, store, reqs, chunks, faults>>
  BY DEF Tick, session, control, dataConn, disk, client
<1>2. /\ ~(reader /\ Expired(readTime)) /\ ~(step = "wait_connect" /\ Expired(connTime))
      /\ ~(dr.on /\ Expired(dr.time)) /\ ~(dw.state = "running" /\ Expired(dw.time))
  BY DEF Tick, ReaderExpires, ConnectExpires, DataReaderExpires, DataWriterExpires
<1>3. /\ reader
      /\ dr.on => step = "wait_receive" /\ dr.time <= quiet /\ Transferring
      /\ dw.state = "running" => wrote # <<>> /\ dw.time <= quiet /\ Transferring
  BY <1>1, IdleFacts DEF Transferring, IInv, StepsFit
<1>4. /\ dr \in DrType /\ dw \in DwType /\ dw.off <= Len(dw.src)
      /\ dr.time \in 0 .. Timeout - 1 /\ dw.time \in 0 .. Timeout - 1
      /\ readTime \in 0 .. Timeout - 1 /\ connTime \in 0 .. Timeout - 1 /\ quiet \in 0 .. Timeout
      /\ Timeout \in Nat
  BY ChunkFacts DEF IInv, DataOK, DrType, DwType, TimesOK
<1>5. TimesOK'
  <2>1. readTime' \in 0 .. Timeout - 1
    BY <1>1, <1>2, <1>3, <1>4 DEF Expired
  <2>2. connTime' \in 0 .. Timeout - 1
    BY <1>1, <1>2, <1>4 DEF Expired
  <2>3. quiet' \in 0 .. Timeout
    BY <1>1, <1>4
  <2> QED
    BY <2>1, <2>2, <2>3 DEF TimesOK
<1>6. /\ dr' \in DrType /\ dr'.on = dr.on /\ dr'.buf = dr.buf
      /\ dr'.time = IF dr.on THEN dr.time + 1 ELSE dr.time
  <2>1. CASE dr.on
    <3>1. dr.time + 1 \in 0 .. Timeout - 1 /\ dr \in DrType
      BY <1>2, <1>4, <2>1 DEF Expired
    <3>2. dr' = [dr EXCEPT !.time = dr.time + 1]
      BY <1>1, <2>1
    <3> QED
      BY <2>1, <3>1, <3>2 DEF DrType
  <2>2. CASE ~dr.on
    BY <1>1, <1>4, <2>2
  <2> QED
    BY <2>1, <2>2
<1>7. /\ dw' \in DwType /\ dw'.state = dw.state /\ dw'.off = dw.off /\ dw'.src = dw.src
      /\ dw'.full = dw.full
      /\ dw'.time = IF dw.state = "running" THEN dw.time + 1 ELSE dw.time
  <2>1. CASE dw.state = "running"
    <3>1. dw.time + 1 \in 0 .. Timeout - 1 /\ dw \in DwType
      BY <1>2, <1>4, <2>1 DEF Expired
    <3>2. dw' = [dw EXCEPT !.time = dw.time + 1]
      BY <1>1, <2>1
    <3> QED
      BY <2>1, <3>1, <3>2 DEF DwType
  <2>2. CASE dw.state # "running"
    BY <1>1, <1>4, <2>2
  <2> QED
    BY <2>1, <2>2
<1>8. ControlOK' /\ DataOK'
  BY <1>1, <1>4, <1>6, <1>7 DEF IInv, ControlOK, DataOK
<1>9. StepsFit' /\ RepliesFit' /\ RepliesMatch'
  BY <1>1, <1>6, <1>7, SameSession DEF IsConnected
<1>10. MovesFit'
  BY <1>1, <1>6, <1>7 DEF IInv, MovesFit, Ready, IsConnected
<1>11. TimesFit'
  <2>1. dr.on => dr.time + 1 <= quiet'
    BY <1>1, <1>2, <1>3, <1>4 DEF Expired
  <2>2. dw.state = "running" => dw.time + 1 <= quiet'
    BY <1>1, <1>2, <1>3, <1>4 DEF Expired
  <2> QED
    BY <1>1, <1>3, <1>6, <1>7, <2>1, <2>2 DEF TimesFit
<1> QED
  BY <1>5, <1>8, <1>9, <1>10, <1>11 DEF IInv

\* The timer gives the control connection the time of the data connection.
LEMMA SyncStep ==
    ASSUME IInv, SyncTimeout
    PROVE  IInv'
<1>1. /\ readTime' \in {readTime, dr.time, dw.time}
      /\ UNCHANGED <<step, after, resp, atEnd, req, writer, reader, ctl, replies, data, listening,
                     peer, up, down, sent, wrote, dr, dw, io, store, reqs, chunks, connTime,
                     quiet, faults>>
  BY DEF SyncTimeout, DataTime, session, control, dataConn, disk, client, moves
<1>2. ControlOK' /\ DataOK' /\ TimesOK'
  <2>1. dr.time \in 0 .. Timeout - 1 /\ dw.time \in 0 .. Timeout - 1
    BY DEF IInv, DataOK, DrType, DwType
  <2>2. ControlOK'
    BY <1>1 DEF IInv, ControlOK
  <2>3. DataOK'
    BY <1>1 DEF IInv, DataOK
  <2>4. readTime' \in 0 .. Timeout - 1
    BY <1>1, <2>1 DEF IInv, TimesOK
  <2>5. TimesOK'
    BY <1>1, <2>4 DEF IInv, TimesOK
  <2> QED
    BY <2>2, <2>3, <2>5
<1>3. StepsFit' /\ RepliesFit' /\ RepliesMatch'
  BY <1>1, SameSession DEF IsConnected
<1>4. MovesFit' /\ TimesFit'
  BY <1>1 DEF IInv, MovesFit, TimesFit, Ready, IsConnected
<1> QED
  BY <1>2, <1>3, <1>4 DEF IInv

----------------------------------------------------------------------------
\* A session begins with the greeting to send.
LEMMA IInvInit == Init => IInv
<1> SUFFICES ASSUME Init
             PROVE  IInv
  OBVIOUS
<1> USE DEF Init
<1>1. /\ 0 \in Nat /\ 0 \in 0 .. MaxFaults /\ 0 \in 0 .. MaxChunks /\ 0 \in 0 .. Timeout - 1
      /\ 0 \in 0 .. Timeout /\ 0 <= MaxRequests /\ Len(<<>>) = 0
  BY ChunkFacts
<1>2. resp \in ReplyType /\ resp.of = 0 /\ resp.code = "220"
  BY <1>1 DEF ReplyType, Codes
<1>3. reqs \in Seq(Commands) /\ Len(reqs) = 0 /\ replies \in Seq(SentType) /\ Len(replies) = 0
  BY <1>1
<1>4. ControlOK
  <2>1. writer \in WriterType
    BY RecordFacts
  <2>2. resp.of <= req /\ req <= Len(reqs) /\ Len(reqs) <= MaxRequests /\ req \in Nat
    BY <1>1, <1>2, <1>3
  <2> QED
    BY <1>1, <1>2, <1>3, <2>1, <2>2, Zenon DEF ControlOK
<1>5. DataOK
  <2>1. data \in DataType
    BY DEF DataType
  <2>2. Len(dw.src) = 0 /\ dw.off = 0 /\ Len(down) = 0
    BY <1>1, RecordFacts
  <2>3. dw.off <= Len(dw.src) /\ Len(down) <= 1
    BY <2>2
  <2>4. store \in [Files -> Seq(Chunk)] /\ dr \in DrType /\ dw \in DwType
    BY ChunkFacts, RecordFacts
  <2>5. up \in Seq(Chunk) /\ down \in Seq(Chunk) /\ sent \in Seq(Chunk) /\ wrote \in Seq(Chunk)
    BY ChunkFacts
  <2> QED
    BY <1>1, <2>1, <2>3, <2>4, <2>5, Zenon DEF DataOK
<1>6. TimesOK
  BY <1>1 DEF TimesOK
<1>7. StepsFit /\ MovesFit /\ TimesFit
  BY RecordFacts DEF StepsFit, MovesFit, TimesFit, Ready, IsConnected, Replying, Live
<1>8. Fresh
  BY <1>3 DEF Fresh
<1>9. RepliesFit
  BY <1>2, <1>3, <1>8, RecordFacts DEF RepliesFit, Replying
<1>10. RepliesMatch
  BY <1>3 DEF RepliesMatch
<1> QED
  BY <1>4, <1>5, <1>6, <1>7, <1>9, <1>10 DEF IInv

\* A step that changes nothing.
LEMMA StutterStep ==
    ASSUME IInv, UNCHANGED vars
    PROVE  IInv'
<1>1. UNCHANGED <<step, after, resp, atEnd, req, writer, reader, ctl, replies, data, listening, peer,
                  up, down, sent, wrote, dr, dw, io, store, reqs, chunks, connTime, readTime,
                  quiet, faults>>
  BY DEF vars, session, control, dataConn, disk, client, times, clocks, moves
<1>2. ControlOK' /\ DataOK' /\ TimesOK'
  BY <1>1 DEF IInv, ControlOK, DataOK, TimesOK
<1>3. StepsFit' /\ RepliesFit' /\ RepliesMatch'
  BY <1>1, SameSession DEF IsConnected
<1>4. MovesFit' /\ TimesFit'
  BY <1>1 DEF IInv, MovesFit, TimesFit, Ready, IsConnected
<1> QED
  BY <1>2, <1>3, <1>4 DEF IInv

\* Every step of a session preserves the inductive invariant.
LEMMA IInvInductive == IInv /\ [Next]_vars => IInv'
<1> SUFFICES ASSUME IInv, [Next]_vars
             PROVE  IInv'
  OBVIOUS
<1>1. CASE ServerRun
  BY <1>1, AnswerStep, ConnectionStep, DownloadStep, UploadStep, TurnStep, ConnectedStep, AcceptStep
     DEF ServerRun, HandleRequest
<1>2. CASE WriterRun
  BY <1>2, WriterStep, ControlStep, StopStep DEF WriterRun
<1>3. CASE ReaderRun
  BY <1>3, ControlStep, StopStep DEF ReaderRun
<1>4. CASE DataReaderRun
  BY <1>4, ReceiveStep, QuitStep DEF DataReaderRun
<1>5. CASE DataWriterRun
  BY <1>5, LoadStep, WriteStep, WriterGoneStep DEF DataWriterRun
<1>6. CASE Clock
  BY <1>6, StopStep, QuitStep, WriterGoneStep, SyncStep, TickStep DEF Clock
<1>7. CASE ClientStep
  BY <1>7, ControlStep, PeerStep DEF ClientStep
<1>8. CASE UNCHANGED vars
  BY <1>8, StutterStep
<1> QED
  BY <1>1, <1>2, <1>3, <1>4, <1>5, <1>6, <1>7, <1>8 DEF Next

----------------------------------------------------------------------------
\* Steps that give the control connection no time but 0, while the transfer
\* goes on, ends or begins.
LEMMA CalmKept ==
    ASSUME IInv, CalmFit, syncTime' = syncTime, readTime' \in {readTime, 0},
           \/ calm' = 0 /\ quiet' = 0
           \/ calm' = calm /\ quiet' \in {quiet, 0} /\ (Held' => Held)
    PROVE  CalmFit'
<1>1. /\ quiet \in Nat /\ readTime \in Nat /\ Timeout \in Nat /\ SyncPeriod \in Nat
      /\ syncTime \in 0 .. SyncPeriod /\ calm \in 0 .. SyncPeriod + 1
  BY ChunkFacts, BoundsAssumption DEF IInv, TimesOK, CalmFit, ClocksOK
<1>2. ClocksOK'
  BY <1>1 DEF ClocksOK
<1>3. TooQuiet(quiet') => calm' = 0
  BY <1>1 DEF CalmFit, TooQuiet
<1>4. /\ syncTime' = syncTime /\ syncTime \in Nat
      /\ readTime' \in Nat /\ readTime \in Nat /\ readTime' <= readTime
      /\ SyncPeriod \in Nat /\ Timeout \in Nat
  BY <1>1
<1>5. Held' => calm' <= syncTime' \/ readTime' + SyncPeriod + 1 < Timeout + syncTime'
  <2>1. CASE calm' = 0
    <3>1. calm' <= syncTime'
      BY <1>4, <2>1
    <3> QED
      BY <3>1
  <2>2. CASE calm' = calm /\ (Held' => Held)
    <3>1. calm <= syncTime => calm' <= syncTime'
      BY <1>4, <2>2
    <3>2. readTime + SyncPeriod + 1 < Timeout + syncTime =>
              readTime' + SyncPeriod + 1 < Timeout + syncTime'
      <4>1. CASE readTime' = readTime
        BY <1>4, <4>1
      <4>2. CASE readTime' = 0
        BY <1>4, <4>2
      <4> QED
        BY <4>1, <4>2
    <3>3. Held => calm <= syncTime \/ readTime + SyncPeriod + 1 < Timeout + syncTime
      BY DEF CalmFit
    <3> QED
      BY <2>2, <3>1, <3>2, <3>3, Zenon
  <2> QED
    BY <2>1, <2>2
<1> QED
  BY <1>2, <1>3, <1>5 DEF CalmFit

\* A session that stops has no transfer.
LEMMA StopKeeps ==
    ASSUME KeptInv, Stop
    PROVE  PaceFit' /\ CalmFit'
<1>1. /\ step' = "ended" /\ dw' = NoDataWriter
      /\ UNCHANGED <<readTime, syncTime, quiet, calm>>
  BY DEF Stop, times, clocks, moves
<1>2. PaceFit'
  BY <1>1, RecordFacts DEF PaceFit
<1>3. ~Held'
  BY <1>1 DEF Held, Transferring
<1> QED
  BY <1>1, <1>2, <1>3, CalmKept DEF KeptInv

\* The server answers and reads requests between transfers.
LEMMA TurnKeeps ==
    ASSUME KeptInv, ServerRun
    PROVE  PaceFit' /\ CalmFit'
<1>1. /\ step' \notin {"wait_send", "wait_receive"}
      /\ UNCHANGED <<readTime, syncTime, quiet, calm>>
      /\ \/ dw' = dw
         \/ /\ step = "handle_request"
            /\ dw' = [dw EXCEPT !.state = "suspended", !.src = Source, !.off = 0, !.full = FALSE]
  BY DEF ServerRun, HandleRequest, HandleSimple, HandleDele, HandlePort, HandlePasv,
         HandleDownload, HandleStor, Handle, Answer, SendResponse, ReadRequest, GotRequest,
         Connected, Accept, times, clocks, moves
<1>2. PaceFit'
  <2>1. CASE dw' = dw
    BY <1>1, <2>1 DEF KeptInv, PaceFit
  <2>2. CASE step = "handle_request" /\ dw' # dw
    <3>1. dw.state # "running" /\ dw \in DwType
      BY <2>2 DEF KeptInv, IInv, StepsFit, DataOK
    <3>2. dw'.time = dw.time
      BY <1>1, <2>2, <3>1 DEF DwType
    <3> QED
      BY <3>1, <3>2 DEF KeptInv, PaceFit
  <2> QED
    BY <1>1, <2>1, <2>2
<1>3. ~Held'
  BY <1>1 DEF Held, Transferring
<1> QED
  BY <1>1, <1>2, <1>3, CalmKept DEF KeptInv

\* A transfer begins when the reply that opens it has been written.
LEMMA FinishKeeps ==
    ASSUME KeptInv, writer.on, Finish, ctl' = ctl
    PROVE  PaceFit' /\ CalmFit'
<1>1. /\ UNCHANGED <<data, dr, readTime, syncTime>>
      /\ IF step = "wait_response"
         THEN AfterResponse /\ quiet' = 0 /\ calm' = 0
         ELSE UNCHANGED <<step, dw, quiet, calm>>
  BY DEF Finish, dataConn, clocks, moves
<1>2. PaceFit'
  <2>1. CASE step = "wait_response"
    <3>1. dw.state # "running" /\ dw \in DwType
      BY <2>1 DEF KeptInv, IInv, StepsFit, DataOK
    <3>2. dw'.time = dw.time
      BY <1>1, <2>1, <3>1 DEF AfterResponse, DwType
    <3> QED
      BY <3>1, <3>2 DEF KeptInv, PaceFit
  <2>2. CASE step # "wait_response"
    BY <1>1, <2>2 DEF KeptInv, PaceFit
  <2> QED
    BY <2>1, <2>2
<1>3. CalmFit'
  <2>1. CASE step = "wait_response"
    BY <1>1, <2>1, CalmKept DEF KeptInv
  <2>2. CASE step # "wait_response"
    <3>1. Held' = Held
      BY <1>1, <2>2 DEF Held, Transferring, IsConnected
    <3> QED
      BY <1>1, <2>2, <3>1, CalmKept DEF KeptInv
  <2> QED
    BY <2>1, <2>2
<1> QED
  BY <1>2, <1>3

\* The control connection.
LEMMA WriterKeeps ==
    ASSUME KeptInv, WriterRun \/ ReaderRun
    PROVE  PaceFit' /\ CalmFit'
<1>1. CASE Stop
  BY <1>1, StopKeeps
<1>2. CASE writer.on /\ Finish /\ ctl' = ctl
  BY <1>2, FinishKeeps
<1>3. CASE /\ UNCHANGED <<step, data, dr, dw, syncTime, quiet, calm>>
           /\ readTime' \in {readTime, 0}
           /\ ctl' \in {ctl, "down"}
  <2>1. Held' => Held
    BY <1>3 DEF Held, Transferring, IsConnected
  <2>2. PaceFit'
    BY <1>3 DEF KeptInv, PaceFit
  <2> QED
    BY <1>3, <2>1, <2>2, CalmKept DEF KeptInv
<1> QED
  BY <1>1, <1>2, <1>3
     DEF WriterRun, ReaderRun, WriterLoad, WriterWrite, WriterWriteLast, WriterFail, WriterStop,
         ReaderClose, ReaderStop, session, dataConn, times, clocks, moves

\* The client and the network.
LEMMA ClientKeeps ==
    ASSUME KeptInv, ClientStep
    PROVE  PaceFit' /\ CalmFit'
<1>1. /\ UNCHANGED <<step, data, dr, dw, syncTime, quiet, calm>>
      /\ readTime' \in {readTime, 0}
      /\ ctl' # ctl => ctl # "down"
  BY DEF ClientStep, Send, CloseControl, Connect, SendChunk, TakeChunk, ClosePeer, Lose, Vanish,
         ServerUnchanged, session, times, clocks, moves
<1>2. Held' => Held
  BY <1>1 DEF Held, Transferring, IsConnected
<1>3. PaceFit'
  BY <1>1 DEF KeptInv, PaceFit
<1> QED
  BY <1>1, <1>2, <1>3, CalmKept DEF KeptInv

\* A data writer that reads has written all it had read, and one that has
\* written waits no longer.
LEMMA SendKeeps ==
    ASSUME KeptInv, DataWriterLoad \/ DataWriterWrite
    PROVE  PaceFit' /\ CalmFit'
<1>1. /\ dw.state = "running" /\ IsConnected /\ step = "wait_send"
      /\ dw \in DwType /\ dw.off \in Nat
  BY SendingFacts DEF DataWriterLoad, DataWriterWrite, KeptInv
<1>2. /\ UNCHANGED <<ctl, dr, readTime, syncTime, calm>> /\ quiet' \in {quiet, 0}
  BY DEF DataWriterLoad, DataWriterWrite, control, times, clocks, moves
<1>3. PaceFit'
  <2>1. CASE DataWriterLoad
    <3>1. ~dw.full /\ dw.time = 0
      BY <2>1 DEF DataWriterLoad, KeptInv, PaceFit
    <3>2. \/ dw' = [dw EXCEPT !.state = "suspended"]
          \/ dw' = [dw EXCEPT !.off = dw.off + 1, !.full = TRUE]
          \/ dw' = [[dw EXCEPT !.off = dw.off + 1, !.full = TRUE] EXCEPT !.state = "suspended"]
      BY <2>1 DEF DataWriterLoad, Proceed, FinishData
    <3>3. dw'.time = dw.time
      BY <1>1, <3>2 DEF DwType
    <3> QED
      BY <3>1, <3>3 DEF PaceFit
  <2>2. CASE DataWriterWrite
    <3> DEFINE w == [dw EXCEPT !.full = FALSE, !.time = 0]
    <3>1. w \in DwType /\ w.time = 0
      <4>1. 0 \in 0 .. Timeout - 1
        BY ChunkFacts
      <4> QED
        BY <1>1, <4>1 DEF DwType
    <3>2. dw' = w \/ dw' = [w EXCEPT !.state = "suspended"]
      BY <2>2 DEF DataWriterWrite, Proceed, FinishData
    <3> HIDE DEF w
    <3>3. dw'.time = 0
      BY <3>1, <3>2 DEF DwType
    <3> QED
      BY <3>3 DEF PaceFit
  <2> QED
    BY <2>1, <2>2
<1>4. CalmFit'
  <2>1. Held' => Held
    BY <1>1, <1>2 DEF Held, Transferring
  <2> QED
    BY <1>2, <2>1, CalmKept DEF KeptInv
<1> QED
  BY <1>3, <1>4

\* A data writer that is gone transfers nothing.
LEMMA GoneKeeps ==
    ASSUME KeptInv, DataWriterFail \/ DataWriterStop \/ DataWriterTimeout
    PROVE  PaceFit' /\ CalmFit'
<1>1. /\ dw.state = "running" /\ step = "wait_send"
      /\ UNCHANGED <<step, ctl, dr, readTime, syncTime, quiet, calm>>
      /\ \/ data' = [data EXCEPT !.state = "closed"] /\ dw' \in {dw, NoDataWriter}
         \/ data' = data /\ dw' = NoDataWriter
  BY SendingFacts DEF DataWriterFail, DataWriterStop, DataWriterTimeout, DataWriterExpires,
         KeptInv, session, control, dataConn, times, clocks, moves
<1>2. PaceFit'
  BY <1>1, RecordFacts DEF KeptInv, PaceFit
<1>3. ~Held'
  <2>1. data \in DataType
    BY DEF KeptInv, IInv, DataOK
  <2>2. CASE data' = [data EXCEPT !.state = "closed"]
    BY <2>1, <2>2 DEF DataType, Held, IsConnected
  <2>3. CASE dw' = NoDataWriter
    BY <1>1, <2>3, RecordFacts DEF Held, Transferring
  <2> QED
    BY <1>1, <2>2, <2>3
<1> QED
  BY <1>1, <1>2, <1>3, CalmKept DEF KeptInv

\* A data reader goes on with the transfer it is in, or ends it.
LEMMA ReceiveKeeps ==
    ASSUME KeptInv, DataReaderRun \/ DataReaderTimeout
    PROVE  PaceFit' /\ CalmFit'
<1>1. /\ dr.on /\ dw' = dw
      /\ UNCHANGED <<ctl, readTime, syncTime, calm>> /\ quiet' \in {quiet, 0}
      /\ \/ step' = step /\ IsConnected
         \/ step' = "send_response"
  BY DEF DataReaderRun, DataReaderRead, DataReaderClose, DataReaderStop, DataReaderTimeout,
         DataReaderExpires, QuitData, session, control, times, clocks, moves
<1>2. dw.state # "running"
  BY <1>1, ReceivingFacts DEF KeptInv
<1>3. PaceFit'
  BY <1>1, <1>2 DEF KeptInv, PaceFit
<1>4. Held' => Held
  BY <1>1, <1>2 DEF Held, Transferring
<1> QED
  BY <1>1, <1>3, <1>4, CalmKept DEF KeptInv

\* SyncTimeout: the time of a transfer is no longer than it is quiet.
LEMMA SyncKeeps ==
    ASSUME KeptInv, SyncTimeout
    PROVE  PaceFit' /\ CalmFit'
<1>1. /\ UNCHANGED <<step, ctl, data, dr, dw, quiet, calm>> /\ syncTime' = 0
      /\ readTime' = IF Synced /\ ctl # "down" THEN DataTime ELSE readTime
  BY DEF SyncTimeout, session, control, dataConn, moves
<1>2. /\ quiet \in Nat /\ Timeout \in Nat /\ SyncPeriod \in Nat /\ calm \in 0 .. SyncPeriod + 1
      /\ dr.time \in Nat /\ dw.time \in Nat /\ (TooQuiet(quiet) => calm = 0)
  BY ChunkFacts, BoundsAssumption
     DEF KeptInv, IInv, TimesOK, DataOK, DrType, DwType, CalmFit, ClocksOK
<1>3. Held' => readTime' <= quiet /\ readTime' \in Nat
  <2>1. SUFFICES ASSUME Held
                 PROVE  readTime' <= quiet /\ readTime' \in Nat
    BY <1>1 DEF Held, Transferring, IsConnected
  <2>2. CASE step = "wait_receive" /\ dr.on
    <3>1. readTime' = dr.time
      BY <1>1, <2>1, <2>2 DEF Held, Synced, DataTime
    <3> QED
      BY <1>2, <2>2, <3>1 DEF KeptInv, IInv, TimesFit
  <2>3. CASE step = "wait_send" /\ dw.state = "running"
    <3>1. ~dr.on
      BY <2>3, SendingFacts DEF KeptInv
    <3>2. readTime' = dw.time
      BY <1>1, <2>1, <2>3, <3>1 DEF Held, Synced, DataTime
    <3> QED
      BY <1>2, <3>2 DEF KeptInv, PaceFit
  <2> QED
    BY <2>1, <2>2, <2>3 DEF Held, Transferring
<1>4. Held' => calm' <= syncTime' \/ readTime' + SyncPeriod + 1 < Timeout + syncTime'
  <2>1. CASE calm = 0
    BY <1>1, <2>1
  <2>2. CASE calm # 0
    <3>1. quiet + SyncPeriod + 1 < Timeout
      BY <1>2, <2>2 DEF TooQuiet
    <3> QED
      BY <1>1, <1>2, <1>3, <3>1
  <2> QED
    BY <2>1, <2>2
<1>5. PaceFit' /\ ClocksOK' /\ (TooQuiet(quiet') => calm' = 0)
  BY <1>1, <1>2 DEF KeptInv, PaceFit, ClocksOK, TooQuiet
<1> QED
  BY <1>4, <1>5 DEF CalmFit

\* A tick of the clock, which SyncTimeout and a writer that reads precede.
LEMMA TickKeeps ==
    ASSUME KeptInv, Tick
    PROVE  PaceFit' /\ CalmFit'
<1>1. /\ Idle /\ syncTime < SyncPeriod /\ syncTime' = syncTime + 1 /\ readTime' = readTime + 1
      /\ quiet' = IF ~Transferring THEN 0 ELSE IF quiet < Timeout THEN quiet + 1 ELSE quiet
      /\ calm' = IF ~Transferring \/ TooQuiet(quiet') THEN 0
                 ELSE IF calm <= SyncPeriod THEN calm + 1 ELSE calm
      /\ dw' = IF dw.state = "running" THEN [dw EXCEPT !.time = @ + 1] ELSE dw
      /\ dw.state = "running" => ~Expired(dw.time)
      /\ UNCHANGED <<step, ctl, data>>
      /\ dr' = IF dr.on THEN [dr EXCEPT !.time = @ + 1] ELSE dr
  BY DEF Tick, DataWriterExpires, session, control, dataConn
<1>2. /\ quiet \in 0 .. Timeout /\ Timeout \in Nat /\ SyncPeriod \in Nat /\ readTime \in Nat
      /\ syncTime \in 0 .. SyncPeriod /\ calm \in 0 .. SyncPeriod + 1
      /\ dw \in DwType /\ dw.time \in Nat /\ dr \in DrType
  BY ChunkFacts, BoundsAssumption
     DEF KeptInv, IInv, TimesOK, DataOK, DwType, CalmFit, ClocksOK
<1>3. dw.state = "running" => dw.full /\ dw.time <= quiet /\ Transferring
  BY <1>1, IdleFacts DEF KeptInv, IInv, StepsFit, Transferring, Idle, DataWriterBusy
<1>4. PaceFit'
  <2>1. CASE dw.state = "running"
    <3>1. dw.time + 1 \in 0 .. Timeout - 1
      BY <1>1, <1>2, <2>1 DEF Expired
    <3>2. dw' = [dw EXCEPT !.time = dw.time + 1]
      BY <1>1, <2>1
    <3>3. dw'.state = "running" /\ dw'.full = dw.full /\ dw'.time = dw.time + 1
      BY <1>2, <2>1, <3>2 DEF DwType
    <3>4. dw.time + 1 <= quiet'
      BY <1>1, <1>2, <1>3, <2>1, <3>1
    <3> QED
      BY <1>3, <2>1, <3>3, <3>4 DEF PaceFit
  <2>2. CASE dw.state # "running"
    BY <1>1, <2>2 DEF KeptInv, PaceFit
  <2> QED
    BY <2>1, <2>2
<1>5. Held' => Held
  <2>1. dr'.on = dr.on /\ dw'.state = dw.state
    BY <1>1, <1>2 DEF DrType, DwType
  <2> QED
    BY <1>1, <2>1 DEF Held, Transferring, IsConnected
<1>6. Held' => calm' <= syncTime' \/ readTime' + SyncPeriod + 1 < Timeout + syncTime'
  <2>1. SUFFICES ASSUME Held
                 PROVE  calm' <= syncTime' \/ readTime' + SyncPeriod + 1 < Timeout + syncTime'
    BY <1>5
  <2>2. CASE calm <= syncTime
    BY <1>1, <1>2, <2>2
  <2>3. CASE readTime + SyncPeriod + 1 < Timeout + syncTime
    BY <1>1, <1>2, <2>3
  <2> QED
    BY <2>1, <2>2, <2>3 DEF KeptInv, CalmFit
<1>7. ClocksOK' /\ (TooQuiet(quiet') => calm' = 0)
  BY <1>1, <1>2 DEF ClocksOK
<1> QED
  BY <1>4, <1>6, <1>7 DEF CalmFit

\* Every step preserves what is known of the control connection's time.
LEMMA KeptInductive == KeptInv /\ [Next]_vars => KeptInv'
<1> SUFFICES ASSUME KeptInv, [Next]_vars
             PROVE  PaceFit' /\ CalmFit'
  BY IInvInductive DEF KeptInv
<1>1. CASE ServerRun
  BY <1>1, TurnKeeps
<1>2. CASE WriterRun \/ ReaderRun
  BY <1>2, WriterKeeps
<1>3. CASE DataReaderRun
  BY <1>3, ReceiveKeeps
<1>4. CASE DataWriterRun
  BY <1>4, SendKeeps, GoneKeeps DEF DataWriterRun
<1>5. CASE Clock
  BY <1>5, StopKeeps, ReceiveKeeps, GoneKeeps, SyncKeeps, TickKeeps
     DEF Clock, ReaderTimeout, WaitBufTimeout, ConnectTimeout
<1>6. CASE ClientStep
  BY <1>6, ClientKeeps
<1>7. CASE UNCHANGED vars
  <2>1. UNCHANGED <<step, ctl, data, dr, dw, readTime, syncTime, quiet, calm>>
    BY <1>7 DEF vars, session, control, dataConn, times, clocks, moves
  <2> QED
    BY <2>1 DEF KeptInv, PaceFit, CalmFit, ClocksOK, TooQuiet, Held, Transferring, IsConnected
<1> QED
  BY <1>1, <1>2, <1>3, <1>4, <1>5, <1>6, <1>7 DEF Next

\* The invariant holds of every session.
LEMMA Invariance == Spec => []KeptInv
<1>1. Init => KeptInv
  <2> SUFFICES ASSUME Init
               PROVE  PaceFit /\ CalmFit
    BY IInvInit DEF KeptInv
  <2>1. dw = NoDataWriter /\ step = "send_response" /\ syncTime = 0 /\ calm = 0
    BY DEF Init
  <2>2. PaceFit
    BY <2>1, RecordFacts DEF PaceFit
  <2>3. ClocksOK /\ ~Held
    BY <2>1, BoundsAssumption DEF ClocksOK, Held, Transferring
  <2> QED
    BY <2>1, <2>2, <2>3 DEF CalmFit
<1> QED
  BY <1>1, KeptInductive, PTL DEF Spec

\* Every session keeps to its types: a time is below its timeout, and a task
\* that takes data has its file.
THEOREM TypeCorrect == Spec => []TypeOK
<1>1. KeptInv => TypeOK
  BY TypeParts DEF KeptInv, IInv, CalmFit
<1> QED
  BY <1>1, Invariance, PTL

\* The client gets the replies to its requests in their order, and what is
\* called complete is complete, however requests that are sent ahead, both
\* ends of a transfer and the timeouts interleave.
THEOREM RepliesAreRight == Spec => []RepliesMatch
<1>1. KeptInv => RepliesMatch
  BY DEF KeptInv, IInv
<1> QED
  BY <1>1, Invariance, PTL

\* The timeout of the control connection ends no session whose data moves,
\* when the transfer began more than a period of SyncTimeout ago and has not
\* been quiet for nearly as long as the timeout since.
THEOREM DataKeepsTheSession == Spec => NotCutWhileMoving
<1>1. ASSUME KeptInv, ReaderTimeout, Transferring
      PROVE  calm <= SyncPeriod
  <2>1. Idle /\ ctl # "down" /\ Expired(readTime)
    BY <1>1 DEF ReaderTimeout, ReaderExpires
  <2>2. Held
    BY <1>1, <2>1, IdleFacts DEF Held, Transferring, KeptInv
  <2>3. calm <= syncTime \/ readTime + SyncPeriod + 1 < Timeout + syncTime
    BY <1>1, <2>2 DEF KeptInv, CalmFit
  <2>4. /\ syncTime \in 0 .. SyncPeriod /\ calm \in Nat /\ readTime \in Nat
        /\ Timeout \in Nat /\ SyncPeriod \in Nat
    BY <1>1, ChunkFacts, BoundsAssumption DEF KeptInv, IInv, TimesOK, CalmFit, ClocksOK
  <2> QED
    BY <2>1, <2>3, <2>4 DEF Expired
<1>2. KeptInv /\ [Next]_vars => [NotCutStep]_vars
  BY <1>1 DEF NotCutStep
<1> QED
  BY <1>2, Invariance, PTL DEF Spec, NotCutWhileMoving

=============================================================================
