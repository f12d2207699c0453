----------------------------- MODULE FtpSession -----------------------------
(***************************************************************************)
(* One session of the FTP server: CTaskFtpServer with the tasks that read  *)
(* and write its control connection and those that read and write its data *)
(* connection, the files it serves, and the timer that keeps a control     *)
(* connection alive while data moves.  The client may send requests ahead, *)
(* close either connection at any time, be slow or vanish.                 *)
(*                                                                         *)
(* The tasks run in any order here; the task manager runs them in the      *)
(* order of their ids.  A reply, and a chunk of a file, are read and       *)
(* written as a whole.  A chunk of an upload is the number the client gave *)
(* it.                                                                     *)
(***************************************************************************)
EXTENDS Integers, Sequences, FiniteSets

CONSTANTS Commands,    \* what the client may ask: [verb, file]
          Files,       \* the names of files
          OnDisk,      \* what each of them contains before the session
          Listing,     \* the chunk that lists a folder that is not empty
          NoFile,      \* no file, and the name of one that cannot be opened
          MaxRequests, \* bound: requests of the client
          MaxAhead,    \* bound: requests sent and not read yet
          MaxChunks,   \* bound: chunks it uploads
          Timeout,     \* mTimeout, in ticks of the clock
          SyncPeriod,  \* the period of the timer mTimerSyncTimeout, in ticks
          MaxFaults    \* bound: connections lost, clients vanished

ASSUME FilesAssumption == NoFile \notin Files
ASSUME CommandsAssumption ==
    Commands \subseteq [verb : {"port", "pasv", "retr", "list", "stor", "dele",
                                "noop", "quit"},
                        file : Files \cup {NoFile}]
ASSUME BoundsAssumption ==
    /\ MaxRequests \in Nat /\ MaxAhead \in Nat /\ MaxChunks \in Nat /\ MaxFaults \in Nat
    /\ Timeout \in Nat \ {0} /\ SyncPeriod \in Nat \ {0}
ASSUME ListingAssumption == Listing \in Int \ (1 .. MaxChunks)
Absent == <<Listing>>      \* no file has this content
ASSUME OnDiskAssumption == OnDisk \in [Files -> Seq(Int)]

VARIABLES
    step,      \* CTaskFtpServer::mStep
    after,     \* mAfterResponseParam
    resp,      \* mResponse: the reply and the request it was prepared for
    atEnd,     \* its position is at its end
    req,       \* the number of the request that was read last
    connTime,  \* mConnectTime
    writer,    \* CTaskFtpSocketWriter of the control connection
    reader,    \* CTaskFtpSocketReader of it exists
    readTime,  \* its mReadTime, or mWaitBufTime once the connection is closed
    syncTime,  \* the mSleepTime of the timer mTimerSyncTimeout
    ctl,       \* the control connection
    data,      \* iDataSocket
    listening, \* mDataServerSocket waits for the client
    peer,      \* the client's end of the newest data connection
    up, down,  \* chunks on it, from and to the client
    dr,        \* the CTaskFtpSocketReader of the data connection
    dw,        \* the CTaskFtpSocketWriter of it
    io,        \* the file that mIoFile has open
    store,     \* the files
    reqs,      \* all requests the client sent
    replies,   \* all replies it got, and the requests they were sent for
    sent,      \* chunks the client sent on the newest data connection
    wrote,     \* chunks the server wrote to it
    chunks,    \* chunks the client has sent in all
    quiet,     \* ticks since the transfer began or a chunk was moved
    calm,      \* ticks since the transfer began or was quiet for long
    faults

session == <<step, after, resp, atEnd, req>>
control == <<writer, reader, ctl>>
dataConn == <<data, listening, peer, up, down, sent, wrote>>
disk == <<io, store>>
client == <<reqs, chunks>>
moves == <<quiet, calm>>
clocks == <<readTime, syncTime>>
times == <<connTime, clocks, moves>>
vars == <<session, control, replies, dataConn, dr, dw, disk, client, times, faults>>

-----------------------------------------------------------------------------

NoReply == [of |-> 0, code |-> "none", sound |-> TRUE]
NoWriter == [on |-> FALSE, buf |-> NoReply]
NoDataReader == [on |-> FALSE, buf |-> <<>>, time |-> 0]
NoDataWriter == [state |-> "none", src |-> <<>>, off |-> 0, full |-> FALSE, time |-> 0]

Command == reqs[req]
Live == step # "ended"

\* CSocket::IsConnected asks for a descriptor only: it holds of a socket that
\* listens, that is being connected, and whose connection is lost.
IsConnected == data.state # "closed"

Transferring ==
    \/ step = "wait_receive" /\ dr.on
    \/ step = "wait_send" /\ dw.state = "running"

\* PrepareResponse leaves the position behind what it wrote.
PrepareResponse(code, sound) ==
    /\ resp' = [of |-> req, code |-> code, sound |-> sound]
    /\ atEnd' = TRUE

\* Stop, and the destruction of the task with its sockets and tasks.
Stop ==
    /\ step' = "ended"
    /\ ctl' = "down"
    /\ writer' = NoWriter /\ reader' = FALSE
    /\ data' = [data EXCEPT !.state = "closed"] /\ listening' = FALSE
    /\ dr' = NoDataReader /\ dw' = NoDataWriter
    /\ io' = NoFile
    /\ UNCHANGED <<after, resp, atEnd, req, peer, up, down, sent, wrote, store,
                   client, times, faults>>

\* The data socket is destroyed.  The client still gets what is on the way.
CloseDataSocket ==
    /\ data' = [data EXCEPT !.state = "closed"]
    /\ peer' = "none" /\ up' = <<>> /\ down' = <<>>

NewPeer ==
    /\ peer' = "none" /\ up' = <<>> /\ down' = <<>>
    /\ sent' = <<>> /\ wrote' = <<>>

-----------------------------------------------------------------------------
(* Requests: CTaskFtpServer::HandleRequest, in the step that makes the     *)
(* next one STEP_SEND_RESPONSE.                                            *)

Handle == step = "handle_request" /\ step' = "send_response"

\* noop stands for all requests that are answered at once and change nothing,
\* quit for a login that is refused, too: both end the session.
Answer(code, then) ==
    /\ PrepareResponse(code, TRUE)
    /\ after' = then
    /\ UNCHANGED <<dataConn, dr, dw, disk>>

HandleSimple ==
    /\ Handle
    /\ \/ Command.verb = "noop" /\ Answer("200", after)
       \/ Command.verb = "quit" /\ Answer("221", "quit")
    /\ UNCHANGED <<req, control, replies, client, times, faults>>

Content(f) == IF f \in Files THEN store[f] ELSE Absent

HandleDele ==
    /\ Handle /\ Command.verb = "dele"
    /\ PrepareResponse(IF Content(Command.file) = Absent THEN "550" ELSE "200", TRUE)
    /\ store' = [store EXCEPT ![Command.file] = Absent]
    /\ UNCHANGED <<after, req, control, replies, dataConn, dr, dw, io, client, times, faults>>

\* The server connects to the client, and answers when it is connected.
HandlePort ==
    /\ step = "handle_request" /\ Command.verb = "port"
    /\ step' = "wait_connect" /\ connTime' = 0
    /\ data' = [kind |-> "client", state |-> "connecting"]
    /\ NewPeer
    /\ UNCHANGED <<after, resp, atEnd, req, control, replies, listening, dr, dw, disk,
                   client, clocks, moves, faults>>

\* iDataSocket stays what it was until the client is accepted.
HandlePasv ==
    /\ Handle /\ Command.verb = "pasv"
    /\ listening' = TRUE
    /\ data' = IF data.kind = "server" THEN [data EXCEPT !.state = "listening"] ELSE data
    /\ NewPeer
    /\ PrepareResponse("227", TRUE)
    /\ after' = "wait_accept"
    /\ UNCHANGED <<req, control, replies, dr, dw, disk, client, times, faults>>

\* What a retr, list or nlst request sends.
Source ==
    IF Command.verb = "retr" THEN Content(Command.file)
    ELSE IF \A f \in Files : store[f] = Absent THEN <<>> ELSE <<Listing>>

\* GetDataWritter keeps the writer of an earlier transfer, with its time.
\* Without a data connection an assertion returns from the function, and the
\* reply to the request before is sent again.
HandleDownload ==
    /\ Handle /\ Command.verb \in {"retr", "list"}
    /\ IF Source = Absent /\ Command.verb = "retr" THEN
            PrepareResponse("550", TRUE) /\ UNCHANGED <<after, dw>>
       ELSE IF IsConnected THEN
            /\ PrepareResponse("150", TRUE)
            /\ after' = "wait_data"
            /\ dw' = [dw EXCEPT !.state = "suspended", !.src = Source, !.off = 0, !.full = FALSE]
       ELSE UNCHANGED <<resp, atEnd, after, dw>>
    /\ io' = IF Command.verb = "list" THEN io
             ELSE IF Source = Absent THEN NoFile ELSE Command.file
    /\ UNCHANGED <<req, control, replies, dataConn, dr, store, client, times, faults>>

\* The file is created before the data connection is looked for, and the
\* reader starts before the reply is sent.
HandleStor ==
    /\ Handle /\ Command.verb = "stor"
    /\ io' = Command.file
    /\ store' = [store EXCEPT ![Command.file] = <<>>]
    /\ IF Command.file = NoFile THEN
            PrepareResponse("451", TRUE) /\ UNCHANGED <<dr, after>>
       ELSE IF IsConnected THEN
            /\ dr' = [NoDataReader EXCEPT !.on = TRUE]
            /\ PrepareResponse("150", TRUE)
            /\ after' = "receive_file"
       ELSE UNCHANGED <<dr, resp, atEnd, after>>
    /\ UNCHANGED <<req, control, replies, dataConn, dw, client, times, faults>>

HandleRequest ==
    \/ HandleSimple \/ HandleDele \/ HandlePort \/ HandlePasv
    \/ HandleDownload \/ HandleStor

-----------------------------------------------------------------------------
(* The other steps of CTaskFtpServer::Run.                                 *)

SendResponse ==
    /\ step = "send_response"
    /\ step' = "wait_response"
    /\ writer' = [on |-> TRUE, buf |-> NoReply]
    /\ atEnd' = FALSE
    /\ UNCHANGED <<after, resp, req, reader, ctl, replies, dataConn, dr, dw, disk, client,
                   times, faults>>

ReadRequest ==
    /\ step = "read_request"
    /\ step' = "wait_request"
    /\ reader' = TRUE
    /\ UNCHANGED <<after, resp, atEnd, req, writer, ctl, replies, dataConn, dr, dw, disk, client,
                   times, faults>>

GotRequest ==
    /\ step = "wait_request"
    /\ req < Len(reqs)
    /\ req' = req + 1
    /\ step' = "handle_request"
    /\ UNCHANGED <<after, resp, atEnd, control, replies, dataConn, dr, dw, disk, client,
                   times, faults>>

\* STEP_WAIT_CONNECT_COMPLETE and STEP_PORT_CONNECTED.
Connected ==
    /\ step = "wait_connect"
    /\ peer # "none"
    /\ data' = [data EXCEPT !.state = "open"]
    /\ PrepareResponse("200", TRUE)
    /\ step' = "send_response" /\ connTime' = 0
    /\ UNCHANGED <<after, req, control, replies, listening, peer, up, down, sent, wrote,
                   dr, dw, disk, client, clocks, moves, faults>>

Accept ==
    /\ step = "wait_accept"
    /\ peer # "none"
    /\ data' = [kind |-> "server", state |-> "open"]
    /\ listening' = FALSE
    /\ step' = "read_request"
    /\ UNCHANGED <<after, resp, atEnd, req, control, replies, peer, up, down, sent, wrote,
                   dr, dw, disk, client, times, faults>>

ServerRun ==
    HandleRequest \/ SendResponse \/ ReadRequest \/ GotRequest \/ Connected \/ Accept

-----------------------------------------------------------------------------
(* The control connection: its writer and its reader.                      *)

\* Mutant: the next request is read while data is sent.
AfterResponseGoingOn ==
    /\ step' = IF after = "wait_accept" THEN "wait_accept" ELSE "read_request"
    /\ dw' = IF after = "wait_data" THEN [dw EXCEPT !.state = "running"] ELSE dw

\* AfterResponse, unless it stops the session.
AfterResponse ==
    /\ step' = CASE after = "wait_data" -> "wait_send"
                 [] after = "wait_accept" -> "wait_accept"
                 [] after = "receive_file" -> "wait_receive"
                 [] OTHER -> "read_request"
    /\ dw' = IF after = "wait_data" THEN [dw EXCEPT !.state = "running"] ELSE dw

\* EVENT_FINISH: the reply has been written.  A data reader that stopped
\* meanwhile has prepared the next one.
Finish ==
    /\ writer' = NoWriter
    /\ IF step = "wait_response"
       THEN AfterResponse /\ after' = "none" /\ quiet' = 0 /\ calm' = 0
       ELSE UNCHANGED <<step, after, dw, moves>>
    /\ UNCHANGED <<resp, req, reader, dataConn, dr, disk, client, connTime, clocks, faults>>

Closing == step = "wait_response" /\ after = "quit"

\* Nothing is read from a reply that was prepared after the writer's start:
\* an error, which counts as finished while the connection is open.
WriterLoad ==
    /\ writer.on /\ ctl # "down"
    /\ writer.buf = NoReply
    /\ IF atEnd
       THEN ~Closing /\ Finish /\ UNCHANGED atEnd
       ELSE /\ writer' = [writer EXCEPT !.buf = resp]
            /\ atEnd' = TRUE
            /\ UNCHANGED <<step, after, resp, req, reader, dataConn, dr, dw, disk, client,
                           times, faults>>
    /\ UNCHANGED <<ctl, replies>>

Reply(r) == [of |-> r.of, to |-> req, code |-> r.code, sound |-> r.sound]

WriterWrite ==
    /\ writer.on /\ ctl # "down"
    /\ writer.buf # NoReply
    /\ ~Closing
    /\ Finish
    /\ replies' = IF ctl = "up" THEN Append(replies, Reply(writer.buf)) ELSE replies
    /\ UNCHANGED <<atEnd, ctl>>

\* The connection is closed and the task stopped when the reply is written.
WriterWriteLast ==
    /\ writer.on /\ ctl # "down"
    /\ writer.buf # NoReply
    /\ Closing
    /\ replies' = IF ctl = "up" THEN Append(replies, Reply(writer.buf)) ELSE replies
    /\ Stop

\* A write to a connection that the client has closed may fail.
WriterFail ==
    /\ writer.on /\ ctl = "fin"
    /\ writer.buf # NoReply
    /\ ctl' = "down"
    /\ readTime' = 0
    /\ UNCHANGED <<session, writer, reader, replies, dataConn, dr, dw, disk, client,
                   connTime, syncTime, moves, faults>>

WriterStop ==
    /\ writer.on /\ ctl = "down"
    /\ Stop /\ UNCHANGED replies

WriterRun == WriterLoad \/ WriterWrite \/ WriterWriteLast \/ WriterFail \/ WriterStop

ReaderClose ==
    /\ reader /\ ctl = "fin"
    /\ ctl' = "down"
    /\ readTime' = 0
    /\ UNCHANGED <<session, writer, reader, replies, dataConn, dr, dw, disk, client,
                   connTime, syncTime, moves, faults>>

\* The session goes on as long as requests are buffered (see WaitBufTimeout).
ReaderStop ==
    /\ reader /\ ctl = "down"
    /\ req = Len(reqs)
    /\ Stop /\ UNCHANGED replies

ReaderRun == ReaderClose \/ ReaderStop

-----------------------------------------------------------------------------
(* The writer of the data connection.                                      *)

\* EVENT_FINISH: the transfer is complete, and the data connection closed.
FinishData(w) ==
    /\ dw' = [w EXCEPT !.state = "suspended"]
    /\ step' = "send_response"
    /\ PrepareResponse("226", wrote' = dw.src)
    /\ CloseDataSocket
    /\ io' = NoFile
    /\ UNCHANGED <<after, req>>

\* Mutant: complete when all of the file has been read.
EndReached(w) == w.off = Len(w.src)

IsComplete(w) == w.off = Len(w.src) /\ ~w.full

Proceed(w, onTheWay) ==
    IF IsComplete(w) THEN FinishData(w)
    ELSE /\ dw' = w /\ down' = onTheWay
         /\ UNCHANGED <<session, data, peer, up, io>>

\* An empty file is a read error, which finishes all the same.
DataWriterLoad ==
    /\ dw.state = "running" /\ IsConnected
    /\ ~dw.full
    /\ UNCHANGED wrote
    /\ IF dw.off = Len(dw.src) THEN FinishData(dw)
       ELSE Proceed([dw EXCEPT !.off = @ + 1, !.full = TRUE], down)
    /\ UNCHANGED <<control, replies, listening, sent, dr, store, client, times, faults>>

\* The socket takes a chunk when the client has taken the one before, and
\* when the client is gone until it is told.
DataWriterWrite ==
    /\ dw.state = "running" /\ IsConnected
    /\ dw.full
    /\ down = <<>> /\ peer # "lost"
    /\ wrote' = Append(wrote, dw.src[dw.off])
    /\ quiet' = 0
    /\ Proceed([dw EXCEPT !.full = FALSE, !.time = 0],
               IF peer = "fin" THEN down ELSE <<dw.src[dw.off]>>)
    /\ UNCHANGED <<control, replies, listening, sent, dr, store, client, connTime, clocks, calm,
                   faults>>

DataWriterFail ==
    /\ dw.state = "running" /\ IsConnected
    /\ dw.full
    /\ peer \in {"fin", "lost"}
    /\ data' = [data EXCEPT !.state = "closed"]
    /\ UNCHANGED <<session, control, replies, listening, peer, up, down, sent, wrote, dr, dw, disk,
                   client, times, faults>>

\* EVENT_QUIT, which nobody handles: the session goes on waiting.
DataWriterStop ==
    /\ dw.state = "running" /\ ~IsConnected
    /\ dw' = NoDataWriter
    /\ UNCHANGED <<session, control, replies, dataConn, dr, disk, client, times, faults>>

DataWriterRun ==
    DataWriterLoad \/ DataWriterWrite \/ DataWriterFail \/ DataWriterStop

-----------------------------------------------------------------------------
(* The reader of the data connection.                                      *)

\* PutDataToDesFile, at the beginning of Run and in Stop.
PutDataToDesFile == store' = [store EXCEPT ![io] = @ \o dr.buf]

DataReaderRead ==
    /\ dr.on /\ IsConnected
    /\ up # <<>> \/ dr.buf # <<>>
    /\ PutDataToDesFile
    /\ IF up # <<>>
       THEN /\ dr' = [dr EXCEPT !.buf = <<Head(up)>>, !.time = 0]
            /\ up' = Tail(up)
            /\ quiet' = 0
       ELSE /\ dr' = [dr EXCEPT !.buf = <<>>]
            /\ UNCHANGED <<up, quiet>>
    /\ UNCHANGED <<session, control, replies, data, listening, peer, down, sent, wrote, dw, io,
                   client, connTime, clocks, calm, faults>>

DataReaderClose ==
    /\ dr.on /\ IsConnected
    /\ up = <<>> /\ peer \in {"fin", "lost"}
    /\ PutDataToDesFile
    /\ dr' = [dr EXCEPT !.buf = <<>>]
    /\ data' = [data EXCEPT !.state = "closed"]
    /\ UNCHANGED <<session, control, replies, listening, peer, up, down, sent, wrote, dw, io,
                   client, times, faults>>

\* Stop and EVENT_QUIT: complete, whatever the reason and whatever the step.
QuitData ==
    /\ dr' = NoDataReader
    /\ PutDataToDesFile
    /\ step' = "send_response"
    /\ PrepareResponse("226", peer = "fin" => store'[io] = sent)
    /\ io' = NoFile
    /\ data' = [data EXCEPT !.state = "closed"]
    /\ UNCHANGED <<after, req, control, replies, listening, peer, up, down, sent, wrote, dw,
                   client, times, faults>>

DataReaderStop == dr.on /\ ~IsConnected /\ QuitData

DataReaderRun == DataReaderRead \/ DataReaderClose \/ DataReaderStop

-----------------------------------------------------------------------------
(* The client and the network.                                             *)

ServerUnchanged == UNCHANGED <<session, writer, reader, replies, data, listening, wrote, dr, dw, disk>>

Send(c) ==
    /\ Live /\ ctl = "up"
    /\ Len(reqs) < MaxRequests /\ Len(reqs) - req < MaxAhead
    /\ reqs' = Append(reqs, c)
    /\ readTime' = 0
    /\ ServerUnchanged
    /\ UNCHANGED <<ctl, peer, up, down, sent, chunks, connTime, syncTime, moves, faults>>

CloseControl ==
    /\ Live /\ ctl = "up"
    /\ ctl' = "fin"
    /\ ServerUnchanged
    /\ UNCHANGED <<peer, up, down, sent, client, times, faults>>

Connect ==
    /\ Live /\ ctl # "silent" /\ peer = "none"
    /\ listening \/ data.state = "connecting"
    /\ peer' = "open"
    /\ ServerUnchanged
    /\ UNCHANGED <<ctl, up, down, sent, client, times, faults>>

SendChunk ==
    /\ Live /\ peer = "open"
    /\ chunks < MaxChunks
    /\ chunks' = chunks + 1
    /\ up' = Append(up, chunks') /\ sent' = Append(sent, chunks')
    /\ ServerUnchanged
    /\ UNCHANGED <<ctl, peer, down, reqs, times, faults>>

TakeChunk ==
    /\ Live /\ peer = "open" /\ down # <<>>
    /\ down' = <<>>
    /\ ServerUnchanged
    /\ UNCHANGED <<ctl, peer, up, sent, client, times, faults>>

\* The client closes the data connection, or the network breaks it.
ClosePeer ==
    /\ Live /\ peer = "open"
    /\ peer' = "fin" /\ down' = <<>>
    /\ ServerUnchanged
    /\ UNCHANGED <<ctl, up, sent, client, times, faults>>

Fault == faults < MaxFaults /\ faults' = faults + 1

Lose ==
    /\ Live /\ peer = "open"
    /\ Fault
    /\ peer' = "lost" /\ down' = <<>>
    /\ \E n \in 0 .. Len(up) : up' = SubSeq(up, 1, n)
    /\ ServerUnchanged
    /\ UNCHANGED <<ctl, sent, client, times>>

\* The client's host is gone, and nobody tells the server.
Vanish ==
    /\ Live /\ ctl = "up"
    /\ Fault
    /\ ctl' = "silent"
    /\ peer' = IF peer = "open" THEN "silent" ELSE peer
    /\ ServerUnchanged
    /\ UNCHANGED <<up, down, sent, client, times>>

ClientStep ==
    \/ \E c \in Commands : Send(c)
    \/ CloseControl \/ Connect \/ SendChunk \/ TakeChunk \/ ClosePeer \/ Lose \/ Vanish

-----------------------------------------------------------------------------
(* The clock.  Tasks run many times in a tick: time passes when none of    *)
(* them can go on.  A task that waits adds the tick to its time, and        *)
(* compares it with the timeout, in the same run.                          *)

ServerBusy ==
    \/ step \in {"handle_request", "send_response", "read_request"}
    \/ step = "wait_request" /\ req < Len(reqs)
    \/ step \in {"wait_connect", "wait_accept"} /\ peer # "none"

ReaderBusy == reader /\ (ctl = "fin" \/ (ctl = "down" /\ req = Len(reqs)))

DataReaderBusy ==
    dr.on /\ (~IsConnected \/ up # <<>> \/ dr.buf # <<>> \/ peer \in {"fin", "lost"})

DataWriterBusy ==
    dw.state = "running" /\ (~IsConnected \/ ~dw.full \/ down = <<>> \/ peer \in {"fin", "lost"})

Idle ==
    /\ Live
    /\ ~(ServerBusy \/ writer.on \/ ReaderBusy \/ DataReaderBusy \/ DataWriterBusy)

\* Mutants: the timer asks for the writer only, or not for the connection.
SyncedByWriter == dw.state # "none" /\ IsConnected
SyncedAlways == dr.on \/ dw.state # "none"

\* SyncTimeout: the control connection is as idle as the data connection.
Synced == (dr.on \/ dw.state # "none") /\ IsConnected

DataTime == IF dr.on THEN dr.time ELSE dw.time

\* The timer runs it once in a period, before or after any other task; in
\* between, the reader goes on from the time it was given.
SyncTimeout ==
    /\ Live /\ syncTime = SyncPeriod
    /\ syncTime' = 0
    /\ readTime' = IF Synced /\ ctl # "down" THEN DataTime ELSE readTime
    /\ UNCHANGED <<session, control, replies, dataConn, dr, dw, disk, client, connTime, moves, faults>>

Expired(time) == time + 1 >= Timeout

ReaderExpires == reader /\ Expired(readTime)
ConnectExpires == step = "wait_connect" /\ Expired(connTime)
DataReaderExpires == dr.on /\ Expired(dr.time)
DataWriterExpires == dw.state = "running" /\ Expired(dw.time)

ReaderTimeout ==
    /\ Idle /\ ctl \in {"up", "silent"} /\ ReaderExpires
    /\ Stop /\ UNCHANGED replies

\* The connection is closed, but the next request in the buffer is not read.
WaitBufTimeout ==
    /\ Idle /\ ctl = "down" /\ ReaderExpires
    /\ Stop /\ UNCHANGED replies

ConnectTimeout ==
    /\ Idle /\ ConnectExpires
    /\ Stop /\ UNCHANGED replies

DataReaderTimeout == Idle /\ DataReaderExpires /\ QuitData

DataWriterTimeout ==
    /\ Idle /\ DataWriterExpires
    /\ data' = [data EXCEPT !.state = "closed"]
    /\ dw' = NoDataWriter
    /\ UNCHANGED <<session, control, replies, listening, peer, up, down, sent, wrote, dr, disk,
                   client, times, faults>>

\* Quiet for so long that the control connection may expire before SyncTimeout
\* runs again.
TooQuiet(ticks) == ticks + SyncPeriod + 1 >= Timeout

Tick ==
    /\ Idle /\ syncTime < SyncPeriod
    /\ ~(ReaderExpires \/ ConnectExpires \/ DataReaderExpires \/ DataWriterExpires)
    /\ readTime' = readTime + 1
    /\ syncTime' = syncTime + 1
    /\ connTime' = IF step = "wait_connect" THEN connTime + 1 ELSE connTime
    /\ quiet' = IF ~Transferring THEN 0
                ELSE IF quiet < Timeout THEN quiet + 1 ELSE quiet
    /\ calm' = IF ~Transferring \/ TooQuiet(quiet') THEN 0
               ELSE IF calm <= SyncPeriod THEN calm + 1 ELSE calm
    /\ dr' = IF dr.on THEN [dr EXCEPT !.time = @ + 1] ELSE dr
    /\ dw' = IF dw.state = "running" THEN [dw EXCEPT !.time = @ + 1] ELSE dw
    /\ UNCHANGED <<session, control, replies, dataConn, disk, client, faults>>

Clock ==
    \/ ReaderTimeout \/ WaitBufTimeout \/ ConnectTimeout
    \/ DataReaderTimeout \/ DataWriterTimeout \/ SyncTimeout \/ Tick

-----------------------------------------------------------------------------

\* CTaskFtpAccepter has accepted the client, and prepared the greeting.
Init ==
    /\ step = "send_response" /\ after = "none"
    /\ resp = [of |-> 0, code |-> "220", sound |-> TRUE] /\ atEnd = TRUE
    /\ req = 0 /\ connTime = 0
    /\ writer = NoWriter /\ reader = FALSE /\ readTime = 0 /\ syncTime = 0
    /\ ctl = "up"
    /\ data = [kind |-> "none", state |-> "closed"] /\ listening = FALSE
    /\ peer = "none" /\ up = <<>> /\ down = <<>> /\ sent = <<>> /\ wrote = <<>>
    /\ dr = NoDataReader /\ dw = NoDataWriter
    /\ io = NoFile /\ store = OnDisk
    /\ reqs = <<>> /\ chunks = 0 /\ replies = <<>>
    /\ quiet = 0 /\ calm = 0 /\ faults = 0

Next ==
    \/ ServerRun \/ WriterRun \/ ReaderRun \/ DataReaderRun \/ DataWriterRun
    \/ Clock
    \/ ClientStep

Spec == Init /\ [][Next]_vars

\* As long as a task can go on, the task manager runs one of them, and when none
\* can, the clock goes on.  The client need not do anything.
FairSpec ==
    /\ Spec
    /\ WF_vars(ServerRun \/ WriterRun \/ ReaderRun \/ DataReaderRun \/ DataWriterRun \/ Clock)

-----------------------------------------------------------------------------
(* Properties.                                                             *)

Chunk == (1 .. MaxChunks) \cup {Listing} \cup UNION {{OnDisk[f][i] : i \in DOMAIN OnDisk[f]} : f \in Files}

\* The type invariant; a time is below its timeout, and a task that
\* transfers has its file.
TypeOK ==
    /\ step \in {"send_response", "wait_response", "read_request", "wait_request",
                 "handle_request", "wait_connect", "wait_accept", "wait_send",
                 "wait_receive", "ended"}
    /\ after \in {"none", "quit", "wait_data", "wait_accept", "receive_file"}
    /\ resp.of \in 0 .. req /\ req \in 0 .. Len(reqs) /\ Len(reqs) <= MaxRequests
    /\ atEnd \in BOOLEAN /\ writer.on \in BOOLEAN /\ reader \in BOOLEAN
    /\ readTime \in 0 .. Timeout - 1 /\ connTime \in 0 .. Timeout - 1 /\ quiet \in 0 .. Timeout
    /\ syncTime \in 0 .. SyncPeriod /\ calm \in 0 .. SyncPeriod + 1
    /\ ctl \in {"up", "fin", "silent", "down"}
    /\ data \in [kind : {"none", "client", "server"},
                 state : {"closed", "listening", "connecting", "open"}]
    /\ listening \in BOOLEAN
    /\ peer \in {"none", "open", "fin", "lost", "silent"}
    /\ up \in Seq(Chunk) /\ sent \in Seq(Chunk) /\ wrote \in Seq(Chunk)
    /\ Len(down) <= 1
    /\ dr.on \in BOOLEAN /\ dr.time \in 0 .. Timeout - 1 /\ (dr.on => io \in Files)
    /\ dw.state \in {"none", "suspended", "running"} /\ dw.time \in 0 .. Timeout - 1
    /\ dw.off \in 0 .. Len(dw.src)
    /\ io \in Files \cup {NoFile} /\ store \in [Files -> Seq(Chunk)]
    /\ chunks \in 0 .. MaxChunks /\ faults \in 0 .. MaxFaults

Transfer == {"retr", "list", "stor"}

\* The client gets the replies to its requests in their order, one to each
\* and one before and one after a transfer.  "Transfer complete" means that
\* everything was handed to the connection, or that everything the client
\* sent before it closed the connection is in the file.  Only a request to
\* transfer without a data connection gets the reply to an earlier request.
RepliesMatch ==
    /\ \A i \in DOMAIN replies : LET r == replies[i] IN
        /\ r.code = "226" => r.sound
        /\ r.of = r.to \/ (r.of < r.to /\ reqs[r.to].verb \in Transfer)
    /\ \A i, j \in DOMAIN replies : i < j =>
        \/ replies[i].to < replies[j].to
        \/ /\ replies[i].to = replies[j].to /\ replies[i].of = replies[j].of
           /\ replies[i].code = "150" /\ replies[j].code = "226"

\* The timeout of the control connection, on which nothing is said during a
\* transfer, does not end a session whose data moves (SyncTimeout), unless
\* the transfer began, or was quiet for nearly as long as the timeout, within
\* the last period of the timer.
NotCutStep == ReaderTimeout => ~Transferring \/ calm <= SyncPeriod
NotCutWhileMoving == [][NotCutStep]_vars

\* SyncTimeout takes the time of a data writer that is suspended, which
\* stands still, as long as a data connection is open.
Frozen == IsConnected /\ ~dr.on /\ dw.state = "suspended"

\* A session whose client has nothing more to say ends, also when the client
\* or a connection is lost and when a transfer waits for a task that is gone;
\* unless it is frozen for ever.
SessionEnds == <>(~Live) \/ <>[]Frozen

=============================================================================
