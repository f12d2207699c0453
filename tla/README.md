# SmallToolsV2 in TLA+

SmallToolsV2 is a C++ program of cooperative tasks on one thread, a message bus
between processes built on them, remote calls on the bus, and applications of
these: a file server, a WebSocket server, an FTP server, a remote desktop, all
scripted in Lua. This directory models the scheduler, the bus, its links, the
remote calls, the synchronisation of folders and a session of the FTP server,
checks them with TLC and proves their invariants with TLAPS for all values of
the constants.

## The system

| part | state | operations | hard behaviour |
|---|---|---|---|
| task scheduler (`common/taskmgr.cpp`) | a table of tasks sorted by id; per task quit, suspended, sleeping, parent | create, quit, suspend, resume, sleep; `Schedule`, also from inside a task; `CheckDelete` | tasks change the table while it is walked; nested schedules; plain parent pointers; a full table |
| message bus, client (`messagepeer.cpp`, `taskpeerclient.cpp`) | sending queue, step of the connection task | send, connect, reconnect for ever, login (INIT_NAME) | the head of the queue is written again after a failure; a full queue |
| message bus, center (`peerglobals.cpp`, `taskpeerserver.cpp`, `peerproxy.cpp`) | one task per connection, one proxy per name with a pending queue | accept, login, refuse, kick, dispatch, broadcast, kill idle proxies | old connections outlive their client; late logins; restart |
| link (`tasklinkrpc*.cpp`, `socketreaderwriter.cpp`) | step, retries, a reader and a writer task with their timers and buffers | write and read a package in pieces, retry, stop, reset, heartbeat, timeout | a connection that breaks or is reset in the middle of a package; one that is gone and says nothing |
| remote calls (`common/callbackmap.cpp`, `rpc_service_base.cpp`, `peerservicebase.cpp`) | hash chains of callbacks, id counter | call, answer, partial answer, timer | closures that make calls in the middle of a walk; late and repeated answers; restart |
| task runner (`common/taskrunner.cpp`) | a list of closures shared by threads | add, add and wait, schedule | data races between threads |
| file server and transfers (`x-file-server/`) | sessions, open files; the snapshot of a folder, the lists of what to create and delete, the upload | open, read, write, close, list, create, delete, synchronise | a session that ends under its client; descriptors that are reused; a sync that fails half way; edits while it runs |
| WebSocket (`websocket/`) | handshake and framing | read, write, remote calls | reader and writer tasks started at different steps |
| FTP server (`ftpserver/`) | step, reply, control connection and data connection with their reader and writer tasks | requests, replies, upload, download, listing, three timeouts and a timer that keeps them in step | a data connection that ends before its reply is written; tasks that end unnoticed; an idle control connection while data moves |
| remote desktop, process manager, resource manager, Lua bindings, platform | see `PROJECT.json` | | |

The bus runs on the scheduler: every connection is a task whose reader and
writer are its children; closures are the calls from one part to another, and
all of them run inside some task's `Run`. The remote calls run on the bus: a
request is a message to a name, an answer a message back with the id of the
callback. Threads meet only in the task runner.

`ASSERT(f)` in this code logs and returns 0 from the function; a failed
assertion is therefore an early return, and the models treat it as one.

## Modules

`TaskMgr` - the scheduler. `index` is the table as a sequence of ids, `stack`
the schedules in progress, each with the slot it is at and the length it read
at its beginning. Between `Visit` and `EndRun` the actions of `UserCode`
(`InitTask`, `Quit`, `Suspend`, `Resume`, `Sleep`, `CancelSleep`,
`NestedSchedule`) are what a task's `Run` may do. `CheckDelete` destroys one
dead task per step; its destructor quits the tasks it owns, as links do with
their reader and writer.

`PeerBus` - clients, network and message center. A connection `<<client, i>>`
also names the server task that serves it. Actions `C_...` are the client's
handlers, `S_...` those of a server task; `AutoKillPeers` is a tick of the
killer, `Cut` the network and `Restart` a new process of the center. A package
counts as sent when all of it was written, so the second of sleep in `Retry`,
heartbeats and the 90 s timeout appear as "the error may be noticed at any time
after the connection broke". `MCPeerBus` gives it instances.

`RpcCalls` - the calls of one client process: the hash chains of
`CCallbackMap`, answers and the timer. A tick of the timer is a walk of one
step per callback, because the closure of a call that has timed out may make
the next call in the middle of the walk; the walk reads the link to the next
callback before it runs the closure, which `Unlink` models. The server and the
bus are one external action that delivers what reaches the client.
`MCRpcCalls` gives it instances.

`Link` - one direction of a link: the packages of the queue `out` are cut in
pieces (header, header data, data), which the writer `w` puts on the stream
`wire[c]` of connection `c` and the reader `rd[c]` takes off. `Prepare...`,
`Write`, `Read...` and `Take` are the steps of the two tasks, `ConnectionClosed`,
`WriteTimeout`, `ReadError` and `ReadTimeout` the ways they find out that a
connection is gone, `Retry` and `Connect` those of `CTaskLinkRpc`, `Reset...`
the two halves of `Reset`. `PackageChannel` is its abstract specification: a
queue, and on each connection a flight of whole packages that arrive in order,
once, and of which a failure loses the last ones. Packages are numbered as they
are queued, so that a flight is a set whose least number arrives first. `Link`
implements it (property `Channel`, with the mapping in the `INSTANCE` at the end
of the module): a package is in flight when its last piece is on the stream.
`PeerBus` builds on packages of that kind. `MCLink` gives it an instance.

`FolderSync` - a client that keeps a remote folder the mirror of a local one,
and the server. `sync` is `CTaskXServerSyncFolder` with its lists, `up` the
`CTaskXServerWriteFile` it starts for each file, `call` the remote call under
way (there is one at a time), `req` and `ans` what the bus carries, `handles`
and `cwd` the open files and the current directory of the session. The two lists
are sets; the head of the ordered list is `Least` of one and `Greatest` of the
other. Each callback of the two tasks is an action, with its error path, and so
is each handler of the server; a call may time out while its request or its
answer is still on the way, and the server then executes what nobody waits for.
Paths are relative: the server resolves them against `cwd` (`Here`), which is
the folder the application changed into and, in a session made anew after it
expired or the server restarted, the root (`NewSession`). A file on the server
is therefore named by a directory and a path. The user may put a file back as it
was, with its size and time (`PutBack`), which the comparison cannot tell from
one that was never touched. An upload has the size the source had when it was
opened (`up.size`), which `CFile` keeps: what is added later is not sent, and a
source that was cut short ends it with an error. Two variables are history: `at`
is where the last request for a path was served, `begun` the paths that a sync
found changed and that none has mirrored since. `MCFolderSync` gives it
instances.

`FtpSession` - one `CTaskFtpServer`. `step`, `after` and `resp` are `mStep`,
`mAfterResponseParam` and `mResponse`; `writer` and `reader` the tasks of the
control connection, `dr` and `dw` those of the data connection `data`, which
`IsConnected` takes to be connected as long as it has a descriptor. Each verb
has a `Handle...` action, each branch of `Run` an action, and so has each event
the tasks report. `Tick` passes time when no task can go on; the actions that
end in `...Timeout`, but for `SyncTimeout`, are the same instant for a task
whose time is up, as it adds and compares in one `Run`. `SyncTimeout` is the
timer of the session, a task of its own: once in `SyncPeriod` ticks, before or
after the others, it gives the reader of the control connection the time of the
data task, and until the next period the reader counts on from there
(`readTime`). `quiet` and `calm` are history: how long no chunk has moved, and
how long ago the transfer began or had been quiet for nearly the timeout. The
client is external and may do anything at any time. An upload to a file that
cannot be opened is answered 451; what is sent of a file that is not there is
nothing (`Content`). `MCFtpSession` gives it an instance.

`TaskMgrProofs`, `PeerBusProofs`, `RpcCallsProofs`, `LinkProofs`,
`FolderSyncProofs` and `FtpSessionProofs` hold the theorems about the module
each is named after, `LinkChannelProofs` the refinement of `PackageChannel`,
`SequenceLemmas` the facts about sequences several of them
cite: what removing, replacing, appending and taking the head does to positions
and prefixes.

Every module holds its own mutants, marked as such: definitions changed the
way a slip would change the code, each of which makes a property fail.

## What the runs check

All bounds are CONSTANTS of the modules, set in the `.cfg` files. Deadlock is
checked for the scheduler, whose main loop never stops, and not for the others:
those models stop when their bounded inputs are used up.

| run | instance | shows |
|---|---|---|
| `task_table` (`TaskMgr.cfg`) | a table of 3, three tasks in all, schedules nested 2 deep | the table stays sorted, a running task is not destroyed, no parent pointer dangles |
| `task_progress` (`TaskMgrLive.cfg`) | a table of 2, three tasks, schedules nested 2 deep, fair | types; a dead task is destroyed; a task that stays runnable is run |
| `bus_trusting` | 3 clients, one refused, 2 messages, one a broadcast, 1 cut, queues of 2 | types and bounded queues; `AttachmentMutual`, `AtMostOnce`, `AttachReplacesDead`, `PendingKept` |
| `bus_served` | one client, 6 connections, a cut, a restart, fair | the client ends up logged in; its old connections end |
| `bus_settled` | without trust, two clients of one name and a sender, a cut, fair | `AttachmentMutual`, `PendingKept`; everybody is logged in or refused for good; pending messages go |
| `bus_first_package` | a queue of 1 that is full | violated: a message goes out before the name |
| `bus_context` | a message before its receiver logs in | violated: the proxy has no global context |
| `rpc_calls` | 4 calls, 2 buckets, a map of 3, 2 lives, late and lost answers, fair | `EndsOnce`, `OwnAnswer`, `Kept`, `SizeCounts`; every registered call ends |
| `link` | 2 packages, one without data, 2 connections, 1 fault, buffers of 2 pieces, fair | whole packages only; no false timeout; what is gone is noticed; the queue drains; `Channel` |
| `folder_sync` | a folder with a file in it and a file beside it, 2 edits, 2 syncs, 1 fault, fair | types; `SnapshotTrue`, `MirrorOnSuccess`, `OneRemoteFolder`, `NoStrayWrite`, `LeaksAreFaults`; every sync ends |
| `folder_sync_refused` | the same | violated: a sync with a folder the server does not delete goes on or ends |
| `ftp_session` | one file, 3 requests, 1 chunk uploaded, 2 downloaded, 1 fault, timeouts of 4 ticks, a period of 1, fair | types; replies match requests; no cut while data moves; the session ends |

Why the bounds are enough. In `task_progress` the table fills up and refuses the
third task, in `task_table` it is compacted in the middle of a walk; two schedules
are one inside the other, so that a task is created, put to sleep or quit in a
pass inside the `Run` of another and must still get its turn. On the bus, the interesting cases need
two connections of one name and a third event (a cut, a kick, a killer's tick)
between them; two messages show order, loss and duplication, and a queue of 2 is
filled by them and INIT_NAME. Where a client needs to get through, it has one
connection more than the cuts, the restart and a full queue can cost it; `Cut`
spares the last connection, so that a client is never left waiting for a
connection the bound forbids. For the calls, three ids share a chain, so that
the walk meets a first, a middle and a last callback while a fourth call is
made. Nothing makes the bus deliver, so that every answer may be lost, and to a
map that has forgotten a call an answer that comes late is one that comes twice.
Calls are numbered in the order in which they are made, which loses nothing:
they do not differ otherwise.

On the link, a package has up to three pieces and the buffers hold two: the
writer is stopped in the middle of a package, and a fault at any point leaves a
tail on either side of it. Pieces do not tell where they belong, so that a
reader that is out of step joins pieces of two packages. A timeout of two ticks
puts the heartbeat half way. Time passes only when no task can go on, and the
clocks of both ends tick together.

With a folder, a file in it and a file beside it, all of them there at first or
none, two edits make, change, put back and remove them before, between and
during two syncs, of which the first may fail at any call. Two are what the hazards take: a file is changed,
half uploaded by a sync that fails, and put back; or it is changed twice. Files
of two chunks can be half uploaded, every other edit writes a shorter one, so
that an open source is cut short or grows, and two descriptors are enough for
one to be reused. One fault is one session lost in the middle of a sync; between
syncs sessions expire freely. The run has 1.0 million states.

Three requests of an FTP client are a data connection, a transfer and one
request more, which meets what the transfer has left behind: a second
connection, another transfer, an end. `MaxAhead` lets one of them arrive before
its time; downloads have two chunks and the socket takes one, so that a slow
client stops the writer. A timeout of four ticks and a period of one let a
transfer be quiet, move, and be quiet again within the limit, with the timer
before or after each of these; with two ticks hardly any transfer would be
neither too young nor too quiet for `NotCutWhileMoving` to speak of it. An upload
of one chunk moves between two ticks that are within the limit each, which is
what that property needs. The run has 1.6 million states.

### Properties worth a comment

`AtMostOnce` is checked in trust mode. Without trust the code can violate it: a
client whose connection dies before INIT_NAME is written has two of them in its
queue, and the second is refused while a message is being written; the message
arrives and stays pending. `PROJECT.json` lists this under the hazards.

`AttachReplacesDead` is checked in trust mode, where kicks can violate it, and
proved for both modes of login.

`PendingKept` names all ways in which a message may leave the pending queue of
a name: written, dropped with the proxy by the killer, or dropped with the
proxy by a login in trust mode.

`Kept` and `SizeCounts` state exactly what `EnumAll` guarantees and what not: a
callback added behind the last one of its chain, by that one's own closure, is
cut off with it, never answered, never timed out, and counted for ever.
`OwnAnswer` holds within a life of the process; after a restart the ids begin
again, and an answer that waited for the name can end a call of the new process.

`Channel` and `Intact` exempt connections that a `Reset` has torn in the middle
of a package: reader and writer are replaced (`tasklinkrpc.cpp:383`) and the
stream is out of step until the connection ends. `QueueDrains` allows a link
that has stopped, because `mRetries` counts every connection ever made and not
those that failed in a row (`tasklinkrpc.cpp:258`).

`SnapshotTrue` and `MirrorOnSuccess` speak of the directory in which the last
request for a path was served. That this is one directory for all paths of a
sync, `OneRemoteFolder`, holds as long as there was no fault: requests put the
timer of the session back, so that it does not expire under a client at work. It
does not hold when the session is lost in the middle of a sync, because requests
were delayed for 60 s or the server restarted: the new session begins at "/"
(`x_file_server.cpp:132`), the sync never sets its directory again, nothing reads
its `m_remote_folder`, and what is left of it is done below the root while it
ends without an error.

`SnapshotTrue` and `MirrorOnSuccess` exempt the files in `begun` that are as in the snapshot: a sync uploads a changed file, wholly or in part,
and fails; the user puts the old file back, with its size and time; the next
sync finds nothing changed (`file_changed`, `x_folder_differ.cpp:190`), reports
success, and the server keeps the other file. The exemption ends with the next
sync that finds the file changed and succeeds, if nobody touches the file after
its listing.

`MirrorOnSuccess` speaks of files, of new folders, and of what is gone. It does
not hold of a folder that is in the snapshot: one that a failed sync deleted
remotely and that was made again locally counts as unchanged
(`x_folder_differ.cpp:224`) and is never created again, while syncs report
success. `SyncEnds` exempts the refused folder, which has a run of its own.

`RepliesMatch` holds with one exception, which it names: a transfer without a
data connection is answered by the reply to the request before, because an
assertion returns from `HandleRequest`. A 226 promises a whole upload only when
the client closed the data connection itself; one that broke or timed out gets
the same 226. `SessionEnds` includes two ways in which a transfer is forgotten
and only the timeout of the control connection ends the session: a download that
is cut (nobody handles `EVENT_QUIT` of the data writer) and an upload that ends
before its 150 is written (`mAfterResponseParam` outlives it). It excludes the
session `Frozen` describes: `SyncTimeout` copies the time of a suspended writer,
which stands still, so that a session with an idle data connection is kept for
ever.

`NotCutWhileMoving` does not say that a transfer whose data moves is never cut.
The timer runs once in a second (`taskftpserver.cpp:135`) and the reader of the
control connection counts on in between, from a value that is up to a second
old. A transfer that was quiet until less than a period before the limit, and
then moves a chunk, is cut all the same if the reader's time is up before the
timer runs again; so is one that has just begun while the control connection was
nearly out of time. These are what `calm <= SyncPeriod` exempts; every transfer
that has gone on for more than a period since is kept.

### Three findings

`NameToldFirst` quotes the comment "first thing , tell the server my name"
(`messagepeer/taskpeerclient.cpp:115`). The insertion at the head of a full
queue is refused and nobody looks. `AttachedHasContext` quotes `ASSERT(p)` of
`PEER_GLOBALS` (`messagepeer/peercommon.h:51`). A proxy that `NewPendingPeerProxy`
made has no context, so the disconnection of its peer is not announced.
`RefusedDeletionEnds` goes with the error "delete dir fail"
(`x-file-server/task_xserver_sync_folder.cpp:88`): a call that times out ends the
sync with it, but when the server answers that it did not delete the folder, the
callback (line 312) only logs it. The step stays `STEP_NONE`, `END_FSM`
(`common/taskmgr.h:8`) suspends the task, and nothing wakes it again.

## Fairness

`TaskMgr`: the main loop schedules for ever and a task's `Run` returns, at
every depth of nesting (strong fairness of `EndRun` for each); nothing is
assumed of what tasks do. `PeerBus`: tasks of both programs are visited again
and again, which the scheduler's run shows for tasks that stay runnable; a
connector that retries for ever gets a connection again and again (strong
fairness of `C_Connected`); the killer's timer ticks. Neither cuts nor restarts
nor sends are fair. `RpcCalls`: the timer ticks and a walk goes on; nothing is
assumed of answers. `Link`: the tasks of both ends run and time passes, strongly
fair because the receiving application may stop and start reading without end;
faults and sends are not fair. `FolderSync`: the tasks run, the server serves
what has reached it, an answer that was not lost arrives and the callbacks'
timer runs; users and faults are not fair. `FtpSession`: as long as
a task can go on one of them runs, and time passes when none can; nothing is
assumed of which, and the client need not do anything.

## What is proved

Each theorem holds for every value of the constants that satisfies the named
assumptions of its component's module, which say what the constants are (sets,
functions between them, natural numbers) and what the code gives them: ids do
not wrap, a name is told apart from "everyone", a folder comes before what lies
in it, a listing is no chunk of a file, and so on. The proof modules assume
nothing more. Each proof has the same shape: an invariant `IInv` that holds
initially and that every step keeps, with one lemma per action, and from it the
properties the runs check.

| module | theorems |
|---|---|
| `TaskMgrProofs` | `TypeOK`, `IndexSorted`, `RunningTaskIntact`, `NoDanglingParent` |
| `PeerBusProofs` | `TypeOK`, `AttachmentMutual`, `AttachReplacesDead`, `PendingKept`; in trust mode `AtMostOnce` |
| `RpcCallsProofs` | `TypeOK`, `EndsOnce`, `OwnAnswer`, `SizeCounts`, `Kept` |
| `LinkProofs` | `TypeOK`, `Intact`, `NoFalseTimeout` |
| `LinkChannelProofs` | `Channel`: `Link` implements `PackageChannel` |
| `FolderSyncProofs` | `TypeOK`, `SnapshotTrue`, `NoStrayWrite`, `LeaksAreFaults`, `MirrorOnSuccess` |
| `FtpSessionProofs` | `TypeOK`, `RepliesMatch`, `NotCutWhileMoving` |

None of the safety properties is inductive alone. What has to be added, and why:

*Scheduler.* Ids in the table are below the counter, the parents tasks point to
are present, the schedules in progress and the slot of `CheckDelete` refer to
slots of the table, and deletion happens only outside schedules. Removal of a
slot is a lemma about sequences.

*Bus.* The task of a proxy and the proxy of a task point at each other
(`AttachmentMutual`) because a task that has not begun has not logged in, and
no proxy refers to one that has not (`TasksFit`, `ProxiesFit`); a task that is
writing a message is logged in and its proxy has that message pending, so that
what is taken from the queue afterwards is what was written. `AtMostOnce` says
where the copies of a message are; its invariant (`Once`) is that a message not
yet sent is nowhere, that each queue has it at one place, and that no two queues
of one direction, nor one of each, have it. In trust mode a step that puts a
message in a queue takes it from another: there only connections of the wrong
version are told to quit, and those never log in (`OnlyBadQuit`), so that no
refusal takes the place of a message that is being written.

*Calls.* Every element of a chain is a registered call of this life that has
not ended, in the bucket of its id, and the chains are in the order of the calls
(`ChainsOpen`); the ids of a life follow one another (`IdsFollow`, `IdsUnique`).
So no callback is in the map twice, it leaves with its last event, and an id
finds one call only. `SizeCounts` follows from counting the calls that are open,
those that an enumeration has cut off included (`Counted`).

*Link.* The stream has no frames. The invariant therefore follows the place in
a package across the link: the place the reader has reached, the place each
piece on the way leads to, and the place from which the writer goes on are
joined (`StreamsFit`). `NoFalseTimeout` needs that the writer's heartbeat clock
is not behind the reader's while the way is empty (`ClocksFit`), and that half
the timeout is less than the timeout.

*Channel.* Each step of a link is a step of the channel: the last piece of a
package that is written is `Transmit`, or `Waste` on a connection that has
failed unnoticed; the last piece that is read is `Deliver`; all other reading
and writing stutters. To that end the numbers of packages rise along the queue
and along each stream, and what is on the connection in use comes before what is
queued (`Numbers`): so the piece the reader takes is of the least package in
flight, and a stream cut anywhere has lost the last ones. A connection that a
reset has torn in a package counts as failed with nothing in flight, and what is
read of it as no package (`Garble`).

*Folder.* Which list is worked on in which step, and which call is under way
for it (`SyncFit`, `CallFits`); only the last request on the way has a callback,
and with its answer the way is empty (`ReqFits`). A request left over from an
earlier sync can still change a file, but only one that the next comparison
finds changed (`Dirty`), and none is left once something is taken off a list,
because requests arrive in order (`Settled`). So what is taken off is done
(`Done`), an upload has written what it has read (`Uploaded`), and what a
success saves is true. A write is alone on the way when it is sent, so that its
handle is still of the file it was opened for, or closed (`WritesFirst`). The
files the server keeps open for nobody (`LeaksAreFaults`) are counted together
with the opens on the way that nobody waits for, each of which will leave one
more: their sum is at most the number of faults (`Charged`). A crash of the
client loses no second one, as at most one close of a file is on the way
(`CloseOnce`). None of this depends on the directory: the invariant speaks of a
path together with `at`, the directory its last request was served in, and a
handle is of the file it was opened for wherever the session has moved since.

*FTP.* Nothing has been sent for a request before its first reply is prepared
(`Fresh`), and only the 150 before its last one (`Begun`): hence one reply to
each, in order. The chunks in the file, in the reader's buffer and on the way
are together what the client sent (`MovesFit`), so that "complete" is true. The
time of a task that moves data is no longer than the connection has been quiet
(`TimesFit`). `NotCutWhileMoving` needs two facts more (`KeptInv`). A writer that
has no chunk to write has no time either, and one that has is no longer idle
than the connection is quiet (`PaceFit`). And for a transfer that is calm for
longer than the timer is old, the time of the reader of the control connection
is at most what a transfer that is not too quiet has given it and the age of the
timer (`CalmFit`), so that the timer runs again before it is up.

Only model-checked:

- all liveness: the prover has no rules for fairness and ENABLED;
- `OneRemoteFolder`, which the expiry of sessions decides and not the data;
- `AtMostOnce` of `PeerBus` holds in trust mode only, and is checked and proved
  for it.

## Plan

Done: `TaskMgr`, `PeerBus`, `RpcCalls`, `Link` and `PackageChannel`,
`FolderSync`, `FtpSession`, and for each of them its type invariant and its main
safety properties as theorems, the refinement of `PackageChannel` among them.
Next, in this order:

1. Server-side peers and `RESET_PEER_PROXY` in `PeerBus`, whose effect on a
   connection `Link` already has.
2. `WebSocket` - handshake and the two children.

## Not modelled, and why

Most of the source tree is not this program's logic: the vendored interpreter,
image and compression libraries, tables of characters, wrappers of the platform,
generated Lua bindings. Formats and data structures (strings, files, XML, BSON),
screen capture and images are pure data or pure I/O. The models cover the parts
that run concurrently, fail and recover.

`TaskRunner`, the only code shared by threads, is not modelled: `Schedule` walks
its list without the mutex and reads what the waiting thread may have freed, so
that no useful invariant of it holds, and no comment, test or assertion states
one that a run could refute; `AddClosureAndWait` has no caller. Both races are
among the hazards in `PROJECT.json`.

In the modelled parts: the wrap of task ids (2^31) and callback ids (2^32);
turbo mode; clock changes, which wake a sleeping task early; operations nothing
calls; the limit of the proxy table; the notification of a late disconnection,
which changes no state of the bus. Of the file server: downloads and listings,
which change nothing on the server; a change of directory during a sync, and
directories other than the root and the folder (what is written under the root
is taken not to have the name of the folder itself); a path that turns from a
file into a folder; and two different files of the same size and time, which
the code takes for one. Of the FTP server: renaming (`rnto`, of what `rnfr` has
named), making and removing folders (`mkd`, `rmd`) and running a program
(`run`), which act on the disk in one step and are answered at once
(`taskftpserver.cpp:595-637`, `678-701`, `735-742`); the position set by REST,
the login and the paths of files; other requests that are answered at once and
change nothing (`noop` stands for all); a write to the disk that fails, which
the code ignores (`taskftpsocketreader.cpp:149`) and still answers 226; a data
socket that stays open when the next one is of the other kind; and two sessions
on one file.
