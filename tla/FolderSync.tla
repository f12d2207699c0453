----------------------------- MODULE FolderSync -----------------------------
(***************************************************************************)
(* One client of the file server keeps a remote folder the mirror of a     *)
(* local one: CTaskXServerSyncFolder compares the folder with the snapshot *)
(* of the last sync that succeeded, uploads through CTaskXServerWriteFile  *)
(* what differs and deletes what is gone, one remote call at a time.  The  *)
(* server's handlers, its session with the files it has open, the calls    *)
(* that time out while their request is still on the way, and the user who *)
(* edits the folder meanwhile are all part of the model.                   *)
(*                                                                         *)
(* A file is the number of the edit that wrote it; its content is the      *)
(* sequence of chunks the upload reads, each the number of that edit.  The *)
(* bus delivers the requests of one client in order (PeerBus).  The server *)
(* resolves each path against the current directory of the session, which  *)
(* is the remote folder or, in a session that is new, the root it exports. *)
(***************************************************************************)
EXTENDS Integers, Sequences, FiniteSets, SequencesExt

CONSTANTS Order,       \* the paths below the folder, in ascending order
          Dirs,        \* the paths that are folders; a path keeps its kind
          ParentOf,    \* the folder a path lies in, or Root
          Root,
          Sizes,       \* the number of chunks of the file an edit writes
          MaxHandles,  \* files the server can have open
          MaxSyncs,    \* bound: syncs that are started
          MaxFaults    \* bound: late answers, losses, restarts and crashes

Paths == Range(Order)
Files == Paths \ Dirs
MaxEdits == Len(Sizes)

\* The folder the client changed into, and the root above it.
Folder == "folder"
Top == "top"
Dir == {Folder, Top}

\* What a handle of the server's is when it is of no file there is.
Closed == <<Top, "closed">>
Unlinked == <<Top, "unlinked">>

ASSUME OrderAssumption ==
    /\ Order \in Seq(Paths) /\ IsInjective(Order)
    /\ Dirs \subseteq Paths /\ {Root, "closed", "unlinked"} \cap Paths = {}
    /\ ParentOf \in [Paths -> Dirs \cup {Root}]
    /\ \A i, j \in DOMAIN Order : ParentOf[Order[j]] = Order[i] => i < j
ASSUME BoundsAssumption ==
    /\ Sizes \in Seq(Nat) /\ Len(Sizes) > 0
    /\ MaxHandles \in Nat \ {0} /\ MaxSyncs \in Nat /\ MaxFaults \in Nat

VARIABLES
    local,     \* the local folder: the edit each path is from, 0 if absent
    edits,     \* the number of the last edit
    same,      \* the paths nobody touched since the listing of the sync
    snapshot,  \* the listing saved by the last sync that succeeded
    sync,      \* CTaskXServerSyncFolder
    up,        \* CTaskXServerWriteFile, the sync's sub task
    call,      \* the operation whose callback waits for an answer
    req,       \* requests on the way to the server
    ans,       \* the answer on the way to the callback
    remote,    \* the server's files: chunks of <<directory, path>>, or Absent
    handles,   \* the session's open files: <<directory, path>>, Closed, Unlinked
    cwd,       \* the session's current directory
    at,        \* history: where the last request that named a path was served
    begun,     \* history: paths found changed by a sync, and not yet synced
    syncs, faults

clientVars == <<snapshot, sync, up, call, begun, syncs>>
userVars == <<local, edits, same>>
serverVars == <<remote, handles, cwd, at>>
vars == <<userVars, clientVars, req, ans, serverVars, faults>>

NoCall == "no_call"
Absent == <<0>>            \* no file has a chunk of edit 0
NoAnswer == <<>>
NoHandle == 0              \* m_out_handle before the file is opened
Handle == 1 .. MaxHandles
Ops == {"mkdir", "open", "write", "close", "rmdir", "rm", "cd"}
Version == 0 .. MaxEdits
Name == Dir \X Paths       \* of a file on the server

Idle == [step |-> "idle", list |-> [p \in Paths |-> 0],
         create |-> {}, delete |-> {}, result |-> "unset"]
NoUpload == [step |-> "idle", handle |-> NoHandle, off |-> 0, src |-> 0, size |-> 0]

Running == sync.step # "idle"
Uploading == up.step # "idle"
IsOpen(h) == h \in Handle /\ handles[h] # Closed
Whole(v) == [i \in 1 .. Sizes[v] |-> v]

-----------------------------------------------------------------------------
(* What the local folder needs.                                            *)

\* GetFolderInfos lists the folder; CompTwoFolder: new paths and changed
\* files, and what is gone.  A folder's change of time is ignored, and a file
\* that was put back with its size and time is the one it was.
ToCreate(list) ==
    {p \in Paths : list[p] # 0 /\ (snapshot[p] = 0 \/ (p \in Files /\ list[p] # snapshot[p]))}

ToDelete(list) == {p \in Paths : list[p] = 0 /\ snapshot[p] # 0}

Changed(list) == ToCreate(list) \cup ToDelete(list)

\* The lists are kept in order: the one of what to create ascends, and the
\* one of what to delete descends (InsOrdered).
Places(list) == {i \in DOMAIN Order : Order[i] \in list}
Least(list) == Order[Min(Places(list))]
Greatest(list) == Order[Max(Places(list))]

-----------------------------------------------------------------------------
(* Calls: CRpcServiceBase sends a request and registers the callback.      *)

Request(op, path, h, off, data, cb) ==
    [op |-> op, path |-> path, h |-> h, off |-> off, data |-> data, cb |-> cb]

Send(op, path, h, off, data) ==
    /\ req' = Append(req, Request(op, path, h, off, data, TRUE))
    /\ call' = op

\* Mutant: a callback that timed out stays in the map.
ForgetNothing(q) == q

\* The callback is gone: nobody waits for the answers of what is on the way.
Forget(q) == [i \in DOMAIN q |-> [q[i] EXCEPT !.cb = FALSE]]

\* CloseRemoteFile, without a callback.
Close(q, h) == Append(q, Request("close", Root, h, 0, 0, FALSE))

\* CTaskXServerSyncFolder::Stop with an error: the snapshot is kept as it was.
StopSync(err) == [Idle EXCEPT !.result = err]

\* The closure the sync gave its sub task: on with the list, or stop.
UploadDone(err) ==
    sync' = IF err = "none"
            THEN [sync EXCEPT !.step = "check_create", !.create = @ \ {Least(@)}]
            ELSE StopSync("upload_file_fail")

\* Mutant: the remote file is closed on the error paths only.
StopUploadClosingFailed(err, q) ==
    /\ up' = NoUpload
    /\ req' = IF err = "none" THEN q ELSE Close(q, up.handle)
    /\ UploadDone(err)

\* CTaskXServerWriteFile::Stop: close the remote file and tell the sync.
StopUpload(err, q) ==
    /\ up' = NoUpload
    /\ req' = Close(q, up.handle)
    /\ UploadDone(err)

-----------------------------------------------------------------------------
(* CTaskXServerSyncFolder.                                                 *)

Start ==
    /\ ~Running
    /\ syncs < MaxSyncs
    /\ sync' = [step |-> "check_create", list |-> local, result |-> "unset",
                create |-> ToCreate(local), delete |-> ToDelete(local)]
    /\ same' = Paths
    /\ begun' = begun \cup Changed(local)
    /\ syncs' = syncs + 1
    /\ UNCHANGED <<local, edits, snapshot, up, call, req, ans, serverVars, faults>>

Go(step) == sync' = [sync EXCEPT !.step = step]

CheckCreateList ==
    /\ sync.step = "check_create"
    /\ Go(IF sync.create = {} THEN "check_delete"
          ELSE IF Least(sync.create) \in Dirs THEN "create_folder" ELSE "upload_file")
    /\ UNCHANGED <<userVars, snapshot, up, call, begun, syncs, req, ans, serverVars, faults>>

CreateFolder ==
    /\ sync.step = "create_folder"
    /\ Send("mkdir", Least(sync.create), NoHandle, 0, 0)
    /\ Go("none")
    /\ UNCHANGED <<userVars, snapshot, up, begun, syncs, ans, serverVars, faults>>

UploadFile ==
    /\ sync.step = "upload_file"
    /\ up' = [NoUpload EXCEPT !.step = "check_source"]
    /\ Go("none")
    /\ UNCHANGED <<userVars, snapshot, call, begun, syncs, req, ans, serverVars, faults>>

\* Mutant: the snapshot that is saved is taken when the sync ends.
CheckDeleteListSavingNow ==
    /\ sync.step = "check_delete"
    /\ IF sync.delete = {}
       THEN /\ sync' = StopSync("none")
            /\ snapshot' = local
            /\ begun' = begun \ (same \cap Changed(sync.list))
       ELSE /\ Go(IF Greatest(sync.delete) \in Dirs THEN "delete_folder" ELSE "delete_file")
            /\ UNCHANGED <<snapshot, begun>>
    /\ UNCHANGED <<userVars, up, call, syncs, req, ans, serverVars, faults>>

\* With nothing left to delete the sync stops without an error and saves the
\* listing it started from.
CheckDeleteList ==
    /\ sync.step = "check_delete"
    /\ IF sync.delete = {}
       THEN /\ sync' = StopSync("none")
            /\ snapshot' = sync.list
            /\ begun' = begun \ (same \cap Changed(sync.list))
       ELSE /\ Go(IF Greatest(sync.delete) \in Dirs THEN "delete_folder" ELSE "delete_file")
            /\ UNCHANGED <<snapshot, begun>>
    /\ UNCHANGED <<userVars, up, call, syncs, req, ans, serverVars, faults>>

DeleteFolder ==
    /\ sync.step = "delete_folder"
    /\ Send("rmdir", Greatest(sync.delete), NoHandle, 0, 0)
    /\ Go("none")
    /\ UNCHANGED <<userVars, snapshot, up, begun, syncs, ans, serverVars, faults>>

DeleteFile ==
    /\ sync.step = "delete_file"
    /\ Send("rm", Greatest(sync.delete), NoHandle, 0, 0)
    /\ Go("none")
    /\ UNCHANGED <<userVars, snapshot, up, begun, syncs, ans, serverVars, faults>>

\* ResetLocalFolder deletes the snapshot file.
ResetLocalFolder ==
    /\ ~Running
    /\ snapshot' = [p \in Paths |-> 0]
    /\ UNCHANGED <<userVars, sync, up, call, begun, syncs, req, ans, serverVars, faults>>

-----------------------------------------------------------------------------
(* CTaskXServerWriteFile, uploading the head of the create list.           *)

\* CFile keeps the size the file has when it is opened.
CheckSourceFile ==
    /\ up.step = "check_source"
    /\ LET v == local[Least(sync.create)]
       IN  IF v = 0
           THEN StopUpload("open_source_file_fail", req)
           ELSE /\ up' = [up EXCEPT !.step = "open_out", !.src = v, !.size = Sizes[v]]
                /\ UNCHANGED <<sync, req>>
    /\ UNCHANGED <<userVars, snapshot, call, begun, syncs, ans, serverVars, faults>>

OpenOutFile ==
    /\ up.step = "open_out"
    /\ Send("open", Least(sync.create), NoHandle, 0, 0)
    /\ up' = [up EXCEPT !.step = "none"]
    /\ UNCHANGED <<userVars, snapshot, sync, begun, syncs, ans, serverVars, faults>>

\* At the size the source had the upload is done, whatever was added since; a
\* source that was cut short has nothing left to read before that.
WriteChunk ==
    /\ up.step = "write"
    /\ IF up.off >= up.size \/ up.off >= Sizes[up.src]
       THEN /\ StopUpload(IF up.off >= up.size THEN "none" ELSE "read_file_fail", req)
            /\ UNCHANGED call
       ELSE /\ Send("write", Least(sync.create), up.handle, up.off, up.src)
            /\ up' = [up EXCEPT !.step = "none"]
            /\ UNCHANGED sync
    /\ UNCHANGED <<userVars, snapshot, begun, syncs, ans, serverVars, faults>>

-----------------------------------------------------------------------------
(* Callbacks; ok is FALSE when the call timed out or was answered ERROR.   *)

\* Mutant: a folder that is not created is logged and no more.
OnCreateFolderAnswerLogged(ok, q) ==
    /\ call = "mkdir"
    /\ sync' = IF ok THEN [sync EXCEPT !.step = "check_create", !.create = @ \ {Least(@)}] ELSE sync
    /\ req' = q
    /\ UNCHANGED up

OnCreateFolderAnswer(ok, q) ==
    /\ call = "mkdir"
    /\ sync' = IF ok THEN [sync EXCEPT !.step = "check_create", !.create = @ \ {Least(@)}]
                     ELSE StopSync("create_dir_fail")
    /\ req' = q
    /\ UNCHANGED up

OnOpenFileAnswer(ok, h, q) ==
    /\ call = "open"
    /\ IF ok
       THEN /\ up' = [up EXCEPT !.step = "write", !.handle = h]
            /\ req' = q
            /\ UNCHANGED sync
       ELSE StopUpload("open_out_file_fail", q)

OnWriteFileAnswer(ok, q) ==
    /\ call = "write"
    /\ IF ok
       THEN /\ up' = [up EXCEPT !.step = "write", !.off = @ + 1]
            /\ req' = q
            /\ UNCHANGED sync
       ELSE StopUpload("write_file_fail", q)

\* An answer that the folder could not be deleted is logged and no more: the
\* step stays STEP_NONE and nothing wakes the task again.
OnDeleteFolderAnswer(ok, timedOut, q) ==
    /\ call = "rmdir"
    /\ sync' = IF ok THEN [sync EXCEPT !.step = "check_delete", !.delete = @ \ {Greatest(@)}]
               ELSE IF timedOut THEN StopSync("delete_dir_fail") ELSE sync
    /\ req' = q
    /\ UNCHANGED up

\* Mutant: a deletion without an answer counts as done.
OnDeleteFileAnswerTrusting(ok, q) ==
    /\ call = "rm"
    /\ sync' = [sync EXCEPT !.step = "check_delete", !.delete = @ \ {Greatest(@)}]
    /\ req' = q
    /\ UNCHANGED up

OnDeleteFileAnswer(ok, q) ==
    /\ call = "rm"
    /\ sync' = IF ok THEN [sync EXCEPT !.step = "check_delete", !.delete = @ \ {Greatest(@)}]
                     ELSE StopSync("delete_dir_fail")
    /\ req' = q
    /\ UNCHANGED up

Callback(ok, h, timedOut, q) ==
    /\ \/ OnCreateFolderAnswer(ok, q)
       \/ OnOpenFileAnswer(ok, h, q)
       \/ OnWriteFileAnswer(ok, q)
       \/ OnDeleteFolderAnswer(ok, timedOut, q)
       \/ OnDeleteFileAnswer(ok, q)
    /\ call' = NoCall
    /\ ans' = NoAnswer
    /\ UNCHANGED <<userVars, snapshot, begun, syncs, serverVars>>

OnAnswer ==
    /\ ans # NoAnswer
    /\ Callback(ans.ok, ans.h, FALSE, req)
    /\ UNCHANGED faults

\* The callback map ends the call after CALLBACK_TIMEOUT.  Neither the request
\* nor the answer is called back; a fault, unless both are lost already.
Lost == ans = NoAnswer /\ \A i \in DOMAIN req : ~req[i].cb

OnTimeout ==
    /\ call # NoCall
    /\ faults' = IF Lost THEN faults ELSE faults + 1
    /\ faults' <= MaxFaults
    /\ Callback(FALSE, NoHandle, TRUE, Forget(req))

-----------------------------------------------------------------------------
(* CxFileServer: the handler of the request that arrives.                  *)

Arrived(op) == req # <<>> /\ Head(req).op = op

\* Mutant: an answer is kept although its callback is gone.
ReplyAlways(ok, h) ==
    /\ req' = Tail(req)
    /\ ans' = [ok |-> ok, h |-> h]

\* SendReturnValue; without a callback the client drops the answer.
Reply(ok, h) ==
    /\ req' = Tail(req)
    /\ ans' = IF Head(req).cb THEN [ok |-> ok, h |-> h] ELSE ans

\* BuildLocalPath: what a path of a request is a name of.
Here(p) == <<cwd, p>>

Named(p) == at' = [at EXCEPT ![p] = cwd]

HasParent(p) == ParentOf[p] # Root => remote[Here(ParentOf[p])] # Absent

\* The folder and those it lies in: what every set has that has the folder and
\* the parents of all its own.
Above(d) ==
    {q \in Paths : \A S \in SUBSET Paths :
        d \in S /\ (\A p \in S : ParentOf[p] # Root => ParentOf[p] \in S) => q \in S}

\* CreateDirSuper creates what is missing on the way.
OnCreateFolder ==
    /\ Arrived("mkdir")
    /\ LET made == {Here(d) : d \in Above(Head(req).path)}
       IN  remote' = [n \in Name |->
                        IF n \in made /\ remote[n] = Absent THEN <<>> ELSE remote[n]]
    /\ Named(Head(req).path)
    /\ Reply(TRUE, NoHandle)
    /\ UNCHANGED <<userVars, clientVars, handles, cwd, faults>>

FreeHandles == {h \in Handle : handles[h] = Closed}

\* fopen "wb+" on the server: the file is empty afterwards.  The descriptor
\* is the lowest that is free.
OnOpenFile ==
    /\ Arrived("open")
    /\ LET p == Head(req).path
           h == CHOOSE h \in FreeHandles : \A g \in FreeHandles : h <= g
       IN  IF HasParent(p) /\ FreeHandles # {}
           THEN /\ remote' = [remote EXCEPT ![Here(p)] = <<>>]
                /\ handles' = [handles EXCEPT ![h] = Here(p)]
                /\ Reply(TRUE, h)
           ELSE /\ Reply(FALSE, NoHandle)
                /\ UNCHANGED <<remote, handles>>
    /\ Named(Head(req).path)
    /\ UNCHANGED <<userVars, clientVars, cwd, faults>>

\* A chunk goes over one that is there, or behind the last.
Written(chunks, off, v) ==
    [i \in 1 .. (IF off = Len(chunks) THEN off + 1 ELSE Len(chunks)) |->
        IF i = off + 1 THEN v ELSE chunks[i]]

\* A handle the session does not know and an offset behind the end are
\* answered ERROR.
OnWriteFile ==
    /\ Arrived("write")
    /\ LET r == Head(req)
           n == handles[r.h]
       IN  IF ~IsOpen(r.h) THEN Reply(FALSE, NoHandle) /\ UNCHANGED remote
           ELSE IF n = Unlinked THEN Reply(TRUE, NoHandle) /\ UNCHANGED remote
           ELSE IF r.off > Len(remote[n]) THEN Reply(FALSE, NoHandle) /\ UNCHANGED remote
           ELSE /\ Reply(TRUE, NoHandle)
                /\ remote' = [remote EXCEPT ![n] = Written(@, r.off, r.data)]
    /\ UNCHANGED <<userVars, clientVars, handles, cwd, at, faults>>

OnCloseFile ==
    /\ Arrived("close")
    /\ LET h == Head(req).h
       IN  handles' = IF IsOpen(h) THEN [handles EXCEPT ![h] = Closed] ELSE handles
    /\ Reply(TRUE, NoHandle)
    /\ UNCHANGED <<userVars, clientVars, remote, cwd, at, faults>>

\* rmdir refuses a folder that is not empty; a missing folder is fine.
OnDeleteFolder ==
    /\ Arrived("rmdir")
    /\ LET d == Head(req).path
           full == \E p \in Paths : ParentOf[p] = d /\ remote[Here(p)] # Absent
       IN  /\ remote' = IF full THEN remote ELSE [remote EXCEPT ![Here(d)] = Absent]
           /\ Named(d)
           /\ Reply(~full, NoHandle)
    /\ UNCHANGED <<userVars, clientVars, handles, cwd, faults>>

\* A file that is deleted while it is open lives on without a name.
OnDeleteFile ==
    /\ Arrived("rm")
    /\ LET p == Head(req).path
       IN  /\ remote' = [remote EXCEPT ![Here(p)] = Absent]
           /\ handles' = [h \in Handle |->
                            IF handles[h] = Here(p) THEN Unlinked ELSE handles[h]]
           /\ Named(p)
    /\ Reply(TRUE, NoHandle)
    /\ UNCHANGED <<userVars, clientVars, cwd, faults>>

\* The name of the folder is resolved like any other: only below the root it
\* exists.
OnChangeCurrentDirectory ==
    /\ Arrived("cd")
    /\ cwd' = Folder
    /\ Reply(cwd = Top, NoHandle)
    /\ UNCHANGED <<userVars, clientVars, remote, handles, at, faults>>

\* A session that is new, at the next request: GetOrCreateSession.
HasSession == cwd = Folder \/ \E h \in Handle : IsOpen(h)

NewSession ==
    /\ handles' = [h \in Handle |-> Closed]
    /\ cwd' = Top
    /\ UNCHANGED <<userVars, clientVars, req, ans, remote, at>>

\* Mutant: a request does not put the session's timer back.
OnAutoClearSessionBusy ==
    /\ HasSession
    /\ UNCHANGED faults
    /\ NewSession

\* OnAutoClearSession: a session idle for 60 s goes with its open files and its
\* current directory.  It is a fault while the client is at work, as its
\* requests are then only delayed.
OnAutoClearSession ==
    /\ HasSession
    /\ faults' = IF Running \/ req # <<>> THEN faults + 1 ELSE faults
    /\ faults' <= MaxFaults
    /\ NewSession

-----------------------------------------------------------------------------
(* Faults, and the user.                                                   *)

Fault == faults < MaxFaults /\ faults' = faults + 1

\* The server's process is restarted; the center keeps the requests.
ServerRestart ==
    /\ Fault
    /\ HasSession
    /\ NewSession

\* A queue of the bus is full, or its peer is kicked.
LoseRequest ==
    /\ Fault
    /\ req # <<>>
    /\ req' = Tail(req)
    /\ UNCHANGED <<userVars, clientVars, ans, serverVars>>

LoseAnswer ==
    /\ Fault
    /\ ans # NoAnswer
    /\ ans' = NoAnswer
    /\ UNCHANGED <<userVars, clientVars, req, serverVars>>

\* The client's process ends with the requests it has not sent; if it was about
\* to save the snapshot, the file may be cut off.
ClientCrash ==
    /\ Fault
    /\ Running
    /\ sync' = StopSync("crash")
    /\ up' = NoUpload
    /\ call' = NoCall
    /\ ans' = NoAnswer
    /\ \E n \in 0 .. Len(req) : req' = Forget(SubSeq(req, 1, n))
    /\ \/ UNCHANGED snapshot
       \/ /\ sync.step = "check_delete" /\ sync.delete = {}
          /\ snapshot' = [p \in Paths |-> 0]
    /\ UNCHANGED <<userVars, begun, syncs, serverVars>>

\* The upload may have opened the file that is at p now.
HasOpen(p) == up.src # 0 /\ up.src = local[p] /\ p = Least(sync.create)

\* The user writes a file in place, replaces it or makes a new one.  An upload
\* that has the file open reads what is written in place from then on.
WriteFile(p, v) ==
    /\ p \in Files
    /\ edits < MaxEdits
    /\ ParentOf[p] # Root => local[ParentOf[p]] # 0
    /\ edits' = edits + 1
    /\ local' = [local EXCEPT ![p] = v]
    /\ same' = same \ {p}
    /\ \/ UNCHANGED up
       \/ HasOpen(p) /\ up' = [up EXCEPT !.src = v]
    /\ UNCHANGED <<snapshot, sync, call, begun, syncs, req, ans, serverVars, faults>>

EditFile(p) == WriteFile(p, edits + 1)

\* A file that was moved away or saved comes back with its size and time.  That
\* can matter only if it is as in the snapshot or as in the listing.
PutBack(p) ==
    \E v \in {snapshot[p], sync.list[p]} \ {0, local[p]} : WriteFile(p, v)

MakeFolder(p) ==
    /\ p \in Dirs
    /\ edits < MaxEdits
    /\ local[p] = 0
    /\ ParentOf[p] # Root => local[ParentOf[p]] # 0
    /\ edits' = edits + 1
    /\ local' = [local EXCEPT ![p] = 1]
    /\ same' = same \ {p}
    /\ UNCHANGED <<clientVars, req, ans, serverVars, faults>>

\* An upload that has the file open goes on with the content it had.
RemovePath(p) ==
    /\ edits < MaxEdits
    /\ local[p] # 0
    /\ \A q \in Paths : ParentOf[q] = p => local[q] = 0
    /\ edits' = edits + 1
    /\ local' = [local EXCEPT ![p] = 0]
    /\ same' = same \ {p}
    /\ UNCHANGED <<clientVars, req, ans, serverVars, faults>>

\* The application changes into the folder before it starts a sync, and does
\* not while one runs.  The sync itself never sends a current directory.
ChangeDirectory ==
    /\ ~Running
    /\ \A i \in DOMAIN req : req[i].op # "cd"
    /\ req' = Append(req, Request("cd", Root, NoHandle, 0, 0, FALSE))
    /\ UNCHANGED <<userVars, clientVars, ans, serverVars, faults>>

-----------------------------------------------------------------------------

\* An empty folder, one nobody has synced yet, or one that has just been synced.
Init ==
    /\ local \in {[p \in Paths |-> v] : v \in {0, 1}}
    /\ edits = 1
    /\ same = Paths
    /\ snapshot \in {[p \in Paths |-> 0], local}
    /\ remote = [n \in Name |->
          IF n[1] = Top \/ snapshot[n[2]] = 0 THEN Absent
          ELSE IF n[2] \in Dirs THEN <<>> ELSE Whole(1)]
    /\ sync = Idle /\ up = NoUpload /\ call = NoCall
    /\ req = <<>> /\ ans = NoAnswer
    /\ handles = [h \in Handle |-> Closed]
    /\ cwd = Folder /\ at = [p \in Paths |-> Folder]
    /\ begun = {}
    /\ syncs = 0 /\ faults = 0

SyncStep ==
    \/ CheckCreateList \/ CreateFolder \/ UploadFile
    \/ CheckDeleteList \/ DeleteFolder \/ DeleteFile

UploadStep == CheckSourceFile \/ OpenOutFile \/ WriteChunk

Serve ==
    \/ OnCreateFolder \/ OnOpenFile \/ OnWriteFile \/ OnCloseFile
    \/ OnDeleteFolder \/ OnDeleteFile \/ OnChangeCurrentDirectory

User ==
    \/ Start \/ ResetLocalFolder \/ ChangeDirectory
    \/ \E p \in Paths : EditFile(p) \/ PutBack(p) \/ MakeFolder(p) \/ RemovePath(p)

Faults == ServerRestart \/ LoseRequest \/ LoseAnswer \/ ClientCrash

Next ==
    \/ SyncStep \/ UploadStep \/ OnAnswer \/ OnTimeout
    \/ Serve \/ OnAutoClearSession \/ User \/ Faults

Spec == Init /\ [][Next]_vars

\* The task manager runs tasks that are not suspended, the bus delivers what it
\* does not lose, the callback map's timer runs; users and faults are not fair.
FairSpec ==
    /\ Spec
    /\ WF_vars(SyncStep) /\ WF_vars(UploadStep)
    /\ WF_vars(Serve) /\ WF_vars(OnAnswer) /\ WF_vars(OnTimeout)

-----------------------------------------------------------------------------
(* Properties.                                                             *)

RequestType ==
    [op : Ops, path : Paths \cup {Root}, h : Handle \cup {NoHandle},
     off : Nat, data : Version, cb : BOOLEAN]

\* Types; there is an answer on the way only while its call waits.
TypeOK ==
    /\ local \in [Paths -> Version] /\ snapshot \in [Paths -> Version]
    /\ edits \in Version /\ same \subseteq Paths
    /\ sync.list \in [Paths -> Version]
    /\ sync.create \subseteq Paths /\ sync.delete \subseteq Paths
    /\ Uploading => sync.step = "none" /\ sync.create # {}
    /\ up.handle \in Handle \cup {NoHandle} /\ up.off \in Nat
    /\ up.src \in Version /\ up.size \in Nat
    /\ call \in Ops \cup {NoCall}
    /\ req \in Seq(RequestType)
    /\ ans # NoAnswer => call # NoCall /\ \A i \in DOMAIN req : ~req[i].cb
    /\ remote \in [Name -> Seq(Version)]
    /\ handles \in [Handle -> (Dir \X Files) \cup {Closed, Unlinked}]
    /\ cwd \in Dir /\ at \in [Paths -> Dir] /\ begun \subseteq Paths
    /\ syncs \in 0 .. MaxSyncs /\ faults \in 0 .. MaxFaults

\* A file that is as the snapshot has it is skipped by the next sync
\* (CompTwoFolder).  Whatever syncs failed, timed out or crashed, it is whole on
\* the server, in the directory its last request was served in, unless a sync
\* that found it changed has begun and no good one has ended since: it may then
\* be half uploaded, and be skipped nevertheless once the user has put the file
\* of the snapshot back (CTaskXServerSyncFolder::Stop saves m_current_list, on
\* success only).
SnapshotTrue ==
    \A p \in Files :
        snapshot[p] # 0 /\ p \notin begun => remote[<<at[p], p>>] = Whole(snapshot[p])

\* When a sync stops with "no_error", every file nobody touched since its
\* listing is whole on the server, every folder that was new is there, and what
\* was gone since the last good sync is gone there too; "there" is where the
\* last request for it was served.  The exception is that of SnapshotTrue: a
\* file an earlier sync found changed that was put back as in the snapshot.
MirrorOnSuccess ==
    [][Running /\ sync'.result = "none" =>
         \A p \in same :
            /\ p \in Files /\ local[p] # 0 /\ (local[p] # snapshot[p] \/ p \notin begun)
                 => remote[<<at[p], p>>] = Whole(local[p])
            /\ p \in Dirs /\ local[p] # 0 /\ snapshot[p] = 0 => remote[<<at[p], p>>] # Absent
            /\ local[p] = 0 /\ snapshot[p] # 0 => remote[<<at[p], p>>] = Absent]_vars

\* A sync has one remote folder: when it stops with "no_error", what it found
\* changed and nobody touched since was served in one directory.  That this is
\* so is up to the session (OnAutoClearSession), which must not be lost while
\* its client is at work: after a fault it need not hold.
OneRemoteFolder ==
    [][Running /\ sync'.result = "none" /\ faults = 0 =>
         \A p, q \in same \cap Changed(sync.list) : at[p] = at[q]]_vars

\* Descriptors are reused, and a session that expires or a server that restarts
\* forgets them all; still no chunk is written to another file than the one the
\* upload that sent it had opened (OnWriteFile finds the file by handle alone).
NoStrayWrite ==
    Arrived("write") /\ IsOpen(Head(req).h)
        => LET p == Head(req).path
           IN  handles[Head(req).h] \in {<<at[p], p>>, Unlinked}

\* The files the server keeps open for no upload are those of opens that timed
\* out and of closes that were lost: Stop closes on every path.
ClosesPending ==
    {req[i].h : i \in {j \in DOMAIN req : req[j].op = "close"}}

LeaksAreFaults ==
    Cardinality({h \in Handle : IsOpen(h) /\ h # up.handle /\ h \notin ClosesPending})
        <= faults + (IF call = "open" /\ ans # NoAnswer THEN 1 ELSE 0)

\* The task is suspended with no call under way and no sub task: nothing but its
\* end will wake it.
Stuck == sync.step = "none" /\ call = NoCall /\ ~Uploading

RefusedFolder ==
    Stuck /\ sync.create = {} /\ sync.delete # {} /\ Greatest(sync.delete) \in Dirs

\* Every sync ends, whatever is lost and whoever restarts, or is stuck with a
\* folder the server refused to delete.
SyncEnds == Running ~> ~Running \/ RefusedFolder

\* The sync has an error for a folder that is not deleted, "delete_dir_fail": it
\* ends when the server refuses to delete one (OnDeleteFolderAnswer).
RefusedDeletionEnds == Running ~> ~Running

=============================================================================
