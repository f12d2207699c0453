-------------------------- MODULE FolderSyncProofs --------------------------
(***************************************************************************)
(* Proofs about the sync of one folder (FolderSync.tla), for every folder  *)
(* tree, every file size, and every number of handles, syncs and faults.   *)
(*                                                                         *)
(* What the client may skip is whole on the server, because every request  *)
(* still on the way that touches a file is of a file a sync found changed  *)
(* and no good sync has uploaded since (Dirty), and because a sync that    *)
(* has something done has only that call and closes on the way (Settled):  *)
(* requests are delivered in order, so the first answer empties the way.   *)
(* A file's place is the directory its last request was served in (at): a  *)
(* session that begins anew loses the handles with its directory, so a     *)
(* handle that is open is of a file of that directory.                     *)
(*                                                                         *)
(* What the server keeps open for nobody is paid for by faults (Charged):  *)
(* a call that times out may leave an open on the way that nobody waits    *)
(* for, so those opens are counted with the handles they will get.         *)
(***************************************************************************)
EXTENDS FolderSync, SequenceLemmas, WellFoundedInduction, FiniteSetTheorems

AnswerType == [ok : BOOLEAN, h : Handle \cup {NoHandle}]
SyncSteps == {"idle", "check_create", "create_folder", "upload_file",
              "check_delete", "delete_folder", "delete_file", "none"}
UpSteps == {"idle", "check_source", "open_out", "write", "none"}
Results == {"unset", "none", "crash", "create_dir_fail", "upload_file_fail", "delete_dir_fail"}
SyncType == [step : SyncSteps, list : [Paths -> Version], create : SUBSET Paths,
             delete : SUBSET Paths, result : Results]
UpType == [step : UpSteps, handle : Handle \cup {NoHandle}, off : Nat, src : Version,
           size : Nat]

\* The types, with the records' fields.
ClientOK ==
    /\ local \in [Paths -> Version] /\ snapshot \in [Paths -> Version]
    /\ edits \in Version /\ same \subseteq Paths
    /\ sync \in SyncType /\ up \in UpType
    /\ call \in Ops \cup {NoCall} /\ begun \subseteq Paths
    /\ syncs \in 0 .. MaxSyncs /\ faults \in 0 .. MaxFaults

ServerOK ==
    /\ req \in Seq(RequestType)
    /\ ans # NoAnswer => ans \in AnswerType
    /\ remote \in [Name -> Seq(Version)]
    /\ handles \in [Handle -> (Dir \X Files) \cup {Closed, Unlinked}]
    /\ cwd \in Dir /\ at \in [Paths -> Dir]

\* Edits have numbers of their own: one that comes is of no file there is, of
\* no listing and of no snapshot.
VersionsFit ==
    /\ \A p \in Paths : local[p] <= edits /\ snapshot[p] <= edits
    /\ Running => \A p \in Paths : sync.list[p] <= edits
    /\ ~Running => \A p \in Paths : sync.list[p] = 0
    /\ Running => \A p \in same : local[p] = sync.list[p]

\* The path the sync is at.
Target == IF sync.create # {} THEN Least(sync.create) ELSE Greatest(sync.delete)

\* In which step of the sync which list is worked on, and by whom.
SyncFit ==
    /\ Running => /\ sync.result = "unset"
                  /\ sync.create \subseteq ToCreate(sync.list)
                  /\ sync.delete \subseteq ToDelete(sync.list)
                  /\ sync.create # {} => sync.delete = ToDelete(sync.list)
    /\ sync.step = "check_create" => sync.delete = ToDelete(sync.list)
    /\ sync.step \in {"create_folder", "upload_file"} => sync.create # {}
    /\ sync.step = "create_folder" => Target \in Dirs
    /\ sync.step = "upload_file" => Target \in Files
    /\ sync.step \in {"check_delete", "delete_folder", "delete_file"} => sync.create = {}
    /\ sync.step \in {"delete_folder", "delete_file"} => sync.delete # {}
    /\ sync.step = "delete_folder" => Target \in Dirs
    /\ sync.step = "delete_file" => Target \in Files

\* Which call is under way for it, and how far the upload is.
CallFits ==
    /\ sync.step # "none" => call = NoCall /\ ~Uploading
    /\ call \in {"mkdir", "open", "write"} => sync.create # {}
    /\ call \in {"rmdir", "rm"} => sync.create = {} /\ sync.delete # {}
    /\ call \in {"mkdir", "rmdir"} => Target \in Dirs
    /\ call = "rm" => Target \in Files
    /\ call \in {"open", "write"} <=> up.step = "none"
    /\ call \notin {"close", "cd"}
    /\ Uploading => sync.create # {} /\ Target \in Files
    /\ Uploading /\ call # NoCall => up.step = "none"
    /\ up.step \in {"idle", "check_source"} => up.src = 0 /\ up.size = 0
    /\ up.step \in {"open_out", "write", "none"} => up.src # 0
    /\ up.step \in {"idle", "check_source", "open_out"} \/ call = "open" =>
         up.handle = NoHandle /\ up.off = 0
    /\ up.step = "write" \/ call = "write" => up.handle # NoHandle

\* What is on the way: only the last request has a callback, it is the one of
\* the call, and with its answer the way is empty.
ReqFits ==
    /\ \A i \in 1 .. Len(req) :
         /\ req[i].op \in {"open", "write", "rm"} => req[i].path \in Files
         /\ req[i].op \in {"mkdir", "rmdir"} => req[i].path \in Dirs
         /\ req[i].cb => /\ i = Len(req) /\ ans = NoAnswer
                         /\ req[i].op = call /\ req[i].path = Target
                         /\ call = "write" => req[i].h = up.handle /\ req[i].off = up.off
    /\ ans # NoAnswer => req = <<>> /\ call # NoCall

\* A write is alone on the way when it is sent, so its handle is still of the
\* file it was opened for, or closed.
WritesFirst ==
    \A i \in 1 .. Len(req) : req[i].op = "write" =>
        /\ i = 1
        /\ req[i].h \in Handle
        /\ handles[req[i].h] \in {<<at[req[i].path], req[i].path>>, Closed}

\* The handle the upload has, and the one it is about to get.
HandleFits ==
    /\ up.step = "write" => req = <<>>
    /\ up.handle # NoHandle => /\ handles[up.handle] \in {<<at[Target], Target>>, Closed}
                               /\ \A i \in 1 .. Len(req) : req[i].cb
    /\ ans # NoAnswer /\ ans.ok /\ call = "open" =>
         ans.h \in Handle /\ handles[ans.h] \in {<<at[Target], Target>>, Closed}

\* What may still change a file on the server is of a path a sync found changed,
\* and so is every path this sync found changed.
Dirty ==
    /\ \A i \in 1 .. Len(req) :
         req[i].op \in {"open", "write", "rm"} => req[i].path \in begun
    /\ Running => Changed(sync.list) \subseteq begun

\* Once something is taken from a list, no request of an earlier sync is left
\* but closes and the change of the current directory.
Settled ==
    Running /\ (sync.create # ToCreate(sync.list) \/ sync.delete # ToDelete(sync.list))
        => \A i \in 1 .. Len(req) : req[i].op \in {"close", "cd"} \/ req[i].cb

\* What is taken from a list is done.
Done ==
    Running => \A p \in Paths :
        /\ p \in Files /\ sync.list[p] # 0 /\ sync.list[p] # snapshot[p]
             /\ p \notin sync.create /\ p \in same
             => remote[<<at[p], p>>] = Whole(sync.list[p])
        /\ p \in Dirs /\ sync.list[p] # 0 /\ snapshot[p] = 0 /\ p \notin sync.create
             => remote[<<at[p], p>>] # Absent
        /\ sync.list[p] = 0 /\ snapshot[p] # 0 /\ p \notin sync.delete => remote[<<at[p], p>>] = Absent

\* So is the call that is answered.
Answered ==
    ans # NoAnswer /\ ans.ok =>
        /\ call = "mkdir" => remote[<<at[Target], Target>>] # Absent
        /\ call \in {"rm", "rmdir"} => remote[<<at[Target], Target>>] = Absent

\* The file being uploaded, if nobody has touched it since the listing.
Filled(n, v) == [i \in 1 .. n |-> v]

Uploaded ==
    Uploading /\ Target \in same =>
        /\ up.src # 0 => up.src = sync.list[Target] /\ up.size = Sizes[up.src]
        /\ call = "open" /\ ans # NoAnswer /\ ans.ok => remote[<<at[Target], Target>>] = <<>>
        /\ up.step = "write" => /\ up.off <= Sizes[up.src]
                                /\ remote[<<at[Target], Target>>] = Filled(up.off, up.src)
        /\ call = "write" =>
             /\ up.off < Sizes[up.src]
             /\ req # <<>> => /\ remote[<<at[Target], Target>>] = Filled(up.off, up.src)
                              /\ req[1].data = up.src
             /\ ans # NoAnswer /\ ans.ok => remote[<<at[Target], Target>>] = Filled(up.off + 1, up.src)

\* The inductive invariant.
IInv ==
    /\ ClientOK /\ ServerOK /\ VersionsFit /\ SyncFit /\ CallFits /\ ReqFits
    /\ WritesFirst /\ HandleFits /\ Dirty /\ Settled /\ Done /\ Answered /\ Uploaded
    /\ SnapshotTrue

-----------------------------------------------------------------------------
(* The lists.                                                              *)

\* A set of natural numbers that is not empty has a least number.
LEMMA LeastNumber ==
    ASSUME NEW S \in SUBSET Nat, S # {}
    PROVE  \E x \in S : \A y \in S : x <= y
<1> DEFINE R == {ss \in Nat \X Nat : ss[1] < ss[2]}
<1>1. IsWellFoundedOn(R, Nat)
  BY NatLessThanWellFounded DEF OpToRel
<1>2. S \subseteq Nat /\ S # {}
  OBVIOUS
<1> HIDE DEF R
<1>3. PICK x \in S : \A y \in S : ~(<<y, x>> \in R)
  BY <1>1, <1>2, WFMin
<1>4. \A y \in S : y < x => <<y, x>> \in R
  BY <1>2 DEF R
<1>5. \A y \in S : y \in Nat /\ x \in Nat
  BY <1>2
<1>6. ASSUME NEW y \in S
      PROVE  x <= y
  <2>1. ~(y < x)
    BY <1>3, <1>4
  <2> QED
    BY <1>5, <2>1
<1> QED
  BY <1>6

\* What the constants are, in the form the proofs use.
LEMMA ConstantFacts ==
    /\ Order \in Seq(Paths) /\ \A p \in Paths : \E i \in 1 .. Len(Order) : Order[i] = p
    /\ Dirs \subseteq Paths /\ Files \subseteq Paths
    /\ Root \notin Paths /\ Closed \notin Name /\ Unlinked \notin Name /\ Closed # Unlinked
    /\ MaxEdits \in Nat /\ 0 \in Version /\ 1 \in Version /\ Version \subseteq Nat
    /\ \A v \in Version : v # 0 => Sizes[v] \in Nat
    /\ Handle \subseteq Nat /\ NoHandle \notin Handle
<1>1. /\ Order \in Seq(Paths)
      /\ Dirs \subseteq Paths /\ {Root, "closed", "unlinked"} \cap Paths = {}
  BY OrderAssumption
<1>2. \A p \in Paths : \E i \in 1 .. Len(Order) : Order[i] = p
  BY <1>1 DEF Paths, Range
<1>3. Files \subseteq Paths
  BY DEF Files
<1>4. MaxEdits \in Nat /\ MaxEdits > 0
  BY BoundsAssumption DEF MaxEdits
<1>5. 0 \in Version /\ 1 \in Version /\ Version \subseteq Nat
  BY <1>4 DEF Version
<1>6. ASSUME NEW v \in Version, v # 0
      PROVE  Sizes[v] \in Nat
  <2>1. v \in 1 .. Len(Sizes)
    BY <1>4, <1>6 DEF Version, MaxEdits
  <2> QED
    BY <2>1, BoundsAssumption
<1>7. Handle \subseteq Nat /\ NoHandle \notin Handle
  BY BoundsAssumption DEF Handle, NoHandle
<1>8. Root \notin Paths /\ Closed \notin Name /\ Unlinked \notin Name /\ Closed # Unlinked
  BY <1>1 DEF Name, Closed, Unlinked
<1> QED
  BY <1>1, <1>2, <1>3, <1>4, <1>5, <1>6, <1>7, <1>8

\* The content of no file is a sequence of chunks too.
LEMMA AbsentFacts == Absent \in Seq(Version)
<1>1. 0 \in Version
  BY ConstantFacts
<1> QED
  BY <1>1 DEF Absent

\* The first and the last path of a list are in it.
LEMMA LeastIn ==
    ASSUME NEW list \in SUBSET Paths, list # {}
    PROVE  Least(list) \in list
<1>1. Places(list) \in SUBSET Nat /\ Places(list) # {}
  BY ConstantFacts DEF Places
<1>2. \E x \in Places(list) : \A y \in Places(list) : x <= y
  BY <1>1, LeastNumber
<1>3. Min(Places(list)) \in Places(list)
  BY <1>2 DEF Min
<1> QED
  BY <1>3 DEF Least, Places

\* The last of the paths of a list that is not empty is one of them.
LEMMA GreatestIn ==
    ASSUME NEW list \in SUBSET Paths, list # {}
    PROVE  Greatest(list) \in list
<1>1. PICK n \in Nat : n = Len(Order)
  BY ConstantFacts
<1>2. PICK P : P = Places(list)
  OBVIOUS
<1>3. P \subseteq 1 .. n /\ P # {}
  BY <1>1, <1>2, ConstantFacts DEF Places
<1>4. PICK S : S = {n - i : i \in P}
  OBVIOUS
<1>5. S \in SUBSET Nat /\ S # {}
  <2>1. \A i \in P : n - i \in Nat
    BY <1>3
  <2>2. \A x \in S : x \in Nat
    BY <1>4, <2>1
  <2> QED
    BY <1>3, <1>4, <2>2
<1>6. PICK x \in S : \A y \in S : x <= y
  BY <1>5, LeastNumber
<1>7. PICK i \in P : x = n - i
  BY <1>4, <1>6
<1>8. ASSUME NEW j \in P
      PROVE  i >= j
  <2>1. n - j \in S
    BY <1>4, <1>8
  <2>2. n - i <= n - j
    BY <1>6, <1>7, <2>1
  <2>3. i \in Nat /\ j \in Nat
    BY <1>3, <1>7, <1>8
  <2> QED
    BY <2>2, <2>3
<1>9. Max(P) \in P
  BY <1>7, <1>8 DEF Max
<1> QED
  BY <1>2, <1>9 DEF Greatest, Places

\* The path the sync is at is in its list.
LEMMA TargetIn ==
    ASSUME ClientOK
    PROVE  /\ sync.create # {} => Target = Least(sync.create) /\ Target \in sync.create
           /\ sync.create = {} /\ sync.delete # {} =>
                Target = Greatest(sync.delete) /\ Target \in sync.delete
<1>1. sync.create \in SUBSET Paths /\ sync.delete \in SUBSET Paths
  BY DEF ClientOK, SyncType
<1>2. sync.create # {} => Least(sync.create) \in sync.create
  BY <1>1, LeastIn
<1>3. sync.delete # {} => Greatest(sync.delete) \in sync.delete
  BY <1>1, GreatestIn
<1> QED
  BY <1>2, <1>3 DEF Target

-----------------------------------------------------------------------------
(* Initially.                                                              *)

\* The sync when it does not run, and the upload.
LEMMA IdleTypes ==
    /\ Idle \in SyncType /\ NoUpload \in UpType
    /\ \A err \in Results : StopSync(err) \in SyncType
<1>1. /\ "idle" \in SyncSteps /\ "idle" \in UpSteps /\ 0 \in Version
      /\ [p \in Paths |-> 0] \in [Paths -> Version]
  BY ConstantFacts DEF SyncSteps, UpSteps
<1>2. NoUpload \in UpType
  BY <1>1 DEF UpType, NoUpload
<1>3. ASSUME NEW err \in Results
      PROVE  [step |-> "idle", list |-> [p \in Paths |-> 0], create |-> {}, delete |-> {},
              result |-> err] \in SyncType
  BY <1>1 DEF SyncType
<1>4. Idle \in SyncType
  BY <1>3 DEF Idle, Results
<1>5. ASSUME NEW err \in Results
      PROVE  StopSync(err) \in SyncType
  <2>1. StopSync(err) = [step |-> "idle", list |-> [p \in Paths |-> 0], create |-> {},
                         delete |-> {}, result |-> err]
    BY DEF StopSync, Idle
  <2> QED
    BY <1>3, <2>1
<1> QED
  BY <1>2, <1>4, <1>5

\* The invariant holds at first.
LEMMA InitIInv == Init => IInv
<1> SUFFICES ASSUME Init
             PROVE  IInv
  OBVIOUS
<1>1. /\ local \in {[p \in Paths |-> v] : v \in {0, 1}}
      /\ snapshot \in {[p \in Paths |-> 0], local}
      /\ remote = [n \in Name |->
            IF n[1] = Top \/ snapshot[n[2]] = 0 THEN Absent
            ELSE IF n[2] \in Dirs THEN <<>> ELSE Whole(1)]
  BY DEF Init
<1>2. /\ edits = 1 /\ same = Paths
      /\ sync = Idle /\ up = NoUpload /\ call = NoCall
      /\ req = <<>> /\ ans = NoAnswer
      /\ handles = [h \in Handle |-> Closed]
      /\ cwd = Folder /\ at = [p \in Paths |-> Folder] /\ begun = {}
      /\ syncs = 0 /\ faults = 0
  BY DEF Init
<1>3. /\ ~Running /\ ~Uploading /\ Len(req) = 0 /\ sync.step = "idle" /\ up.step = "idle"
      /\ sync.create = {} /\ up.handle = NoHandle /\ up.off = 0 /\ up.src = 0 /\ up.size = 0
  BY <1>2 DEF Running, Uploading, Idle, NoUpload
<1>4. ClientOK
  <2>1. snapshot \in [Paths -> Version] /\ local \in [Paths -> Version]
    BY <1>1, <1>2, ConstantFacts
  <2>2. MaxSyncs \in Nat /\ MaxFaults \in Nat
    BY BoundsAssumption
  <2>3. sync \in SyncType /\ up \in UpType
    BY <1>2, IdleTypes
  <2>4. /\ edits \in Version /\ same \subseteq Paths /\ call \in Ops \cup {NoCall}
        /\ begun \subseteq Paths
    BY <1>2, ConstantFacts
  <2>5. syncs \in 0 .. MaxSyncs /\ faults \in 0 .. MaxFaults
    BY <1>2, <2>2
  <2> QED
    BY <2>1, <2>3, <2>4, <2>5, Zenon DEF ClientOK
<1>5. ServerOK
  <2>1. Whole(1) \in Seq(Version)
    <3>1. 1 \in Version /\ Sizes[1] \in Nat
      BY ConstantFacts
    <3> QED
      BY <3>1 DEF Whole
  <2>2. Absent \in Seq(Version) /\ <<>> \in Seq(Version)
    BY AbsentFacts
  <2>3. remote \in [Name -> Seq(Version)]
    BY <1>1, <2>1, <2>2
  <2>4. handles \in [Handle -> (Dir \X Files) \cup {Closed, Unlinked}]
    BY <1>2
  <2>5. cwd \in Dir /\ at \in [Paths -> Dir]
    BY <1>2 DEF Dir
  <2> QED
    BY <1>2, <2>3, <2>4, <2>5 DEF ServerOK
<1>6. VersionsFit
  BY <1>1, <1>2, <1>3 DEF VersionsFit, Idle
<1>7. SyncFit /\ CallFits
  BY <1>2, <1>3 DEF SyncFit, CallFits, NoCall
<1>8. ReqFits /\ WritesFirst /\ HandleFits /\ Dirty
  BY <1>2, <1>3 DEF ReqFits, WritesFirst, HandleFits, Dirty
<1>9. Settled /\ Done /\ Answered /\ Uploaded
  BY <1>2, <1>3 DEF Settled, Done, Answered, Uploaded
<1>10. SnapshotTrue
  <2> SUFFICES ASSUME NEW p \in Files, snapshot[p] # 0
               PROVE  remote[<<at[p], p>>] = Whole(snapshot[p])
    BY DEF SnapshotTrue
  <2>1. p \in Paths /\ p \notin Dirs
    BY DEF Files
  <2>2. snapshot[p] = 1 /\ at[p] = Folder
    BY <1>1, <1>2, <2>1
  <2>3. <<Folder, p>> \in Name /\ Folder # Top
    BY <2>1 DEF Name, Dir, Folder, Top
  <2> QED
    BY <1>1, <2>1, <2>2, <2>3
<1> QED
  BY <1>4, <1>5, <1>6, <1>7, <1>8, <1>9, <1>10 DEF IInv

-----------------------------------------------------------------------------
(* Steps of the client.                                                    *)

\* The sync stops with an error, or the client with it: no request on the way
\* has a callback any more.
LEMMA EndedIInv ==
    ASSUME IInv, NEW err \in Results,
           sync' = StopSync(err), up' = NoUpload, call' = NoCall, ans' = NoAnswer,
           UNCHANGED userVars, UNCHANGED serverVars, begun' = begun, syncs' = syncs,
           faults' \in 0 .. MaxFaults,
           snapshot' = snapshot \/ snapshot' = [p \in Paths |-> 0],
           req' \in Seq(RequestType),
           \A i \in 1 .. Len(req') :
              /\ ~req'[i].cb
              /\ \/ req'[i].op = "close"
                 \/ /\ i \in 1 .. Len(req) /\ req'[i].op = req[i].op
                    /\ req'[i].path = req[i].path /\ req'[i].h = req[i].h
    PROVE  IInv'
<1>0. /\ ~Running' /\ ~Uploading' /\ sync'.step = "idle" /\ up'.step = "idle"
      /\ sync' = [step |-> "idle", list |-> [p \in Paths |-> 0], create |-> {},
                  delete |-> {}, result |-> err]
      /\ up' = [step |-> "idle", handle |-> NoHandle, off |-> 0, src |-> 0, size |-> 0]
  BY DEF Running, Uploading, StopSync, Idle, NoUpload
<1>1. /\ local' = local /\ edits' = edits /\ same' = same
      /\ remote' = remote /\ handles' = handles /\ cwd' = cwd /\ at' = at
  BY DEF userVars, serverVars
<1>2. snapshot' \in [Paths -> Version]
  BY ConstantFacts DEF IInv, ClientOK
<1>3. ClientOK'
  <2>1. sync' \in SyncType /\ up' \in UpType
    BY IdleTypes
  <2> QED
    BY <1>1, <1>2, <2>1 DEF IInv, ClientOK
<1>4. ServerOK'
  BY <1>1 DEF IInv, ServerOK
<1>5. VersionsFit'
  <2>1. \A p \in Paths : snapshot'[p] = snapshot[p] \/ snapshot'[p] = 0
    OBVIOUS
  <2>2. edits \in Nat
    BY ConstantFacts DEF IInv, ClientOK
  <2> QED
    BY <1>0, <1>1, <2>1, <2>2 DEF IInv, VersionsFit
<1>6. SyncFit'
  BY <1>0 DEF SyncFit
<1>7. CallFits'
  BY <1>0 DEF CallFits, NoCall, Uploading
<1>8. ReqFits'
  BY DEF IInv, ReqFits
<1>9. WritesFirst'
  BY <1>1 DEF IInv, WritesFirst
<1>10. HandleFits'
  BY <1>0 DEF HandleFits
<1>12. Dirty'
  BY <1>0 DEF IInv, Dirty
<1>13. Settled' /\ Done'
  BY <1>0 DEF Settled, Done
<1>14. Answered' /\ Uploaded'
  BY <1>0 DEF Answered, Uploaded
<1>15. SnapshotTrue'
  BY <1>1, ConstantFacts DEF IInv, SnapshotTrue
<1> QED
  BY <1>3, <1>4, <1>5, <1>6, <1>7, <1>8, <1>9, <1>10, <1>12, <1>13, <1>14, <1>15 DEF IInv

\* A step of the sync on its list.
LEMMA GoFacts ==
    ASSUME ClientOK, NEW s \in SyncSteps \ {"idle"}, Running, Go(s), snapshot' = snapshot
    PROVE  /\ sync' \in SyncType /\ sync'.step = s /\ Running'
           /\ sync'.list = sync.list /\ sync'.create = sync.create
           /\ sync'.delete = sync.delete /\ sync'.result = sync.result
           /\ Target' = Target
           /\ ToCreate(sync.list)' = ToCreate(sync.list)
           /\ ToDelete(sync.list)' = ToDelete(sync.list)
<1>1. /\ sync' \in SyncType /\ sync'.step = s
      /\ sync'.list = sync.list /\ sync'.create = sync.create
      /\ sync'.delete = sync.delete /\ sync'.result = sync.result
  BY DEF ClientOK, SyncType, Go
<1>2. Running' /\ Target' = Target
  BY <1>1 DEF Running, Target
<1>3. /\ ToCreate(sync.list)' = ToCreate(sync.list)
      /\ ToDelete(sync.list)' = ToDelete(sync.list)
  BY <1>1 DEF ToCreate, ToDelete
<1> QED
  BY <1>1, <1>2, <1>3

\* What stays true while nobody touches the folders.
LEMMA StillFacts ==
    ASSUME IInv, Running, UNCHANGED <<userVars, snapshot, begun, remote, at>>,
           Running', sync'.list = sync.list, sync'.create = sync.create,
           sync'.delete = sync.delete
    PROVE  VersionsFit' /\ Done' /\ SnapshotTrue' /\ Changed(sync.list)' = Changed(sync.list)
<1>1. local' = local /\ edits' = edits /\ same' = same
  BY DEF userVars
<1>2. VersionsFit'
  BY <1>1 DEF IInv, VersionsFit
<1>3. Done'
  BY <1>1 DEF IInv, Done
<1>4. SnapshotTrue'
  BY <1>1 DEF IInv, SnapshotTrue
<1>5. Changed(sync.list)' = Changed(sync.list)
  BY DEF Changed, ToCreate, ToDelete
<1> QED
  BY <1>2, <1>3, <1>4, <1>5

\* A step that only names the next step of the task keeps the invariant.
LEMMA StepIInv ==
    ASSUME IInv, NEW s \in SyncSteps \ {"idle"}, Running, Go(s), call = NoCall, ~Uploading,
           UNCHANGED <<userVars, snapshot, up, call, begun, syncs, req, ans, serverVars, faults>>,
           SyncFit'
    PROVE  IInv'
<1>1. ClientOK /\ ServerOK /\ remote' = remote /\ handles' = handles
      /\ cwd' = cwd /\ at' = at /\ local' = local /\ edits' = edits /\ same' = same
  BY DEF IInv, serverVars, userVars
<1>2. /\ sync' \in SyncType /\ sync'.step = s /\ Running'
      /\ sync'.list = sync.list /\ sync'.create = sync.create
      /\ sync'.delete = sync.delete /\ sync'.result = sync.result
      /\ Target' = Target
      /\ ToCreate(sync.list)' = ToCreate(sync.list)
      /\ ToDelete(sync.list)' = ToDelete(sync.list)
  BY <1>1, GoFacts
<1>3. VersionsFit' /\ Done' /\ SnapshotTrue' /\ Changed(sync.list)' = Changed(sync.list)
  BY <1>1, <1>2, StillFacts
<1>4. ClientOK' /\ ServerOK'
  BY <1>1, <1>2 DEF ClientOK, ServerOK
<1>5. ans = NoAnswer /\ ~Uploading' /\ call' = NoCall /\ up.handle = NoHandle /\ up.step # "write"
  BY DEF IInv, ReqFits, CallFits, Uploading
<1>6. CallFits'
  BY <1>2, <1>5 DEF IInv, CallFits, NoCall, Uploading
<1>7. ReqFits' /\ WritesFirst'
  BY <1>1, <1>2 DEF IInv, ReqFits, WritesFirst
<1>8. HandleFits' /\ Answered' /\ Uploaded'
  BY <1>5 DEF HandleFits, Answered, Uploaded
<1>9. Dirty'
  BY <1>2, <1>3 DEF IInv, Dirty
<1>10. Settled'
  BY <1>2 DEF IInv, Settled
<1> QED
  BY <1>3, <1>4, <1>6, <1>7, <1>8, <1>9, <1>10 DEF IInv

\* So does the step that looks at the create list.
LEMMA CheckCreateListIInv ==
    ASSUME IInv, CheckCreateList
    PROVE  IInv'
<1>1. PICK s \in {"check_delete", "create_folder", "upload_file"} :
        /\ Go(s)
        /\ s = IF sync.create = {} THEN "check_delete"
               ELSE IF Least(sync.create) \in Dirs THEN "create_folder" ELSE "upload_file"
  BY DEF CheckCreateList
<1>2. s \in SyncSteps \ {"idle"} /\ Running /\ call = NoCall /\ ~Uploading
  BY DEF CheckCreateList, IInv, CallFits, Running, SyncSteps
<1>3. /\ ClientOK
      /\ UNCHANGED <<userVars, snapshot, up, call, begun, syncs, req, ans, serverVars, faults>>
  BY DEF IInv, CheckCreateList
<1>4. /\ sync'.step = s /\ Running'
      /\ sync'.list = sync.list /\ sync'.create = sync.create
      /\ sync'.delete = sync.delete /\ sync'.result = sync.result
      /\ Target' = Target
      /\ ToCreate(sync.list)' = ToCreate(sync.list)
      /\ ToDelete(sync.list)' = ToDelete(sync.list)
  BY <1>1, <1>2, <1>3, GoFacts
<1>5. sync.create # {} => Target = Least(sync.create) /\ Target \in Paths
  <2>1. sync.create \in SUBSET Paths
    BY <1>3 DEF ClientOK, SyncType
  <2> QED
    BY <1>3, <2>1, TargetIn
<1>6. SyncFit'
  BY <1>1, <1>2, <1>4, <1>5 DEF IInv, SyncFit, CheckCreateList, Files
<1> QED
  BY <1>1, <1>2, <1>3, <1>6, StepIInv

\* What CheckDeleteList does when there is something left, and what it does at
\* the end: the listing the sync started from becomes the snapshot.
LEMMA CheckDeleteListIInv ==
    ASSUME IInv, CheckDeleteList, sync.delete # {}
    PROVE  IInv'
<1>1. PICK s \in {"delete_folder", "delete_file"} :
        /\ Go(s)
        /\ s = IF Greatest(sync.delete) \in Dirs THEN "delete_folder" ELSE "delete_file"
  BY DEF CheckDeleteList
<1>2. s \in SyncSteps \ {"idle"} /\ Running /\ call = NoCall /\ ~Uploading
  BY DEF CheckDeleteList, IInv, CallFits, Running, SyncSteps
<1>3. /\ ClientOK
      /\ UNCHANGED <<userVars, snapshot, up, call, begun, syncs, req, ans, serverVars, faults>>
  BY DEF IInv, CheckDeleteList
<1>4. /\ sync'.step = s /\ Running'
      /\ sync'.list = sync.list /\ sync'.create = sync.create
      /\ sync'.delete = sync.delete /\ sync'.result = sync.result
      /\ Target' = Target
      /\ ToCreate(sync.list)' = ToCreate(sync.list)
      /\ ToDelete(sync.list)' = ToDelete(sync.list)
  BY <1>1, <1>2, <1>3, GoFacts
<1>5. sync.create = {}
  BY DEF CheckDeleteList, IInv, SyncFit
<1>6. Target = Greatest(sync.delete) /\ Target \in Paths
  <2>1. sync.delete \in SUBSET Paths
    BY <1>3 DEF ClientOK, SyncType
  <2> QED
    BY <1>3, <1>5, <2>1, TargetIn
<1>7. SyncFit'
  BY <1>1, <1>2, <1>4, <1>5, <1>6 DEF IInv, SyncFit, CheckDeleteList, Files
<1> QED
  BY <1>1, <1>2, <1>3, <1>7, StepIInv

\* The sync that has nothing left saves a listing that is true of the server.
LEMMA FinishIInv ==
    ASSUME IInv, CheckDeleteList, sync.delete = {}
    PROVE  IInv'
<1>1. /\ sync' = StopSync("none") /\ snapshot' = sync.list /\ Running /\ sync.create = {}
      /\ call = NoCall /\ ~Uploading
      /\ local' = local /\ edits' = edits /\ same' = same /\ up' = up /\ call' = call
      /\ syncs' = syncs /\ req' = req /\ ans' = ans /\ remote' = remote
      /\ handles' = handles /\ cwd' = cwd /\ at' = at /\ faults' = faults
      /\ begun' = begun \ (same \cap Changed(sync.list))
  BY DEF CheckDeleteList, IInv, SyncFit, CallFits, Running, userVars, serverVars
<1>2. /\ ~Running' /\ sync'.step = "idle" /\ ~Uploading' /\ up.step = "idle"
      /\ sync' = [step |-> "idle", list |-> [p \in Paths |-> 0], create |-> {},
                  delete |-> {}, result |-> "none"]
  BY <1>1 DEF Running, Uploading, StopSync, Idle
<1>3. ans = NoAnswer /\ up.handle = NoHandle /\ up.off = 0 /\ up.src = 0
  BY <1>1, <1>2 DEF IInv, ReqFits, CallFits
<1>4. ClientOK' /\ ServerOK'
  <2>1. sync' \in SyncType
    BY <1>1, IdleTypes DEF Results
  <2>2. snapshot' \in [Paths -> Version]
    BY <1>1 DEF IInv, ClientOK, SyncType
  <2> QED
    BY <1>1, <2>1, <2>2 DEF IInv, ClientOK, ServerOK
<1>5. VersionsFit'
  BY <1>1, <1>2 DEF IInv, VersionsFit
<1>6. SyncFit' /\ CallFits'
  BY <1>1, <1>2, <1>3 DEF IInv, SyncFit, CallFits, NoCall, Uploading
<1>7. \A i \in 1 .. Len(req) : ~req[i].cb
  <2>1. \A i \in 1 .. Len(req) : req[i].op \in Ops
    <3>1. \A i \in 1 .. Len(req) : req[i] \in RequestType
      BY DEF IInv, ServerOK
    <3> QED
      BY <3>1 DEF RequestType
  <2> QED
    BY <1>1, <2>1 DEF IInv, ReqFits, NoCall, Ops
<1>8. ReqFits' /\ WritesFirst'
  BY <1>1, <1>3, <1>7 DEF IInv, ReqFits, WritesFirst
<1>9. HandleFits' /\ Settled' /\ Done' /\ Answered' /\ Uploaded'
  BY <1>1, <1>2, <1>3 DEF HandleFits, Settled, Done, Answered, Uploaded
<1>10. /\ \A i \in 1 .. Len(req) : req[i].path \in Changed(sync.list) =>
            req[i].op \notin {"open", "write", "rm"}
       /\ \A p \in Files : sync.list[p] # 0 /\ p \in Changed(sync.list) =>
            sync.list[p] # snapshot[p]
       /\ \A p \in Files : sync.list[p] # 0 /\ p \notin Changed(sync.list) =>
            sync.list[p] = snapshot[p]
  <2>1. \A i \in 1 .. Len(req) : Changed(sync.list) # {} => req[i].op \in {"close", "cd"}
    BY <1>1, <1>7 DEF IInv, Settled, Changed
  <2>2. \A p \in Files : sync.list[p] # 0 => p \notin ToDelete(sync.list)
    BY DEF ToDelete
  <2>3. \A p \in Files : sync.list[p] # 0 =>
          (p \in ToCreate(sync.list) <=> sync.list[p] # snapshot[p])
    BY ConstantFacts DEF ToCreate
  <2> QED
    BY <2>1, <2>2, <2>3 DEF Changed
<1>11. Dirty'
  BY <1>1, <1>2, <1>10 DEF IInv, Dirty
<1>12. SnapshotTrue'
  <2> SUFFICES ASSUME NEW p \in Files, sync.list[p] # 0, p \notin begun'
               PROVE  remote[<<at[p], p>>] = Whole(sync.list[p])
    BY <1>1 DEF SnapshotTrue
  <2>1. CASE p \in begun
    <3>1. p \in same /\ p \in Changed(sync.list)
      BY <1>1, <2>1
    <3>2. sync.list[p] # snapshot[p] /\ p \in Paths
      BY <1>10, <3>1, ConstantFacts
    <3> QED
      BY <1>1, <3>1, <3>2 DEF IInv, Done
  <2>2. CASE p \notin begun
    <3>1. p \notin Changed(sync.list)
      BY <1>1, <2>2 DEF IInv, Dirty
    <3>2. sync.list[p] = snapshot[p]
      BY <1>10, <3>1
    <3> QED
      BY <2>2, <3>2 DEF IInv, SnapshotTrue
  <2> QED
    BY <2>1, <2>2
<1> QED
  BY <1>4, <1>5, <1>6, <1>8, <1>9, <1>11, <1>12 DEF IInv

\* A call that is sent: its request is the only one with a callback.
LEMMA SendFacts ==
    ASSUME IInv, call = NoCall, NEW op \in Ops, NEW path \in Paths,
           NEW h \in Handle \cup {NoHandle}, NEW off \in Nat, NEW data \in Version,
           Send(op, path, h, off, data)
    PROVE  /\ req' \in Seq(RequestType) /\ Len(req) \in Nat /\ Len(req') = Len(req) + 1
           /\ call' = op
           /\ \A i \in 1 .. Len(req) : req'[i] = req[i] /\ ~req[i].cb /\ req[i].op \in Ops
           /\ req'[Len(req) + 1] = Request(op, path, h, off, data, TRUE)
           /\ \A i \in 1 .. Len(req') : i \in 1 .. Len(req) \/ i = Len(req) + 1
<1> DEFINE r == Request(op, path, h, off, data, TRUE)
<1>1. r \in RequestType
  BY DEF Request, RequestType
<1>2. req \in Seq(RequestType) /\ req' = Append(req, r)
  BY DEF IInv, ServerOK, Send
<1>3. \A i \in 1 .. Len(req) : req[i].op \in Ops
  <2>1. \A i \in 1 .. Len(req) : req[i] \in RequestType
    BY <1>2
  <2> QED
    BY <2>1 DEF RequestType
<1>4. \A i \in 1 .. Len(req) : ~req[i].cb
  BY <1>3 DEF IInv, ReqFits, NoCall, Ops
<1> HIDE DEF r
<1>5. /\ req' \in Seq(RequestType) /\ Len(req) \in Nat /\ Len(req') = Len(req) + 1
      /\ \A i \in 1 .. Len(req) : req'[i] = req[i]
      /\ req'[Len(req) + 1] = r
  BY <1>1, <1>2, AppendProperties
<1>6. \A i \in 1 .. Len(req') : i \in 1 .. Len(req) \/ i = Len(req) + 1
  BY <1>5
<1> QED
  BY <1>3, <1>4, <1>5, <1>6 DEF Send, r

\* The sync's own calls: to make a folder, to delete one and to delete a file.
LEMMA SyncCallIInv ==
    ASSUME IInv, NEW op \in {"mkdir", "rmdir", "rm"}, Running, sync.step # "none",
           Target \in Paths, Send(op, Target, NoHandle, 0, 0), Go("none"),
           op = "mkdir" => sync.create # {} /\ Target \in Dirs,
           op = "rmdir" => sync.create = {} /\ sync.delete # {} /\ Target \in Dirs,
           op = "rm" => sync.create = {} /\ sync.delete # {} /\ Target \in Files,
           UNCHANGED <<userVars, snapshot, up, begun, syncs, ans, serverVars, faults>>
    PROVE  IInv'
<1>1. /\ ClientOK /\ ServerOK /\ remote' = remote /\ handles' = handles
      /\ cwd' = cwd /\ at' = at /\ local' = local /\ edits' = edits /\ same' = same /\ op \in Ops
      /\ call = NoCall /\ ~Uploading /\ "none" \in SyncSteps \ {"idle"}
  BY DEF IInv, serverVars, userVars, CallFits, Ops, SyncSteps
<1>2. /\ sync' \in SyncType /\ sync'.step = "none" /\ Running'
      /\ sync'.list = sync.list /\ sync'.create = sync.create
      /\ sync'.delete = sync.delete /\ sync'.result = sync.result
      /\ Target' = Target
      /\ ToCreate(sync.list)' = ToCreate(sync.list)
      /\ ToDelete(sync.list)' = ToDelete(sync.list)
  BY <1>1, GoFacts
<1>3. VersionsFit' /\ Done' /\ SnapshotTrue' /\ Changed(sync.list)' = Changed(sync.list)
  BY <1>1, <1>2, StillFacts
<1>4. /\ req' \in Seq(RequestType) /\ Len(req) \in Nat /\ Len(req') = Len(req) + 1
      /\ call' = op
      /\ \A i \in 1 .. Len(req) : req'[i] = req[i] /\ ~req[i].cb /\ req[i].op \in Ops
      /\ req'[Len(req) + 1] = Request(op, Target, NoHandle, 0, 0, TRUE)
      /\ \A i \in 1 .. Len(req') : i \in 1 .. Len(req) \/ i = Len(req) + 1
  BY <1>1, ConstantFacts, SendFacts DEF NoHandle
<1>5. ClientOK' /\ ServerOK'
  BY <1>1, <1>2, <1>4 DEF ClientOK, ServerOK
<1>6. ans = NoAnswer /\ ~Uploading' /\ up.handle = NoHandle /\ up.step = "idle" /\ up' = up
  BY <1>1 DEF IInv, ReqFits, CallFits, Uploading
<1>7. SyncFit' /\ CallFits'
  BY <1>2, <1>4, <1>6 DEF IInv, SyncFit, CallFits, NoCall, Uploading
<1>8. ReqFits' /\ WritesFirst'
  <2>1. ReqFits'
    BY <1>2, <1>4, <1>6 DEF IInv, ReqFits, Request
  <2>2. WritesFirst'
    BY <1>1, <1>4 DEF IInv, WritesFirst, Request
  <2> QED
    BY <2>1, <2>2
<1>9. HandleFits' /\ Answered' /\ Uploaded'
  BY <1>6 DEF HandleFits, Answered, Uploaded
<1>10. op = "rm" => Target \in begun
  <2> SUFFICES ASSUME op = "rm"
               PROVE  Target \in begun
    OBVIOUS
  <2>1. Target \in sync.delete /\ sync.delete \subseteq ToDelete(sync.list)
    BY <1>1, TargetIn DEF IInv, SyncFit
  <2> QED
    BY <2>1 DEF IInv, Dirty, Changed
<1>11. Dirty'
  BY <1>1, <1>2, <1>3, <1>4, <1>10 DEF IInv, Dirty, Request
<1>12. Settled'
  BY <1>2, <1>4 DEF IInv, Settled, Request
<1> QED
  BY <1>3, <1>5, <1>7, <1>8, <1>9, <1>11, <1>12 DEF IInv

\* Every step of the sync task keeps the invariant.
LEMMA SyncStepIInv ==
    ASSUME IInv, SyncStep
    PROVE  IInv'
<1>1. ClientOK /\ sync.create \in SUBSET Paths /\ sync.delete \in SUBSET Paths
  BY DEF IInv, ClientOK, SyncType
<1>2. CASE CheckCreateList
  BY <1>2, CheckCreateListIInv
<1>3. CASE CreateFolder
  <2>1. /\ sync.create # {} /\ Target \in Dirs /\ Target = Least(sync.create)
        /\ Target \in Paths /\ Running /\ sync.step # "none"
    BY <1>1, <1>3, TargetIn DEF CreateFolder, IInv, SyncFit, Running
  <2> QED
    BY <1>3, <2>1, SyncCallIInv DEF CreateFolder
<1>4. CASE UploadFile
  <2>1. /\ sync.step = "upload_file" /\ Go("none") /\ up' = [NoUpload EXCEPT !.step = "check_source"]
        /\ Running /\ call = NoCall /\ ~Uploading /\ "none" \in SyncSteps \ {"idle"}
        /\ remote' = remote /\ handles' = handles /\ cwd' = cwd /\ at' = at
        /\ local' = local /\ edits' = edits /\ same' = same /\ call' = call
        /\ snapshot' = snapshot /\ begun' = begun /\ syncs' = syncs /\ req' = req /\ ans' = ans /\ faults' = faults
    BY <1>4 DEF UploadFile, IInv, CallFits, Running, SyncSteps, userVars, serverVars
  <2>2. /\ sync' \in SyncType /\ sync'.step = "none" /\ Running'
        /\ sync'.list = sync.list /\ sync'.create = sync.create
        /\ sync'.delete = sync.delete /\ sync'.result = sync.result
        /\ Target' = Target
        /\ ToCreate(sync.list)' = ToCreate(sync.list)
        /\ ToDelete(sync.list)' = ToDelete(sync.list)
    BY <1>1, <2>1, GoFacts
  <2>3. UNCHANGED <<userVars, snapshot, begun, remote, at>>
    BY <2>1 DEF userVars
  <2>4. VersionsFit' /\ Done' /\ SnapshotTrue' /\ Changed(sync.list)' = Changed(sync.list)
    BY <2>1, <2>2, <2>3, StillFacts
  <2>5. up' = [step |-> "check_source", handle |-> NoHandle, off |-> 0, src |-> 0, size |-> 0]
    BY <2>1 DEF NoUpload
  <2>6. up' \in UpType
    BY <2>5, ConstantFacts DEF UpType, UpSteps
  <2>7. ClientOK' /\ ServerOK'
    BY <2>1, <2>2, <2>6 DEF IInv, ClientOK, ServerOK
  <2>8. ans = NoAnswer /\ \A i \in 1 .. Len(req) : ~req[i].cb
    <3>1. \A i \in 1 .. Len(req) : req[i] \in RequestType
      BY DEF IInv, ServerOK
    <3>2. \A i \in 1 .. Len(req) : req[i].op \in Ops
      BY <3>1 DEF RequestType
    <3> QED
      BY <2>1, <3>2 DEF IInv, ReqFits, NoCall, Ops
  <2>9. SyncFit' /\ CallFits'
    BY <2>1, <2>2, <2>5 DEF IInv, SyncFit, CallFits, NoCall, Uploading
  <2>10. ReqFits' /\ WritesFirst'
    BY <2>1, <2>8 DEF IInv, ReqFits, WritesFirst
  <2>11. HandleFits' /\ Answered' /\ Uploaded'
    BY <2>1, <2>5, <2>8 DEF HandleFits, Answered, Uploaded, NoCall
  <2>12. Dirty'
    BY <2>1, <2>2, <2>4 DEF IInv, Dirty
  <2>13. Settled'
    BY <2>1, <2>2 DEF IInv, Settled
  <2> QED
    BY <2>4, <2>7, <2>9, <2>10, <2>11, <2>12, <2>13 DEF IInv
<1>5. CASE CheckDeleteList
  BY <1>5, CheckDeleteListIInv, FinishIInv
<1>6. CASE DeleteFolder
  <2>1. /\ sync.create = {} /\ sync.delete # {} /\ Target \in Dirs
        /\ Target = Greatest(sync.delete)
        /\ Target \in Paths /\ Running /\ sync.step # "none"
    BY <1>1, <1>6, TargetIn DEF DeleteFolder, IInv, SyncFit, Running
  <2> QED
    BY <1>6, <2>1, SyncCallIInv DEF DeleteFolder
<1>7. CASE DeleteFile
  <2>1. /\ sync.create = {} /\ sync.delete # {} /\ Target \in Files
        /\ Target = Greatest(sync.delete)
        /\ Target \in Paths /\ Running /\ sync.step # "none"
    BY <1>1, <1>7, TargetIn DEF DeleteFile, IInv, SyncFit, Running
  <2> QED
    BY <1>7, <2>1, SyncCallIInv DEF DeleteFile
<1> QED
  BY <1>2, <1>3, <1>4, <1>5, <1>6, <1>7 DEF SyncStep

-----------------------------------------------------------------------------
(* The upload.                                                             *)

\* A close goes behind the requests on the way, which stay as they are.
LEMMA CloseFacts ==
    ASSUME NEW q \in Seq(RequestType), NEW h \in Handle \cup {NoHandle}
    PROVE  /\ Close(q, h) \in Seq(RequestType) /\ Len(q) \in Nat
           /\ Len(Close(q, h)) = Len(q) + 1
           /\ \A i \in 1 .. Len(q) : Close(q, h)[i] = q[i]
           /\ Close(q, h)[Len(q) + 1].op = "close" /\ ~Close(q, h)[Len(q) + 1].cb
           /\ \A i \in 1 .. Len(Close(q, h)) : i \in 1 .. Len(q) \/ i = Len(q) + 1
<1> DEFINE r == Request("close", Root, h, 0, 0, FALSE)
<1>1. r \in RequestType /\ r.op = "close" /\ ~r.cb
  BY ConstantFacts DEF Request, RequestType, Ops
<1>2. Close(q, h) = Append(q, r)
  BY DEF Close
<1> HIDE DEF r
<1>3. /\ Append(q, r) \in Seq(RequestType) /\ Len(q) \in Nat
      /\ Len(Append(q, r)) = Len(q) + 1
      /\ \A i \in 1 .. Len(q) : Append(q, r)[i] = q[i]
      /\ Append(q, r)[Len(q) + 1] = r
  BY <1>1, AppendProperties
<1>4. \A i \in 1 .. Len(q) + 1 : i \in 1 .. Len(q) \/ i = Len(q) + 1
  BY <1>3
<1> QED
  BY <1>1, <1>2, <1>3, <1>4

\* Stop with an error closes the remote file and stops the sync.
LEMMA UploadFailsIInv ==
    ASSUME IInv, NEW err \in {"open_source_file_fail", "open_out_file_fail", "read_file_fail",
                              "write_file_fail"},
           NEW q \in Seq(RequestType),
           \A i \in 1 .. Len(q) :
              /\ ~q[i].cb /\ i \in 1 .. Len(req)
              /\ q[i].op = req[i].op /\ q[i].path = req[i].path /\ q[i].h = req[i].h,
           StopUpload(err, q), call' = NoCall, ans' = NoAnswer,
           UNCHANGED userVars, UNCHANGED serverVars, begun' = begun, syncs' = syncs,
           snapshot' = snapshot,
           faults' \in 0 .. MaxFaults
    PROVE  IInv'
<1>1. /\ sync' = StopSync("upload_file_fail") /\ up' = NoUpload
      /\ req' = Close(q, up.handle)
  BY DEF StopUpload, UploadDone
<1>2. up.handle \in Handle \cup {NoHandle}
  BY DEF IInv, ClientOK, UpType
<1>3. /\ req' \in Seq(RequestType)
      /\ \A i \in 1 .. Len(q) : req'[i] = q[i]
      /\ req'[Len(q) + 1].op = "close" /\ ~req'[Len(q) + 1].cb
      /\ \A i \in 1 .. Len(req') : i \in 1 .. Len(q) \/ i = Len(q) + 1
  BY <1>1, <1>2, CloseFacts
<1>4. \A i \in 1 .. Len(req') :
         /\ ~req'[i].cb
         /\ \/ req'[i].op = "close"
            \/ /\ i \in 1 .. Len(req) /\ req'[i].op = req[i].op
               /\ req'[i].path = req[i].path /\ req'[i].h = req[i].h
  BY <1>3
<1>5. "upload_file_fail" \in Results
  BY DEF Results
<1> QED
  BY <1>1, <1>3, <1>4, <1>5, EndedIInv

\* What the sync has done is taken from its list, with nothing but closes on
\* the way.
LEMMA CreatedIInv ==
    ASSUME IInv, Running, sync.create # {},
           sync' = [sync EXCEPT !.step = "check_create", !.create = @ \ {Least(@)}],
           up' = NoUpload, call' = NoCall, ans' = NoAnswer,
           UNCHANGED userVars, UNCHANGED serverVars, begun' = begun, syncs' = syncs,
           snapshot' = snapshot,
           faults' \in 0 .. MaxFaults,
           req' \in Seq(RequestType),
           \A i \in 1 .. Len(req') : req'[i].op = "close" /\ ~req'[i].cb,
           Target \in Files /\ Target \in same =>
              remote[<<at[Target], Target>>] = Whole(sync.list[Target]),
           Target \in Dirs => remote[<<at[Target], Target>>] # Absent
    PROVE  IInv'
<1>1. /\ ClientOK /\ ServerOK /\ remote' = remote /\ handles' = handles
      /\ cwd' = cwd /\ at' = at /\ local' = local /\ edits' = edits /\ same' = same
  BY DEF IInv, serverVars, userVars
<1>2. /\ Target = Least(sync.create) /\ Target \in sync.create
      /\ sync.create \in SUBSET Paths
  BY <1>1, TargetIn DEF ClientOK, SyncType
<1>3. /\ sync' \in SyncType /\ sync'.step = "check_create" /\ sync'.list = sync.list
      /\ sync'.create = sync.create \ {Target} /\ sync'.delete = sync.delete
      /\ sync'.result = sync.result
  <2>1. "check_create" \in SyncSteps
    BY DEF SyncSteps
  <2> QED
    BY <1>1, <1>2, <2>1 DEF ClientOK, SyncType
<1>4. Running' /\ ~Uploading' /\ up'.step = "idle" /\ up'.handle = NoHandle /\ up'.off = 0
      /\ up'.src = 0 /\ up'.size = 0
  BY <1>3 DEF Running, Uploading, NoUpload
<1>5. /\ ToCreate(sync.list)' = ToCreate(sync.list)
      /\ ToDelete(sync.list)' = ToDelete(sync.list)
  BY <1>3 DEF ToCreate, ToDelete
<1>6. ClientOK' /\ ServerOK'
  BY <1>1, <1>3, IdleTypes DEF ClientOK, ServerOK
<1>7. VersionsFit'
  BY <1>1, <1>3, <1>4 DEF IInv, VersionsFit
<1>8. SyncFit'
  BY <1>3, <1>4, <1>5 DEF IInv, SyncFit
<1>9. CallFits'
  BY <1>3, <1>4 DEF CallFits, NoCall, Uploading
<1>10. ReqFits' /\ WritesFirst' /\ Settled'
  BY DEF ReqFits, WritesFirst, Settled
<1>11. HandleFits' /\ Answered' /\ Uploaded'
  BY <1>4 DEF HandleFits, Answered, Uploaded, NoCall
<1>12. Dirty'
  BY <1>3, <1>5 DEF IInv, Dirty, Changed
<1>13. Done'
  <2> SUFFICES ASSUME NEW p \in Paths
               PROVE  /\ p \in Files /\ sync.list[p] # 0 /\ sync.list[p] # snapshot[p]
                           /\ p \notin sync'.create /\ p \in same
                           => remote[<<at[p], p>>] = Whole(sync.list[p])
                      /\ p \in Dirs /\ sync.list[p] # 0 /\ snapshot[p] = 0
                           /\ p \notin sync'.create => remote[<<at[p], p>>] # Absent
                      /\ sync.list[p] = 0 /\ snapshot[p] # 0 /\ p \notin sync.delete
                           => remote[<<at[p], p>>] = Absent
    BY <1>1, <1>3, <1>4 DEF Done
  <2>1. p \notin sync'.create => p = Target \/ p \notin sync.create
    BY <1>3
  <2>2. sync.list[p] = 0 /\ snapshot[p] # 0 /\ p \notin sync.delete => remote[<<at[p], p>>] = Absent
    BY DEF IInv, Done
  <2>3. CASE p = Target
    BY <2>2, <2>3
  <2>4. CASE p # Target
    BY <2>1, <2>4 DEF IInv, Done
  <2> QED
    BY <2>3, <2>4
<1>14. SnapshotTrue'
  BY <1>1 DEF IInv, SnapshotTrue
<1> QED
  BY <1>6, <1>7, <1>8, <1>9, <1>10, <1>11, <1>12, <1>13, <1>14 DEF IInv

\* A path that is gone on the server leaves the delete list.
LEMMA DeletedIInv ==
    ASSUME IInv, Running, sync.create = {}, sync.delete # {},
           sync' = [sync EXCEPT !.step = "check_delete", !.delete = @ \ {Greatest(@)}],
           up' = NoUpload, call' = NoCall, ans' = NoAnswer,
           UNCHANGED userVars, UNCHANGED serverVars, begun' = begun, syncs' = syncs,
           snapshot' = snapshot,
           faults' \in 0 .. MaxFaults,
           req' \in Seq(RequestType),
           \A i \in 1 .. Len(req') : req'[i].op = "close" /\ ~req'[i].cb,
           remote[<<at[Target], Target>>] = Absent
    PROVE  IInv'
<1>1. /\ ClientOK /\ ServerOK /\ remote' = remote /\ handles' = handles
      /\ cwd' = cwd /\ at' = at /\ local' = local /\ edits' = edits /\ same' = same
  BY DEF IInv, serverVars, userVars
<1>2. /\ Target = Greatest(sync.delete) /\ Target \in sync.delete
      /\ sync.delete \in SUBSET Paths
  BY <1>1, TargetIn DEF ClientOK, SyncType
<1>3. /\ sync' \in SyncType /\ sync'.step = "check_delete" /\ sync'.list = sync.list
      /\ sync'.create = sync.create /\ sync'.delete = sync.delete \ {Target}
      /\ sync'.result = sync.result
  <2>1. "check_delete" \in SyncSteps
    BY DEF SyncSteps
  <2> QED
    BY <1>1, <1>2, <2>1 DEF ClientOK, SyncType
<1>4. Running' /\ ~Uploading' /\ up'.step = "idle" /\ up'.handle = NoHandle /\ up'.off = 0
      /\ up'.src = 0 /\ up'.size = 0
  BY <1>3 DEF Running, Uploading, NoUpload
<1>5. /\ ToCreate(sync.list)' = ToCreate(sync.list)
      /\ ToDelete(sync.list)' = ToDelete(sync.list)
  BY <1>3 DEF ToCreate, ToDelete
<1>6. ClientOK' /\ ServerOK'
  BY <1>1, <1>3, IdleTypes DEF ClientOK, ServerOK
<1>7. VersionsFit'
  BY <1>1, <1>3, <1>4 DEF IInv, VersionsFit
<1>8. SyncFit'
  BY <1>3, <1>4, <1>5 DEF IInv, SyncFit
<1>9. CallFits'
  BY <1>3, <1>4 DEF CallFits, NoCall, Uploading
<1>10. ReqFits' /\ WritesFirst' /\ Settled'
  BY DEF ReqFits, WritesFirst, Settled
<1>11. HandleFits' /\ Answered' /\ Uploaded'
  BY <1>4 DEF HandleFits, Answered, Uploaded, NoCall
<1>12. Dirty'
  BY <1>3, <1>5 DEF IInv, Dirty, Changed
<1>13. Done'
  <2> SUFFICES ASSUME NEW p \in Paths
               PROVE  /\ p \in Files /\ sync.list[p] # 0 /\ sync.list[p] # snapshot[p]
                           /\ p \notin sync.create /\ p \in same
                           => remote[<<at[p], p>>] = Whole(sync.list[p])
                      /\ p \in Dirs /\ sync.list[p] # 0 /\ snapshot[p] = 0
                           /\ p \notin sync.create => remote[<<at[p], p>>] # Absent
                      /\ sync.list[p] = 0 /\ snapshot[p] # 0 /\ p \notin sync'.delete
                           => remote[<<at[p], p>>] = Absent
    BY <1>1, <1>3, <1>4 DEF Done
  <2>1. p \notin sync'.delete => p = Target \/ p \notin sync.delete
    BY <1>3
  <2> QED
    BY <2>1 DEF IInv, Done
<1>14. SnapshotTrue'
  BY <1>1 DEF IInv, SnapshotTrue
<1> QED
  BY <1>6, <1>7, <1>8, <1>9, <1>10, <1>11, <1>12, <1>13, <1>14 DEF IInv

\* An upload under way: what is true at each of its steps.
LEMMA UploadingFacts ==
    ASSUME IInv, Uploading
    PROVE  /\ ClientOK /\ ServerOK /\ Running /\ sync.step = "none" /\ sync.create # {}
           /\ Target = Least(sync.create) /\ Target \in sync.create /\ Target \in Files
           /\ Target \in Paths /\ Target \notin Dirs
           /\ sync.list[Target] # 0 /\ Target \in begun
           /\ call = NoCall => ans = NoAnswer /\ \A i \in 1 .. Len(req) : ~req[i].cb
<1>1. ClientOK /\ ServerOK /\ sync.step = "none" /\ sync.create # {} /\ Target \in Files
  BY DEF IInv, CallFits
<1>2. Target = Least(sync.create) /\ Target \in sync.create /\ Running
  BY <1>1, TargetIn DEF Running
<1>3. Target \in Paths /\ Target \notin Dirs
  BY <1>1 DEF Files
<1>4. Target \in ToCreate(sync.list)
  BY <1>2 DEF IInv, SyncFit
<1>5. sync.list[Target] # 0 /\ sync.list[Target] # snapshot[Target]
  BY <1>1, <1>3, <1>4 DEF ToCreate
<1>6. Target \in begun
  BY <1>2, <1>4 DEF IInv, Dirty, Changed
<1>7. ASSUME call = NoCall
      PROVE  ans = NoAnswer /\ \A i \in 1 .. Len(req) : ~req[i].cb
  <2>1. \A i \in 1 .. Len(req) : req[i] \in RequestType
    BY <1>1 DEF ServerOK
  <2>2. \A i \in 1 .. Len(req) : req[i].op \in Ops
    BY <2>1 DEF RequestType
  <2> QED
    BY <1>7, <2>2 DEF IInv, ReqFits, NoCall, Ops
<1> QED
  BY <1>1, <1>2, <1>3, <1>5, <1>6, <1>7

\* The upload's own calls.
LEMMA UploadCallIInv ==
    ASSUME IInv, Uploading, NEW op \in {"open", "write"}, call = NoCall,
           NEW h \in Handle \cup {NoHandle}, NEW off \in Nat, NEW data \in Version,
           Send(op, Target, h, off, data), up' = [up EXCEPT !.step = "none"],
           h = IF op = "write" THEN up.handle ELSE NoHandle,
           off = up.off, data = IF op = "write" THEN up.src ELSE 0,
           op = "open" => up.step = "open_out",
           op = "write" => up.step = "write" /\ up.off < Sizes[up.src],
           UNCHANGED <<userVars, snapshot, sync, begun, syncs, ans, serverVars, faults>>
    PROVE  IInv'
<1>1. /\ ClientOK /\ ServerOK /\ remote' = remote /\ handles' = handles
      /\ cwd' = cwd /\ at' = at /\ local' = local /\ edits' = edits /\ same' = same /\ op \in Ops
      /\ Running /\ sync.step = "none" /\ sync.create # {} /\ Target \in Files
      /\ Target \in Paths /\ Target \in begun /\ ans = NoAnswer
  BY UploadingFacts DEF serverVars, userVars, Ops
<1>2. /\ Running' /\ sync' = sync /\ Target' = Target
      /\ ToCreate(sync.list)' = ToCreate(sync.list)
      /\ ToDelete(sync.list)' = ToDelete(sync.list)
  BY <1>1 DEF Running, Target, ToCreate, ToDelete
<1>3. VersionsFit' /\ Done' /\ SnapshotTrue' /\ Changed(sync.list)' = Changed(sync.list)
  BY <1>1, <1>2, StillFacts
<1>4. /\ req' \in Seq(RequestType) /\ Len(req) \in Nat /\ Len(req') = Len(req) + 1
      /\ call' = op
      /\ \A i \in 1 .. Len(req) : req'[i] = req[i] /\ ~req[i].cb /\ req[i].op \in Ops
      /\ req'[Len(req) + 1] = Request(op, Target, h, off, data, TRUE)
      /\ \A i \in 1 .. Len(req') : i \in 1 .. Len(req) \/ i = Len(req) + 1
  BY <1>1, SendFacts
<1>4a. /\ req'[Len(req) + 1].op = op /\ req'[Len(req) + 1].path = Target
       /\ req'[Len(req) + 1].h = h /\ req'[Len(req) + 1].off = off
       /\ req'[Len(req) + 1].data = data /\ req'[Len(req) + 1].cb = TRUE
  BY <1>4 DEF Request
<1>5. /\ up' \in UpType /\ up'.step = "none" /\ up'.handle = up.handle /\ up'.off = up.off
      /\ up'.src = up.src /\ up'.size = up.size /\ Uploading'
  <2>1. "none" \in UpSteps
    BY DEF UpSteps
  <2> QED
    BY <1>1, <2>1 DEF ClientOK, UpType, Uploading
<1>6. ClientOK' /\ ServerOK'
  BY <1>1, <1>2, <1>4, <1>5 DEF ClientOK, ServerOK
<1>7. SyncFit' /\ CallFits'
  <2>1. SyncFit'
    BY <1>1, <1>2 DEF IInv, SyncFit
  <2>2. CallFits'
    BY <1>1, <1>2, <1>4, <1>5 DEF IInv, CallFits, NoCall, Uploading
  <2> QED
    BY <2>1, <2>2
<1>8. /\ op = "write" => req = <<>> /\ Len(req) = 0 /\ up.handle \in Handle
                         /\ handles[up.handle] \in {<<at[Target], Target>>, Closed}
      /\ op = "open" => up.handle = NoHandle
  <2>1. up.handle \in Handle \cup {NoHandle}
    BY <1>1 DEF ClientOK, UpType
  <2> QED
    BY <2>1 DEF IInv, HandleFits, CallFits
<1>9. ReqFits' /\ WritesFirst'
  <2>1. ReqFits'
    BY <1>1, <1>2, <1>4, <1>5 DEF IInv, ReqFits, Request
  <2>2. WritesFirst'
    BY <1>1, <1>4, <1>8 DEF IInv, WritesFirst, Request
  <2> QED
    BY <2>1, <2>2
<1>10. HandleFits'
  BY <1>1, <1>2, <1>4, <1>5, <1>8 DEF HandleFits, Request
<1>11. Answered'
  BY <1>1 DEF Answered
<1>12. Uploaded'
  <2> SUFFICES ASSUME Target \in same
               PROVE  Uploaded'
    BY <1>1, <1>2 DEF Uploaded
  <2>1. /\ up.src # 0 => up.src = sync.list[Target] /\ up.size = Sizes[up.src]
        /\ up.step = "write" => remote[<<at[Target], Target>>] = Filled(up.off, up.src)
    BY DEF IInv, Uploaded
  <2>2. CASE op = "open"
    BY <1>1, <1>2, <1>4, <1>5, <2>1, <2>2 DEF Uploaded
  <2>3. CASE op = "write"
    <3>1. Len(req) + 1 = 1
      BY <1>8, <2>3
    <3>2. req'[1].data = up.src
      BY <1>4a, <2>3, <3>1
    <3> QED
      BY <1>1, <1>2, <1>4, <1>5, <2>1, <2>3, <3>2 DEF Uploaded
  <2> QED
    BY <2>2, <2>3
<1>13. Dirty'
  BY <1>1, <1>2, <1>3, <1>4 DEF IInv, Dirty, Request
<1>14. Settled'
  <2>1. /\ sync'.create = sync.create /\ sync'.delete = sync.delete
    BY <1>2
  <2>2. ASSUME Running', \/ sync'.create # ToCreate(sync.list)'
                         \/ sync'.delete # ToDelete(sync.list)'
        PROVE  \A i \in 1 .. Len(req) : req[i].op \in {"close", "cd"}
    BY <1>1, <1>2, <1>4, <2>1, <2>2 DEF IInv, Settled
  <2> QED
    BY <1>4, <1>4a, <2>2 DEF Settled
<1> QED
  BY <1>3, <1>6, <1>7, <1>9, <1>10, <1>11, <1>12, <1>13, <1>14 DEF IInv

\* The source is opened as it is at this moment.
LEMMA CheckSourceFileIInv ==
    ASSUME IInv, CheckSourceFile
    PROVE  IInv'
<1>1. /\ Uploading /\ up.step = "check_source" /\ call = NoCall
      /\ UNCHANGED <<userVars, snapshot, call, begun, syncs, ans, serverVars, faults>>
  BY DEF CheckSourceFile, Uploading, IInv, CallFits
<1>2. /\ ClientOK /\ ServerOK /\ Running /\ sync.step = "none" /\ sync.create # {}
      /\ Target = Least(sync.create) /\ Target \in Files /\ Target \in Paths
      /\ ans = NoAnswer /\ \A i \in 1 .. Len(req) : ~req[i].cb
  BY <1>1, UploadingFacts
<1>3. CASE local[Target] = 0
  <2>1. StopUpload("open_source_file_fail", req)
    BY <1>2, <1>3 DEF CheckSourceFile
  <2>2. /\ req \in Seq(RequestType) /\ call' = NoCall /\ ans' = NoAnswer
        /\ begun' = begun /\ syncs' = syncs /\ snapshot' = snapshot
        /\ UNCHANGED userVars /\ UNCHANGED serverVars /\ faults' \in 0 .. MaxFaults
    BY <1>1, <1>2 DEF ClientOK, ServerOK
  <2> QED
    BY <1>2, <2>1, <2>2, UploadFailsIInv
<1>4. CASE local[Target] # 0
  <2>1. /\ up' = [up EXCEPT !.step = "open_out", !.src = local[Target],
                             !.size = Sizes[local[Target]]]
        /\ sync' = sync /\ req' = req /\ remote' = remote /\ handles' = handles
        /\ cwd' = cwd /\ at' = at /\ local' = local /\ edits' = edits /\ same' = same /\ call' = call
        /\ snapshot' = snapshot /\ begun' = begun /\ syncs' = syncs /\ ans' = ans /\ faults' = faults
    BY <1>2, <1>4 DEF CheckSourceFile, serverVars, userVars
  <2>2. /\ Running' /\ Target' = Target
        /\ ToCreate(sync.list)' = ToCreate(sync.list)
        /\ ToDelete(sync.list)' = ToDelete(sync.list)
    BY <1>2, <2>1 DEF Running, Target, ToCreate, ToDelete
  <2>3. UNCHANGED <<userVars, snapshot, begun, remote, at>>
    BY <2>1 DEF userVars
  <2>4. VersionsFit' /\ Done' /\ SnapshotTrue' /\ Changed(sync.list)' = Changed(sync.list)
    BY <1>2, <2>1, <2>2, <2>3, StillFacts
  <2>5. /\ up' \in UpType /\ up'.step = "open_out" /\ up'.handle = up.handle /\ up'.off = up.off
        /\ up'.src = local[Target] /\ up'.size = Sizes[up'.src] /\ Uploading'
    <3>1. /\ "open_out" \in UpSteps /\ local[Target] \in Version
          /\ Sizes[local[Target]] \in Nat
      BY <1>2, <1>4, ConstantFacts DEF UpSteps, ClientOK
    <3> QED
      BY <1>2, <2>1, <3>1 DEF ClientOK, UpType, Uploading
  <2>6. ClientOK' /\ ServerOK'
    BY <1>2, <2>1, <2>5 DEF ClientOK, ServerOK
  <2>7. SyncFit' /\ CallFits'
    BY <1>1, <1>2, <1>4, <2>1, <2>2, <2>5 DEF IInv, SyncFit, CallFits, NoCall, Uploading
  <2>8. ReqFits' /\ WritesFirst' /\ Settled'
    BY <1>2, <2>1, <2>2 DEF IInv, ReqFits, WritesFirst, Settled
  <2>9. HandleFits' /\ Answered'
    BY <1>1, <1>2, <2>1, <2>2, <2>5 DEF IInv, CallFits, HandleFits, Answered, NoCall
  <2>9a. Uploaded'
    <3>1. Target \in same => local[Target] = sync.list[Target]
      BY <1>2 DEF IInv, VersionsFit
    <3> QED
      BY <1>1, <1>2, <2>1, <2>2, <2>5, <3>1 DEF Uploaded, NoCall
  <2>10. Dirty'
    <3>1. Dirty /\ begun' = begun /\ Len(req') = Len(req)
      BY <2>1 DEF IInv
    <3> QED
      BY <1>2, <2>1, <2>4, <3>1 DEF Dirty
  <2> QED
    BY <2>4, <2>6, <2>7, <2>8, <2>9, <2>9a, <2>10 DEF IInv
<1> QED
  BY <1>3, <1>4

\* With the last chunk written the file is whole.
LEMMA UploadEndsIInv ==
    ASSUME IInv, WriteChunk, up.off >= up.size
    PROVE  IInv'
<1>1. /\ Uploading /\ up.step = "write" /\ call = NoCall /\ req = <<>>
      /\ StopUpload("none", req)
      /\ UNCHANGED <<userVars, snapshot, call, begun, syncs, ans, serverVars, faults>>
  BY DEF WriteChunk, Uploading, IInv, CallFits, HandleFits
<1>2. /\ ClientOK /\ ServerOK /\ Running /\ sync.create # {}
      /\ Target \notin Dirs /\ ans = NoAnswer
  BY <1>1, UploadingFacts
<1>3. /\ sync' = [sync EXCEPT !.step = "check_create", !.create = @ \ {Least(@)}]
      /\ up' = NoUpload /\ req' = Close(req, up.handle)
  BY <1>1 DEF StopUpload, UploadDone
<1>4. req' \in Seq(RequestType) /\ \A i \in 1 .. Len(req') : req'[i].op = "close" /\ ~req'[i].cb
  <2>1. up.handle \in Handle \cup {NoHandle} /\ req \in Seq(RequestType) /\ Len(req) = 0
    BY <1>1, <1>2 DEF ClientOK, UpType, ServerOK
  <2>2. /\ req' \in Seq(RequestType)
        /\ req'[Len(req) + 1].op = "close" /\ ~req'[Len(req) + 1].cb
        /\ \A i \in 1 .. Len(req') : i \in 1 .. Len(req) \/ i = Len(req) + 1
    BY <1>3, <2>1, CloseFacts
  <2>3. \A i \in 1 .. Len(req') : i = Len(req) + 1
    BY <2>1, <2>2
  <2> QED
    BY <2>2, <2>3
<1>5. ASSUME Target \in Files, Target \in same
      PROVE  remote[<<at[Target], Target>>] = Whole(sync.list[Target])
  <2>1. /\ up.src # 0 /\ up.src = sync.list[Target] /\ up.off <= Sizes[up.src]
        /\ up.size = Sizes[up.src]
        /\ remote[<<at[Target], Target>>] = Filled(up.off, up.src)
    BY <1>1, <1>5 DEF IInv, CallFits, Uploaded
  <2>2. up.off \in Nat /\ up.src \in Version
    BY <1>2 DEF ClientOK, UpType
  <2>3. Sizes[up.src] \in Nat
    BY <2>1, <2>2, ConstantFacts
  <2>4. up.off = Sizes[up.src]
    <3>1. \A m, n \in Nat : m >= n /\ m <= n => m = n
      OBVIOUS
    <3> QED
      BY <2>1, <2>2, <2>3, <3>1
  <2> QED
    BY <2>1, <2>4 DEF Filled, Whole
<1>6. /\ call' = NoCall /\ ans' = NoAnswer
      /\ begun' = begun /\ syncs' = syncs /\ snapshot' = snapshot
      /\ UNCHANGED userVars /\ UNCHANGED serverVars /\ faults' \in 0 .. MaxFaults
  BY <1>1, <1>2 DEF ClientOK
<1> QED
  BY <1>2, <1>3, <1>4, <1>5, <1>6, CreatedIInv

\* Every step of the upload keeps the invariant.
LEMMA UploadStepIInv ==
    ASSUME IInv, UploadStep
    PROVE  IInv'
<1>1. CASE CheckSourceFile
  BY <1>1, CheckSourceFileIInv
<1>2. CASE OpenOutFile
  <2>1. Uploading /\ up.step = "open_out" /\ call = NoCall /\ up.off = 0
    BY <1>2 DEF OpenOutFile, Uploading, IInv, CallFits
  <2>2. Target = Least(sync.create)
    BY <2>1, UploadingFacts
  <2>3. NoHandle \in Handle \cup {NoHandle} /\ 0 \in Nat /\ 0 \in Version
    BY ConstantFacts
  <2> QED
    BY <1>2, <2>1, <2>2, <2>3, UploadCallIInv DEF OpenOutFile
<1>3. CASE WriteChunk
  <2>1. Uploading /\ up.step = "write" /\ call = NoCall /\ up.src # 0
    BY <1>3 DEF WriteChunk, Uploading, IInv, CallFits
  <2>2. Target = Least(sync.create) /\ ClientOK
    BY <2>1, UploadingFacts
  <2>3. up.handle \in Handle \cup {NoHandle} /\ up.off \in Nat /\ up.src \in Version
    BY <2>2 DEF ClientOK, UpType
  <2>4. CASE up.off >= up.size
    BY <1>3, <2>4, UploadEndsIInv
  <2>4a. CASE ~(up.off >= up.size) /\ up.off >= Sizes[up.src]
    <3>1. /\ StopUpload("read_file_fail", req) /\ call' = NoCall /\ ans' = ans
          /\ UNCHANGED userVars /\ UNCHANGED serverVars /\ begun' = begun
          /\ syncs' = syncs /\ snapshot' = snapshot /\ faults' = faults
      BY <1>3, <2>1, <2>4a DEF WriteChunk
    <3>2. /\ req \in Seq(RequestType) /\ ans = NoAnswer /\ faults \in 0 .. MaxFaults
          /\ \A i \in 1 .. Len(req) : ~req[i].cb
      BY <2>1, UploadingFacts DEF ServerOK, ClientOK
    <3> QED
      BY <3>1, <3>2, UploadFailsIInv
  <2>5. CASE ~(up.off >= up.size) /\ ~(up.off >= Sizes[up.src])
    <3>0. Sizes[up.src] \in Nat
      BY <2>1, <2>3, ConstantFacts
    <3>1. up.off < Sizes[up.src]
      BY <2>3, <2>5, <3>0
    <3> QED
      BY <1>3, <2>1, <2>2, <2>3, <2>5, <3>1, UploadCallIInv DEF WriteChunk
  <2> QED
    BY <2>4, <2>4a, <2>5
<1> QED
  BY <1>1, <1>2, <1>3 DEF UploadStep

-----------------------------------------------------------------------------
(* Callbacks.                                                              *)

\* Requests whose callback is forgotten are the same requests without one.
LEMMA ForgetFacts ==
    ASSUME NEW q \in Seq(RequestType)
    PROVE  /\ Forget(q) \in Seq(RequestType) /\ Len(Forget(q)) = Len(q)
           /\ \A i \in 1 .. Len(q) :
                /\ ~Forget(q)[i].cb /\ Forget(q)[i].op = q[i].op
                /\ Forget(q)[i].path = q[i].path /\ Forget(q)[i].h = q[i].h
<1>1. Len(q) \in Nat /\ DOMAIN q = 1 .. Len(q) /\ \A i \in 1 .. Len(q) : q[i] \in RequestType
  OBVIOUS
<1>2. ASSUME NEW i \in 1 .. Len(q)
      PROVE  /\ Forget(q)[i] \in RequestType /\ ~Forget(q)[i].cb
             /\ Forget(q)[i].op = q[i].op
             /\ Forget(q)[i].path = q[i].path /\ Forget(q)[i].h = q[i].h
  <2> DEFINE r == q[i]
  <2>1. Forget(q)[i] = [r EXCEPT !.cb = FALSE]
    BY <1>1 DEF Forget
  <2>2. r \in RequestType
    BY <1>1
  <2> HIDE DEF r
  <2>3. /\ [r EXCEPT !.cb = FALSE] \in RequestType /\ ~[r EXCEPT !.cb = FALSE].cb
        /\ [r EXCEPT !.cb = FALSE].op = r.op
        /\ [r EXCEPT !.cb = FALSE].path = r.path /\ [r EXCEPT !.cb = FALSE].h = r.h
    BY <2>2 DEF RequestType
  <2> QED
    BY <2>1, <2>3 DEF r
<1>3. DOMAIN Forget(q) = 1 .. Len(q)
  BY <1>1 DEF Forget
<1>4. Forget(q) = [i \in 1 .. Len(q) |-> Forget(q)[i]]
  BY <1>1 DEF Forget
<1> DEFINE f == Forget(q)
<1> HIDE DEF f
<1>5. [i \in 1 .. Len(q) |-> f[i]] \in Seq(RequestType) /\ Len([i \in 1 .. Len(q) |-> f[i]]) = Len(q)
  BY <1>1, <1>2, IsASeq DEF f
<1> QED
  BY <1>2, <1>4, <1>5 DEF f

\* An upload that is not there.
LEMMA IdleUpload ==
    ASSUME IInv, ~Uploading
    PROVE  up = NoUpload
<1>1. /\ up.step = "idle" /\ up.src = 0 /\ up.handle = NoHandle /\ up.off = 0
      /\ up.size = 0
  BY DEF IInv, CallFits, Uploading
<1>2. up \in UpType
  BY DEF IInv, ClientOK
<1> QED
  BY <1>1, <1>2 DEF UpType, NoUpload

\* A file nothing was written to yet is empty.
LEMMA EmptyFilled ==
    ASSUME NEW v \in Version
    PROVE  Filled(0, v) = <<>>
<1>1. Filled(0, v) \in Seq(Version) /\ Len(Filled(0, v)) = 0
  BY IsASeq DEF Filled
<1> QED
  BY <1>1, EmptySeq

\* The upload goes on with what the answer says.
LEMMA UploadAnswerIInv ==
    ASSUME IInv, ans # NoAnswer, ans.ok,
           \/ /\ call = "open" /\ up' = [up EXCEPT !.step = "write", !.handle = ans.h]
           \/ /\ call = "write" /\ up' = [up EXCEPT !.step = "write", !.off = @ + 1],
           req' = req, sync' = sync, call' = NoCall, ans' = NoAnswer,
           UNCHANGED <<userVars, snapshot, begun, syncs, serverVars, faults>>
    PROVE  IInv'
<1>1. Uploading /\ up.step = "none" /\ req = <<>> /\ Len(req) = 0 /\ up.src # 0
  BY DEF IInv, CallFits, ReqFits, Uploading
<1>2. /\ ClientOK /\ ServerOK /\ remote' = remote /\ handles' = handles
      /\ cwd' = cwd /\ at' = at /\ local' = local /\ edits' = edits /\ same' = same
      /\ Running /\ sync.step = "none" /\ sync.create # {} /\ Target \in Files
      /\ Target \in Paths
  BY <1>1, UploadingFacts DEF serverVars, userVars
<1>3. /\ Running' /\ Target' = Target
      /\ ToCreate(sync.list)' = ToCreate(sync.list)
      /\ ToDelete(sync.list)' = ToDelete(sync.list)
  BY <1>2 DEF Running, Target, ToCreate, ToDelete
<1>4. VersionsFit' /\ Done' /\ SnapshotTrue' /\ Changed(sync.list)' = Changed(sync.list)
  BY <1>2, <1>3, StillFacts
<1>5. /\ up.src \in Version /\ up.off \in Nat /\ up.handle \in Handle \cup {NoHandle}
      /\ Sizes[up.src] \in Nat
  BY <1>1, <1>2, ConstantFacts DEF ClientOK, UpType
<1>6. /\ up' \in UpType /\ up'.step = "write" /\ up'.src = up.src
      /\ up'.size = up.size /\ Uploading'
      /\ call = "open" => up'.handle = ans.h /\ up'.off = 0 /\ ans.h \in Handle
                          /\ handles[ans.h] \in {<<at[Target], Target>>, Closed}
      /\ call = "write" => up'.handle = up.handle /\ up'.off = up.off + 1
                           /\ up.handle # NoHandle
                           /\ handles[up.handle] \in {<<at[Target], Target>>, Closed}
  <2>1. "write" \in UpSteps /\ up \in UpType
    BY <1>2 DEF UpSteps, ClientOK
  <2>2. CASE call = "open"
    <3>1. ans.h \in Handle /\ handles[ans.h] \in {<<at[Target], Target>>, Closed} /\ up.off = 0
      BY <2>2 DEF IInv, HandleFits, CallFits
    <3>2. up' = [up EXCEPT !.step = "write", !.handle = ans.h]
      BY <2>2
    <3> QED
      BY <2>1, <2>2, <3>1, <3>2 DEF UpType, Uploading
  <2>3. CASE call = "write"
    <3>1. up.handle # NoHandle /\ handles[up.handle] \in {<<at[Target], Target>>, Closed}
      BY <2>3 DEF IInv, HandleFits, CallFits
    <3>2. up' = [up EXCEPT !.step = "write", !.off = @ + 1]
      BY <2>3
    <3>3. up.off + 1 \in Nat
      BY <1>5
    <3> QED
      BY <2>1, <2>3, <3>1, <3>2, <3>3 DEF UpType, Uploading
  <2> QED
    BY <2>2, <2>3
<1>7. ClientOK' /\ ServerOK'
  BY <1>2, <1>6 DEF ClientOK, ServerOK
<1>8. SyncFit' /\ CallFits'
  <2>1. SyncFit'
    BY <1>2, <1>3 DEF IInv, SyncFit
  <2>2. up'.handle # NoHandle
    BY <1>6, ConstantFacts
  <2>3. CallFits'
    BY <1>1, <1>2, <1>3, <1>6, <2>2 DEF CallFits, NoCall, Uploading
  <2> QED
    BY <2>1, <2>3
<1>9. ReqFits' /\ WritesFirst' /\ Settled' /\ Answered'
  BY <1>1 DEF ReqFits, WritesFirst, Settled, Answered
<1>10. HandleFits'
  BY <1>1, <1>2, <1>3, <1>6 DEF HandleFits
<1>11. Uploaded'
  <2> SUFFICES ASSUME Target \in same
               PROVE  /\ up.src = sync.list[Target] /\ up.size = Sizes[up.src]
                      /\ up'.off <= Sizes[up.src] /\ remote[<<at[Target], Target>>] = Filled(up'.off, up.src)
    BY <1>2, <1>3, <1>6 DEF Uploaded, NoCall
  <2>1. /\ up.src = sync.list[Target] /\ up.size = Sizes[up.src]
        /\ call = "open" => remote[<<at[Target], Target>>] = <<>>
        /\ call = "write" => /\ up.off < Sizes[up.src]
                             /\ remote[<<at[Target], Target>>] = Filled(up.off + 1, up.src)
    BY <1>1 DEF IInv, Uploaded
  <2>2. CASE call = "open"
    BY <1>5, <1>6, <2>1, <2>2, EmptyFilled
  <2>3. CASE call = "write"
    BY <1>5, <1>6, <2>1, <2>3
  <2> QED
    BY <2>2, <2>3
<1>12. Dirty'
  <2>1. Dirty /\ begun' = begun
    BY DEF IInv
  <2> QED
    BY <1>1, <1>2, <1>4, <2>1 DEF Dirty
<1> QED
  BY <1>4, <1>7, <1>8, <1>9, <1>10, <1>11, <1>12 DEF IInv

\* A folder the server does not delete: nothing happens any more.
LEMMA RefusedIInv ==
    ASSUME IInv, call = "rmdir", ans # NoAnswer, req' = req, sync' = sync, up' = up,
           call' = NoCall, ans' = NoAnswer,
           UNCHANGED <<userVars, snapshot, begun, syncs, serverVars, faults>>
    PROVE  IInv'
<1>1. /\ ~Uploading /\ req = <<>> /\ Len(req) = 0 /\ sync.step = "none" /\ Running
      /\ sync.create = {} /\ up.step = "idle" /\ up.handle = NoHandle
  BY DEF IInv, CallFits, ReqFits, Uploading, Running, NoCall
<1>2. /\ ClientOK /\ ServerOK /\ remote' = remote /\ handles' = handles
      /\ cwd' = cwd /\ at' = at /\ local' = local /\ edits' = edits /\ same' = same
  BY DEF IInv, serverVars, userVars
<1>3. /\ Running' /\ Target' = Target
      /\ ToCreate(sync.list)' = ToCreate(sync.list)
      /\ ToDelete(sync.list)' = ToDelete(sync.list)
  BY <1>1 DEF Running, Target, ToCreate, ToDelete
<1>4. VersionsFit' /\ Done' /\ SnapshotTrue' /\ Changed(sync.list)' = Changed(sync.list)
  BY <1>1, <1>2, <1>3, StillFacts
<1>5. ClientOK' /\ ServerOK'
  BY <1>2 DEF ClientOK, ServerOK
<1>6. SyncFit' /\ CallFits'
  BY <1>1, <1>3 DEF IInv, SyncFit, CallFits, NoCall, Uploading
<1>7. ReqFits' /\ WritesFirst' /\ Settled' /\ Answered'
  BY <1>1 DEF ReqFits, WritesFirst, Settled, Answered
<1>8. HandleFits' /\ Uploaded'
  BY <1>1 DEF HandleFits, Uploaded, Uploading
<1>9. Dirty'
  BY <1>1, <1>3, <1>4 DEF IInv, Dirty
<1> QED
  BY <1>4, <1>5, <1>6, <1>7, <1>8, <1>9 DEF IInv

\* A call that failed, or had no answer.
LEMMA CallFailsIInv ==
    ASSUME IInv, NEW h, NEW timedOut \in BOOLEAN, NEW q \in Seq(RequestType),
           call = "rmdir" => timedOut,
           \A i \in 1 .. Len(q) :
              /\ ~q[i].cb /\ i \in 1 .. Len(req)
              /\ q[i].op = req[i].op /\ q[i].path = req[i].path /\ q[i].h = req[i].h,
           Callback(FALSE, h, timedOut, q), faults' \in 0 .. MaxFaults
    PROVE  IInv'
<1>1. /\ call' = NoCall /\ ans' = NoAnswer
      /\ begun' = begun /\ syncs' = syncs /\ snapshot' = snapshot
      /\ UNCHANGED userVars /\ UNCHANGED serverVars
  BY DEF Callback
<1>2. call \notin {"open", "write"} => up = NoUpload
  BY IdleUpload DEF IInv, CallFits, Uploading, NoCall, Callback, OnCreateFolderAnswer,
                    OnOpenFileAnswer, OnWriteFileAnswer, OnDeleteFolderAnswer,
                    OnDeleteFileAnswer
<1>3. \A i \in 1 .. Len(q) :
         /\ ~q[i].cb
         /\ \/ q[i].op = "close"
            \/ /\ i \in 1 .. Len(req) /\ q[i].op = req[i].op
               /\ q[i].path = req[i].path /\ q[i].h = req[i].h
  OBVIOUS
<1>4. "create_dir_fail" \in Results /\ "delete_dir_fail" \in Results
  BY DEF Results
<1>5. CASE OnCreateFolderAnswer(FALSE, q)
  <2>1. sync' = StopSync("create_dir_fail") /\ up' = NoUpload /\ req' = q
    BY <1>2, <1>5 DEF OnCreateFolderAnswer
  <2> QED
    BY <1>1, <1>3, <1>4, <2>1, EndedIInv
<1>6. CASE OnOpenFileAnswer(FALSE, h, q)
  <2>1. StopUpload("open_out_file_fail", q)
    BY <1>6 DEF OnOpenFileAnswer
  <2> QED
    BY <1>1, <2>1, UploadFailsIInv
<1>7. CASE OnWriteFileAnswer(FALSE, q)
  <2>1. StopUpload("write_file_fail", q)
    BY <1>7 DEF OnWriteFileAnswer
  <2> QED
    BY <1>1, <2>1, UploadFailsIInv
<1>8. CASE OnDeleteFolderAnswer(FALSE, timedOut, q)
  <2>1. sync' = StopSync("delete_dir_fail") /\ up' = NoUpload /\ req' = q
    BY <1>2, <1>8 DEF OnDeleteFolderAnswer
  <2> QED
    BY <1>1, <1>3, <1>4, <2>1, EndedIInv
<1>9. CASE OnDeleteFileAnswer(FALSE, q)
  <2>1. sync' = StopSync("delete_dir_fail") /\ up' = NoUpload /\ req' = q
    BY <1>2, <1>9 DEF OnDeleteFileAnswer
  <2> QED
    BY <1>1, <1>3, <1>4, <2>1, EndedIInv
<1> QED
  BY <1>5, <1>6, <1>7, <1>8, <1>9 DEF Callback

\* A call that times out keeps the invariant, wherever its request is.
LEMMA OnTimeoutIInv ==
    ASSUME IInv, OnTimeout
    PROVE  IInv'
<1>1. req \in Seq(RequestType) /\ faults \in 0 .. MaxFaults
  BY DEF IInv, ServerOK, ClientOK
<1>2. /\ Forget(req) \in Seq(RequestType) /\ Len(Forget(req)) = Len(req)
      /\ \A i \in 1 .. Len(req) :
           /\ ~Forget(req)[i].cb /\ Forget(req)[i].op = req[i].op
           /\ Forget(req)[i].path = req[i].path /\ Forget(req)[i].h = req[i].h
  BY <1>1, ForgetFacts
<1>3. faults' \in 0 .. MaxFaults
  BY <1>1, BoundsAssumption DEF OnTimeout
<1>4. \A i \in 1 .. Len(Forget(req)) :
         /\ ~Forget(req)[i].cb /\ i \in 1 .. Len(req)
         /\ Forget(req)[i].op = req[i].op /\ Forget(req)[i].path = req[i].path
         /\ Forget(req)[i].h = req[i].h
  BY <1>2
<1>5. Callback(FALSE, NoHandle, TRUE, Forget(req))
  BY DEF OnTimeout
<1> QED
  BY <1>2, <1>3, <1>4, <1>5, CallFailsIInv

\* An answer, good or bad, keeps the invariant.
LEMMA OnAnswerIInv ==
    ASSUME IInv, OnAnswer
    PROVE  IInv'
<1>1. /\ ans # NoAnswer /\ ans \in AnswerType /\ req = <<>> /\ Len(req) = 0
      /\ req \in Seq(RequestType) /\ call # NoCall
  BY DEF OnAnswer, IInv, ServerOK, ReqFits
<1>2. /\ Callback(ans.ok, ans.h, FALSE, req) /\ faults' = faults /\ faults' \in 0 .. MaxFaults
      /\ call' = NoCall /\ ans' = NoAnswer
      /\ begun' = begun /\ syncs' = syncs /\ snapshot' = snapshot
      /\ UNCHANGED userVars /\ UNCHANGED serverVars
      /\ UNCHANGED <<userVars, snapshot, begun, syncs, serverVars, faults>>
  BY DEF OnAnswer, Callback, IInv, ClientOK
<1>3. Running /\ ans.ok \in BOOLEAN
  BY <1>1 DEF IInv, CallFits, Running, AnswerType
<1>4. call \in {"mkdir", "rmdir", "rm"} => up = NoUpload
  <2>1. call \in {"mkdir", "rmdir", "rm"} => ~Uploading
    BY <1>1 DEF IInv, CallFits, Uploading
  <2> QED
    BY <2>1, IdleUpload
<1>5. CASE ans.ok
  <2>1. CASE OnCreateFolderAnswer(ans.ok, req)
    <3>1. /\ sync.create # {} /\ Target \in Dirs /\ remote[<<at[Target], Target>>] # Absent
          /\ sync' = [sync EXCEPT !.step = "check_create", !.create = @ \ {Least(@)}]
          /\ up' = NoUpload /\ req' = req
      BY <1>1, <1>4, <1>5, <2>1 DEF OnCreateFolderAnswer, IInv, CallFits, Answered
    <3>2. Target \notin Files
      BY <3>1 DEF Files
    <3> QED
      BY <1>1, <1>2, <1>3, <3>1, <3>2, CreatedIInv
  <2>2. CASE OnOpenFileAnswer(ans.ok, ans.h, req)
    BY <1>1, <1>2, <1>5, <2>2, UploadAnswerIInv DEF OnOpenFileAnswer
  <2>3. CASE OnWriteFileAnswer(ans.ok, req)
    BY <1>1, <1>2, <1>5, <2>3, UploadAnswerIInv DEF OnWriteFileAnswer
  <2>4. CASE OnDeleteFolderAnswer(ans.ok, FALSE, req)
    <3>1. /\ sync.create = {} /\ sync.delete # {} /\ remote[<<at[Target], Target>>] = Absent
          /\ sync' = [sync EXCEPT !.step = "check_delete", !.delete = @ \ {Greatest(@)}]
          /\ up' = NoUpload /\ req' = req
      BY <1>1, <1>4, <1>5, <2>4 DEF OnDeleteFolderAnswer, IInv, CallFits, Answered
    <3> QED
      BY <1>1, <1>2, <1>3, <3>1, DeletedIInv
  <2>5. CASE OnDeleteFileAnswer(ans.ok, req)
    <3>1. /\ sync.create = {} /\ sync.delete # {} /\ remote[<<at[Target], Target>>] = Absent
          /\ sync' = [sync EXCEPT !.step = "check_delete", !.delete = @ \ {Greatest(@)}]
          /\ up' = NoUpload /\ req' = req
      BY <1>1, <1>4, <1>5, <2>5 DEF OnDeleteFileAnswer, IInv, CallFits, Answered
    <3> QED
      BY <1>1, <1>2, <1>3, <3>1, DeletedIInv
  <2> QED
    BY <1>2, <2>1, <2>2, <2>3, <2>4, <2>5 DEF Callback
<1>6. CASE ~ans.ok
  <2>1. Callback(FALSE, ans.h, FALSE, req)
    <3>1. ans.ok = FALSE
      BY <1>3, <1>6
    <3> QED
      BY <1>2, <3>1
  <2>2. CASE call = "rmdir"
    <3>1. req' = req /\ sync' = sync /\ up' = up
      BY <2>1, <2>2 DEF Callback, OnCreateFolderAnswer, OnOpenFileAnswer,
                        OnWriteFileAnswer, OnDeleteFolderAnswer, OnDeleteFileAnswer
    <3> QED
      BY <1>1, <1>2, <2>2, <3>1, RefusedIInv
  <2>3. CASE call # "rmdir"
    <3>1. \A i \in 1 .. Len(req) :
            /\ ~req[i].cb /\ i \in 1 .. Len(req)
            /\ req[i].op = req[i].op /\ req[i].path = req[i].path /\ req[i].h = req[i].h
      BY <1>1
    <3> QED
      BY <1>1, <1>2, <2>1, <2>3, <3>1, CallFailsIInv
  <2> QED
    BY <2>2, <2>3
<1> QED
  BY <1>5, <1>6

-----------------------------------------------------------------------------
(* The server.                                                             *)

\* The request that is served or lost is the first, and nobody else writes.
LEMMA TailFacts ==
    ASSUME IInv, req # <<>>, req' = Tail(req)
    PROVE  /\ Head(req) = req[1] /\ Head(req) \in RequestType /\ ans = NoAnswer
           /\ Len(req) \in Nat /\ 1 \in 1 .. Len(req)
           /\ req' \in Seq(RequestType)
           /\ \A i \in 1 .. Len(req') :
                /\ i + 1 \in 1 .. Len(req) /\ req'[i] = req[i + 1]
                /\ req[i + 1].op # "write"
                /\ i + 1 = Len(req) => i = Len(req')
           /\ Head(req).cb => req' = <<>> /\ Head(req).op = call /\ Head(req).path = Target
<1>1. req \in Seq(RequestType)
  BY DEF IInv, ServerOK
<1>2. /\ Head(req) = req[1] /\ Len(req) \in Nat /\ Len(req) # 0
      /\ Tail(req) \in Seq(RequestType) /\ Len(Tail(req)) = Len(req) - 1
      /\ \A i \in 1 .. Len(Tail(req)) : Tail(req)[i] = req[i + 1]
  BY <1>1, HeadTailProperties, EmptySeq
<1>3. 1 \in 1 .. Len(req)
  BY <1>2
<1>4. Head(req) \in RequestType
  BY <1>1, <1>2, <1>3
<1>5. ans = NoAnswer
  BY DEF IInv, ReqFits
<1>6. \A i \in 1 .. Len(req') :
        /\ i + 1 \in 1 .. Len(req) /\ req'[i] = req[i + 1]
        /\ i + 1 # 1 /\ (i + 1 = Len(req) => i = Len(req'))
  <2> TAKE i \in 1 .. Len(req')
  <2>1. req'[i] = req[i + 1] /\ Len(req') = Len(req) - 1
    BY <1>2
  <2>2. i \in Nat /\ i >= 1 /\ i <= Len(req) - 1
    BY <1>2, <2>1
  <2>3. i + 1 \in 1 .. Len(req) /\ i + 1 # 1 /\ (i + 1 = Len(req) => i = Len(req) - 1)
    <3>1. PICK n \in Nat : n = Len(req)
      BY <1>2
    <3>2. i >= 1 /\ i <= n - 1
      BY <2>2, <3>1
    <3>3. i + 1 \in 1 .. n /\ i + 1 # 1 /\ (i + 1 = n => i = n - 1)
      BY <2>2, <3>2
    <3> QED
      BY <3>1, <3>3
  <2> QED
    BY <2>1, <2>3
<1>7. \A i \in 1 .. Len(req') : req[i + 1].op # "write"
  BY <1>6 DEF IInv, WritesFirst
<1>8. ASSUME Head(req).cb
      PROVE  req' = <<>> /\ Head(req).op = call /\ Head(req).path = Target
  <2>1. 1 = Len(req) /\ Head(req).op = call /\ Head(req).path = Target
    BY <1>2, <1>3, <1>8 DEF IInv, ReqFits
  <2>2. Len(req') = 0
    BY <1>2, <2>1
  <2> QED
    BY <1>2, <2>1, <2>2, EmptySeq
<1> QED
  BY <1>2, <1>3, <1>4, <1>5, <1>6, <1>7, <1>8

\* What stays true when a request leaves the way, served or not.
LEMMA QueueKept ==
    ASSUME IInv, req # <<>>, req' = Tail(req), UNCHANGED <<userVars, clientVars>>,
           faults' \in 0 .. MaxFaults,
           ans' # NoAnswer => Head(req).cb /\ ans' \in AnswerType,
           remote' \in [Name -> Seq(Version)],
           handles' \in [Handle -> (Dir \X Files) \cup {Closed, Unlinked}],
           cwd' \in Dir, at' \in [Paths -> Dir]
    PROVE  /\ ClientOK' /\ ServerOK' /\ VersionsFit' /\ SyncFit' /\ CallFits' /\ ReqFits'
           /\ WritesFirst' /\ Dirty' /\ Settled'
<1>1. /\ local' = local /\ edits' = edits /\ same' = same /\ snapshot' = snapshot
      /\ sync' = sync /\ up' = up /\ call' = call /\ syncs' = syncs
      /\ begun' = begun
  BY DEF userVars, clientVars
<1>2. /\ Head(req) = req[1] /\ ans = NoAnswer /\ 1 \in 1 .. Len(req)
      /\ req' \in Seq(RequestType)
      /\ \A i \in 1 .. Len(req') :
           /\ i + 1 \in 1 .. Len(req) /\ req'[i] = req[i + 1]
           /\ req[i + 1].op # "write"
           /\ i + 1 = Len(req) => i = Len(req')
      /\ Head(req).cb => req' = <<>> /\ Head(req).op = call
  BY TailFacts
<1>3. Running' = Running /\ Target' = Target /\ Uploading' = Uploading
      /\ ToCreate(sync.list)' = ToCreate(sync.list)
      /\ ToDelete(sync.list)' = ToDelete(sync.list)
  BY <1>1 DEF Running, Target, Uploading, ToCreate, ToDelete
<1>4. ClientOK' /\ ServerOK'
  BY <1>1, <1>2 DEF IInv, ClientOK, ServerOK
<1>5. VersionsFit' /\ SyncFit' /\ CallFits'
  BY <1>1, <1>3 DEF IInv, VersionsFit, SyncFit, CallFits
<1>6. ReqFits'
  <2>1. ASSUME NEW i \in 1 .. Len(req'), req'[i].cb
        PROVE  ans' = NoAnswer
    <3>1. req' # <<>>
      <4>1. Len(<<>>) = 0 /\ 1 .. 0 = {}
        OBVIOUS
      <4> QED
        BY <2>1, <4>1
    <3> QED
      BY <1>2, <3>1
  <2>2. ans' # NoAnswer => req' = <<>> /\ call # NoCall
    <3>1. Head(req).op \in Ops
      BY TailFacts DEF RequestType
    <3> QED
      BY <1>2, <3>1 DEF NoCall, Ops
  <2>3. \A i \in 1 .. Len(req') :
         /\ req'[i].op \in {"open", "write", "rm"} => req'[i].path \in Files
         /\ req'[i].op \in {"mkdir", "rmdir"} => req'[i].path \in Dirs
         /\ req'[i].cb => /\ i = Len(req')
                          /\ req'[i].op = call /\ req'[i].path = Target
                          /\ call = "write" => req'[i].h = up.handle /\ req'[i].off = up.off
    BY <1>2 DEF IInv, ReqFits
  <2> QED
    BY <1>1, <1>3, <2>1, <2>2, <2>3 DEF ReqFits
<1>7. WritesFirst'
  BY <1>2 DEF WritesFirst
<1>8. Dirty'
  <2>1. \A i \in 1 .. Len(req') :
          req'[i].op \in {"open", "write", "rm"} => req'[i].path \in begun
    BY <1>2 DEF IInv, Dirty
  <2>2. Changed(sync.list)' = Changed(sync.list)
    BY <1>3 DEF Changed
  <2> QED
    BY <1>1, <1>3, <2>1, <2>2 DEF IInv, Dirty
<1>9. Settled'
  <2>1. /\ sync'.create = sync.create /\ sync'.delete = sync.delete
    BY <1>1
  <2>2. ASSUME Running', \/ sync'.create # ToCreate(sync.list)'
                         \/ sync'.delete # ToDelete(sync.list)'
        PROVE  \A i \in 1 .. Len(req) : req[i].op \in {"close", "cd"} \/ req[i].cb
    BY <1>1, <1>3, <2>1, <2>2 DEF IInv, Settled
  <2> QED
    BY <1>2, <2>2 DEF Settled
<1> QED
  BY <1>4, <1>5, <1>6, <1>7, <1>8, <1>9

\* A request that is not the upload's own leaves the upload alone: there is
\* none that has its file open.
LEMMA UploadKept ==
    ASSUME IInv, req # <<>>, req' = Tail(req), UNCHANGED <<userVars, clientVars>>,
           Head(req).op \notin {"open", "write"} \/ ~Head(req).cb,
           ans' # NoAnswer => Head(req).cb
    PROVE  HandleFits' /\ Uploaded'
<1>1. /\ local' = local /\ same' = same /\ snapshot' = snapshot /\ begun' = begun
      /\ sync' = sync /\ up' = up /\ call' = call
  BY DEF userVars, clientVars
<1>2. /\ Head(req) = req[1] /\ 1 \in 1 .. Len(req)
      /\ Head(req).cb => Head(req).op = call
      /\ Head(req).op \in Ops
  BY TailFacts DEF RequestType
<1>3. Head(req).cb => ~Uploading
  BY <1>2 DEF IInv, CallFits, NoCall, Ops
<1>4. up.handle = NoHandle
  <2>1. ~Uploading => up.handle = NoHandle
    BY DEF IInv, CallFits, Uploading
  <2>2. up.handle # NoHandle => Head(req).cb
    BY <1>2 DEF IInv, HandleFits
  <2> QED
    BY <1>3, <2>1, <2>2
<1>5. up.step # "write" /\ call # "write"
  BY <1>4 DEF IInv, CallFits
<1>6. ans' # NoAnswer => call # "open"
  BY <1>2
<1>7. HandleFits'
  BY <1>1, <1>4, <1>5, <1>6 DEF HandleFits
<1>8. Uploading' = Uploading /\ Target' = Target
  BY <1>1 DEF Uploading, Target
<1>9. Uploaded'
  BY <1>1, <1>5, <1>6, <1>8 DEF IInv, Uploaded
<1> QED
  BY <1>7, <1>9

\* A request that changes the server while the sync has something done is the
\* one of its call.
LEMMA OwnRequest ==
    ASSUME IInv, req # <<>>, req' = Tail(req), Running,
           sync.create # ToCreate(sync.list) \/ sync.delete # ToDelete(sync.list),
           Head(req).op \notin {"close", "cd"}
    PROVE  /\ Head(req).cb /\ Head(req).op = call /\ Head(req).path = Target
           /\ call \in {"mkdir", "open", "write"} =>
                /\ Target \in sync.create /\ sync.list[Target] # 0
                /\ sync.delete = ToDelete(sync.list)
           /\ call \in {"rmdir", "rm"} => sync.create = {} /\ Target \in sync.delete /\ sync.list[Target] = 0
<1>1. Head(req) = req[1] /\ 1 \in 1 .. Len(req) /\ ClientOK
  BY TailFacts DEF IInv
<1>2. Head(req).cb
  BY <1>1 DEF IInv, Settled
<1>3. Head(req).op = call /\ Head(req).path = Target
  BY <1>2, TailFacts
<1>4. ASSUME call \in {"mkdir", "open", "write"}
      PROVE  /\ Target \in sync.create /\ sync.list[Target] # 0
             /\ sync.delete = ToDelete(sync.list)
  <2>1. sync.create # {}
    BY <1>4 DEF IInv, CallFits
  <2>2. Target \in sync.create
    BY <1>1, <2>1, TargetIn
  <2>3. Target \in ToCreate(sync.list) /\ sync.delete = ToDelete(sync.list)
    BY <2>1, <2>2 DEF IInv, SyncFit
  <2> QED
    BY <2>2, <2>3 DEF ToCreate
<1>5. ASSUME call \in {"rmdir", "rm"}
      PROVE  sync.create = {} /\ Target \in sync.delete /\ sync.list[Target] = 0
  <2>1. sync.create = {} /\ sync.delete # {}
    BY <1>5 DEF IInv, CallFits
  <2>2. Target \in sync.delete
    BY <1>1, <2>1, TargetIn
  <2>3. Target \in ToDelete(sync.list)
    BY <2>2 DEF IInv, SyncFit
  <2> QED
    BY <2>1, <2>2, <2>3 DEF ToDelete
<1> QED
  BY <1>2, <1>3, <1>4, <1>5

\* The server answers the request it takes from the queue, and no other.
LEMMA ReplyFacts ==
    ASSUME IInv, req # <<>>, NEW ok \in BOOLEAN, NEW h \in Handle \cup {NoHandle}, Reply(ok, h)
    PROVE  /\ req' = Tail(req)
           /\ ans' # NoAnswer => /\ Head(req).cb /\ ans' \in AnswerType
                                 /\ ans' = [ok |-> ok, h |-> h]
                                 /\ ans'.ok = ok /\ ans'.h = h
<1>1. ans = NoAnswer
  BY TailFacts DEF Reply
<1>2. /\ [ok |-> ok, h |-> h] \in AnswerType
      /\ [ok |-> ok, h |-> h].ok = ok /\ [ok |-> ok, h |-> h].h = h
  BY DEF AnswerType
<1>3. /\ Head(req).cb => ans' = [ok |-> ok, h |-> h]
      /\ ~Head(req).cb => ans' = ans
  BY DEF Reply
<1> QED
  BY <1>1, <1>2, <1>3 DEF Reply

\* What OnCreateFolder makes are folders.
LEMMA OnCreateFolderIInv ==
    ASSUME IInv, OnCreateFolder
    PROVE  IInv'
<1> DEFINE d == Head(req).path
           made == {<<cwd, p>> : p \in Above(d)}
<1>1. /\ req # <<>> /\ Head(req).op = "mkdir" /\ Reply(TRUE, NoHandle)
      /\ remote' = [n \in Name |-> IF n \in made /\ remote[n] = Absent THEN <<>> ELSE remote[n]]
      /\ at' = [at EXCEPT ![d] = cwd] /\ cwd' = cwd /\ handles' = handles
      /\ faults' = faults /\ UNCHANGED <<userVars, clientVars>>
      /\ local' = local /\ same' = same /\ snapshot' = snapshot /\ begun' = begun
      /\ sync' = sync /\ up' = up /\ call' = call
  BY DEF OnCreateFolder, Arrived, Here, Named, userVars, clientVars
<1>2. /\ req' = Tail(req)
      /\ ans' # NoAnswer => Head(req).cb /\ ans' \in AnswerType
  BY <1>1, ReplyFacts DEF NoHandle
<1>3. Head(req) = req[1] /\ 1 \in 1 .. Len(req) /\ ClientOK /\ ServerOK
  BY <1>1, <1>2, TailFacts DEF IInv
<1>4. d \in Dirs /\ d \in Paths
  BY <1>1, <1>3, ConstantFacts DEF IInv, ReqFits
<1>5. d \in Above(d) /\ Above(d) \subseteq Dirs
  <2>1. \A p \in Dirs : ParentOf[p] # Root => ParentOf[p] \in Dirs
    BY OrderAssumption
  <2>2. Dirs \in SUBSET Paths
    BY ConstantFacts
  <2> QED
    BY <1>4, <2>1, <2>2 DEF Above
<1> HIDE DEF d
<1>6. /\ \A p \in Files : at'[p] = at[p] /\ remote'[<<at'[p], p>>] = remote[<<at[p], p>>]
      /\ \A p \in Paths : remote[<<at[p], p>>] # Absent => remote'[<<at'[p], p>>] # Absent
      /\ remote'[<<at'[d], d>>] # Absent
      /\ remote' \in [Name -> Seq(Version)] /\ at' \in [Paths -> Dir]
  <2>1. <<>> # Absent /\ <<>> \in Seq(Version)
    <3>1. Len(<<>>) = 0 /\ Len(Absent) = 1
      BY DEF Absent
    <3> QED
      BY <3>1
  <2>2. /\ at \in [Paths -> Dir] /\ cwd \in Dir /\ remote \in [Name -> Seq(Version)]
        /\ at' \in [Paths -> Dir] /\ at'[d] = cwd /\ \A p \in Paths : p # d => at'[p] = at[p]
    BY <1>1, <1>3, <1>4 DEF ServerOK
  <2>3. ASSUME NEW p \in Files
        PROVE  at'[p] = at[p] /\ remote'[<<at'[p], p>>] = remote[<<at[p], p>>]
    <3>1. p \in Paths /\ p # d /\ p \notin Above(d)
      BY <1>4, <1>5 DEF Files
    <3>2. <<at[p], p>> \in Name /\ <<at[p], p>> \notin made
      BY <2>2, <3>1 DEF Name
    <3> QED
      BY <1>1, <2>2, <3>1, <3>2
  <2>4. \A n \in Name : remote[n] # Absent => remote'[n] # Absent
    BY <1>1
  <2>5. <<cwd, d>> \in Name /\ <<cwd, d>> \in made
    BY <1>4, <1>5, <2>2 DEF Name
  <2>6. remote'[<<at'[d], d>>] # Absent
    BY <1>1, <2>1, <2>2, <2>5
  <2>7. ASSUME NEW p \in Paths, remote[<<at[p], p>>] # Absent
        PROVE  remote'[<<at'[p], p>>] # Absent
    <3>1. <<at[p], p>> \in Name
      BY <2>2 DEF Name
    <3> QED
      BY <2>2, <2>4, <2>6, <2>7, <3>1
  <2>8. remote' \in [Name -> Seq(Version)]
    BY <1>1, <2>1, <2>2
  <2> QED
    BY <2>2, <2>3, <2>6, <2>7, <2>8
<1>7. /\ ClientOK' /\ ServerOK' /\ VersionsFit' /\ SyncFit' /\ CallFits' /\ ReqFits'
      /\ WritesFirst' /\ Dirty' /\ Settled'
  BY <1>1, <1>2, <1>3, <1>6, QueueKept DEF ClientOK, ServerOK
<1>8. HandleFits' /\ Uploaded'
  BY <1>1, <1>2, UploadKept
<1>9. Done'
  <2>1. ASSUME Running, NEW p \in Paths
        PROVE  sync.list[p] = 0 /\ snapshot[p] # 0 /\ p \notin sync.delete => remote'[<<at'[p], p>>] = Absent
    <3> SUFFICES ASSUME sync.list[p] = 0, snapshot[p] # 0, p \notin sync.delete
                 PROVE  FALSE
      OBVIOUS
    <3>1. p \in ToDelete(sync.list)
      BY DEF ToDelete
    <3> QED
      BY <1>1, <1>2, <2>1, <3>1, OwnRequest
  <2>2. Running' = Running
    BY <1>1 DEF Running
  <2> QED
    BY <1>1, <1>6, <2>1, <2>2 DEF IInv, Done
<1>10. Answered'
  <2> SUFFICES ASSUME ans' # NoAnswer
               PROVE  call = "mkdir" /\ remote'[<<at'[Target], Target>>] # Absent
    BY <1>1 DEF Answered, Target
  <2>1. call = "mkdir" /\ Target = d
    BY <1>1, <1>2, TailFacts DEF d
  <2> QED
    BY <1>6, <2>1
<1>11. SnapshotTrue'
  BY <1>1, <1>6 DEF IInv, SnapshotTrue
<1> QED
  BY <1>7, <1>8, <1>9, <1>10, <1>11 DEF IInv

\* CxFileServer::OnDeleteFolder keeps the invariant.
LEMMA OnDeleteFolderIInv ==
    ASSUME IInv, OnDeleteFolder
    PROVE  IInv'
<1>1. PICK ok \in BOOLEAN :
        /\ req # <<>> /\ Head(req).op = "rmdir" /\ Reply(ok, NoHandle)
        /\ remote' = IF ok THEN [remote EXCEPT ![<<cwd, Head(req).path>>] = Absent] ELSE remote
        /\ at' = [at EXCEPT ![Head(req).path] = cwd] /\ cwd' = cwd
        /\ handles' = handles /\ faults' = faults /\ UNCHANGED <<userVars, clientVars>>
        /\ local' = local /\ same' = same /\ snapshot' = snapshot /\ begun' = begun
        /\ sync' = sync /\ up' = up /\ call' = call
  <2> DEFINE full == \E p \in Paths : ParentOf[p] = Head(req).path /\ remote[Here(p)] # Absent
  <2>1. /\ remote' = IF full THEN remote ELSE [remote EXCEPT ![Here(Head(req).path)] = Absent]
        /\ Reply(~full, NoHandle) /\ Named(Head(req).path)
    BY DEF OnDeleteFolder
  <2>2. (~full) \in BOOLEAN
    BY Zenon
  <2> HIDE DEF full
  <2>3. remote' = IF ~full THEN [remote EXCEPT ![<<cwd, Head(req).path>>] = Absent] ELSE remote
    BY <2>1 DEF Here
  <2> QED
    BY <2>1, <2>2, <2>3 DEF OnDeleteFolder, Arrived, Named, userVars, clientVars
<1>2. /\ req' = Tail(req)
      /\ ans' # NoAnswer => Head(req).cb /\ ans' \in AnswerType /\ ans'.ok = ok
  BY <1>1, ReplyFacts DEF NoHandle
<1>3. Head(req) = req[1] /\ 1 \in 1 .. Len(req) /\ ClientOK /\ ServerOK
  BY <1>1, <1>2, TailFacts DEF IInv
<1>4. PICK d \in Dirs : d = Head(req).path /\ d \in Paths /\ d \notin Files
  BY <1>1, <1>3, ConstantFacts DEF IInv, ReqFits, Files
<1>5. /\ \A p \in Paths : p # d => at'[p] = at[p] /\ remote'[<<at'[p], p>>] = remote[<<at[p], p>>]
      /\ ok => remote'[<<at'[d], d>>] = Absent
      /\ remote' \in [Name -> Seq(Version)] /\ at' \in [Paths -> Dir]
  <2>1. Absent \in Seq(Version)
    BY AbsentFacts
  <2>2. /\ at \in [Paths -> Dir] /\ cwd \in Dir /\ remote \in [Name -> Seq(Version)]
        /\ at' \in [Paths -> Dir] /\ at'[d] = cwd /\ \A p \in Paths : p # d => at'[p] = at[p]
    BY <1>1, <1>3, <1>4 DEF ServerOK
  <2>3. <<cwd, d>> \in Name /\ \A p \in Paths : <<at[p], p>> \in Name
    BY <1>4, <2>2 DEF Name
  <2>4. remote' = IF ok THEN [remote EXCEPT ![<<cwd, d>>] = Absent] ELSE remote
    BY <1>1, <1>4
  <2>5. \A p \in Paths : p # d => remote'[<<at[p], p>>] = remote[<<at[p], p>>]
    BY <2>2, <2>3, <2>4
  <2>6. ok => remote'[<<cwd, d>>] = Absent
    BY <2>2, <2>3, <2>4
  <2>7. remote' \in [Name -> Seq(Version)]
    BY <2>1, <2>2, <2>4
  <2> QED
    BY <2>2, <2>5, <2>6, <2>7
<1>6. \A p \in Files : p \in Paths /\ p # d
  BY <1>4 DEF Files
<1>7. /\ ClientOK' /\ ServerOK' /\ VersionsFit' /\ SyncFit' /\ CallFits' /\ ReqFits'
      /\ WritesFirst' /\ Dirty' /\ Settled'
  BY <1>1, <1>2, <1>3, <1>5, QueueKept DEF ClientOK, ServerOK
<1>8. HandleFits' /\ Uploaded'
  BY <1>1, <1>2, UploadKept
<1>9. Done'
  <2>1. ASSUME Running, sync.list[d] # 0, d \notin sync.create, snapshot[d] = 0
        PROVE  FALSE
    <3>1. d \in ToCreate(sync.list)
      BY <1>4, <2>1 DEF ToCreate
    <3> QED
      BY <1>1, <1>2, <1>4, <2>1, <3>1, OwnRequest
  <2>1a. ASSUME Running, sync.list[d] = 0, snapshot[d] # 0, d \notin sync.delete
         PROVE  FALSE
    <3>1. d \in ToDelete(sync.list)
      BY <1>4, <2>1a DEF ToDelete
    <3> QED
      BY <1>1, <1>2, <1>4, <2>1a, <3>1, OwnRequest
  <2>2. Running' = Running
    BY <1>1 DEF Running
  <2>3. ASSUME Running, NEW p \in Paths
        PROVE  /\ p \in Files /\ sync.list[p] # 0 /\ sync.list[p] # snapshot[p]
                    /\ p \notin sync.create /\ p \in same
                    => remote'[<<at'[p], p>>] = Whole(sync.list[p])
               /\ p \in Dirs /\ sync.list[p] # 0 /\ snapshot[p] = 0
                    /\ p \notin sync.create => remote'[<<at'[p], p>>] # Absent
               /\ sync.list[p] = 0 /\ snapshot[p] # 0 /\ p \notin sync.delete
                    => remote'[<<at'[p], p>>] = Absent
    <3>1. CASE p # d
      BY <1>5, <2>3, <3>1 DEF IInv, Done
    <3>2. CASE p = d
      <4>1. p \notin Files
        BY <1>4, <3>2
      <4>2. ~(p \in Dirs /\ sync.list[p] # 0 /\ snapshot[p] = 0 /\ p \notin sync.create)
        BY <2>1, <2>3, <3>2
      <4>3. ~(sync.list[p] = 0 /\ snapshot[p] # 0 /\ p \notin sync.delete)
        BY <2>1a, <2>3, <3>2
      <4> QED
        BY <4>1, <4>2, <4>3
    <3> QED
      BY <3>1, <3>2
  <2> QED
    BY <1>1, <2>2, <2>3 DEF Done
<1>10. Answered'
  <2> SUFFICES ASSUME ans' # NoAnswer, ans'.ok
               PROVE  call = "rmdir" /\ remote'[<<at'[Target], Target>>] = Absent
    BY <1>1 DEF Answered, Target
  <2>1. call = "rmdir" /\ Target = d /\ ok
    BY <1>1, <1>2, <1>4, TailFacts
  <2> QED
    BY <1>5, <2>1
<1>11. SnapshotTrue'
  BY <1>1, <1>5, <1>6 DEF IInv, SnapshotTrue
<1> QED
  BY <1>7, <1>8, <1>9, <1>10, <1>11 DEF IInv

\* CxFileServer::OnDeleteFile keeps the invariant.
LEMMA OnDeleteFileIInv ==
    ASSUME IInv, OnDeleteFile
    PROVE  IInv'
<1>1. /\ req # <<>> /\ Head(req).op = "rm" /\ Reply(TRUE, NoHandle)
      /\ remote' = [remote EXCEPT ![<<cwd, Head(req).path>>] = Absent]
      /\ handles' = [h \in Handle |-> IF handles[h] = Here(Head(req).path) THEN Unlinked ELSE handles[h]]
      /\ at' = [at EXCEPT ![Head(req).path] = cwd] /\ cwd' = cwd
      /\ faults' = faults /\ UNCHANGED <<userVars, clientVars>>
      /\ local' = local /\ same' = same /\ snapshot' = snapshot /\ begun' = begun
      /\ sync' = sync /\ up' = up /\ call' = call
  BY DEF OnDeleteFile, Arrived, Here, Named, userVars, clientVars
<1>2. /\ req' = Tail(req)
      /\ ans' # NoAnswer => Head(req).cb /\ ans' \in AnswerType
  BY <1>1, ReplyFacts DEF NoHandle
<1>3. Head(req) = req[1] /\ 1 \in 1 .. Len(req) /\ ClientOK /\ ServerOK
  BY <1>1, <1>2, TailFacts DEF IInv
<1>4. PICK d \in Files : d = Head(req).path /\ d \in Paths /\ d \notin Dirs /\ d \in begun
  BY <1>1, <1>3, ConstantFacts DEF IInv, ReqFits, Files, Dirty
<1>5. /\ \A p \in Paths : p # d => at'[p] = at[p] /\ remote'[<<at'[p], p>>] = remote[<<at[p], p>>]
      /\ remote'[<<at'[d], d>>] = Absent
      /\ remote' \in [Name -> Seq(Version)] /\ at' \in [Paths -> Dir]
      /\ handles' \in [Handle -> (Dir \X Files) \cup {Closed, Unlinked}]
  <2>1. Absent \in Seq(Version)
    BY AbsentFacts
  <2>2. /\ at \in [Paths -> Dir] /\ cwd \in Dir /\ remote \in [Name -> Seq(Version)]
        /\ at' \in [Paths -> Dir] /\ at'[d] = cwd /\ \A p \in Paths : p # d => at'[p] = at[p]
    BY <1>1, <1>3, <1>4 DEF ServerOK
  <2>3. <<cwd, d>> \in Name /\ \A p \in Paths : <<at[p], p>> \in Name
    BY <1>4, <2>2 DEF Name
  <2>4. remote' = [remote EXCEPT ![<<cwd, d>>] = Absent]
    BY <1>1, <1>4
  <2>5. \A p \in Paths : p # d => remote'[<<at[p], p>>] = remote[<<at[p], p>>]
    BY <2>2, <2>3, <2>4
  <2>6. remote'[<<cwd, d>>] = Absent /\ remote' \in [Name -> Seq(Version)]
    BY <2>1, <2>2, <2>3, <2>4
  <2>7. handles' \in [Handle -> (Dir \X Files) \cup {Closed, Unlinked}]
    BY <1>1, <1>3 DEF ServerOK
  <2> QED
    BY <2>2, <2>5, <2>6, <2>7
<1>6. /\ ClientOK' /\ ServerOK' /\ VersionsFit' /\ SyncFit' /\ CallFits' /\ ReqFits'
      /\ WritesFirst' /\ Dirty' /\ Settled'
  BY <1>1, <1>2, <1>3, <1>5, QueueKept DEF ClientOK
<1>7. HandleFits' /\ Uploaded'
  BY <1>1, <1>2, UploadKept
<1>8. Done'
  <2>1. ASSUME Running, sync.list[d] # 0, d \notin sync.create, sync.list[d] # snapshot[d]
        PROVE  FALSE
    <3>1. d \in ToCreate(sync.list)
      BY <1>4, <2>1 DEF ToCreate
    <3> QED
      BY <1>1, <1>2, <1>4, <2>1, <3>1, OwnRequest
  <2>2. Running' = Running
    BY <1>1 DEF Running
  <2>3. ASSUME Running, NEW p \in Paths
        PROVE  /\ p \in Files /\ sync.list[p] # 0 /\ sync.list[p] # snapshot[p]
                    /\ p \notin sync.create /\ p \in same
                    => remote'[<<at'[p], p>>] = Whole(sync.list[p])
               /\ p \in Dirs /\ sync.list[p] # 0 /\ snapshot[p] = 0
                    /\ p \notin sync.create => remote'[<<at'[p], p>>] # Absent
               /\ sync.list[p] = 0 /\ snapshot[p] # 0 /\ p \notin sync.delete
                    => remote'[<<at'[p], p>>] = Absent
    <3>1. CASE p # d
      BY <1>5, <2>3, <3>1 DEF IInv, Done
    <3>2. CASE p = d
      BY <1>4, <1>5, <2>1, <2>3, <3>2
    <3> QED
      BY <3>1, <3>2
  <2> QED
    BY <1>1, <2>2, <2>3 DEF Done
<1>9. Answered'
  <2> SUFFICES ASSUME ans' # NoAnswer, ans'.ok
               PROVE  call = "rm" /\ remote'[<<at'[Target], Target>>] = Absent
    BY <1>1 DEF Answered, Target
  <2>1. call = "rm" /\ Target = d
    BY <1>1, <1>2, <1>4, TailFacts
  <2> QED
    BY <1>5, <2>1
<1>10. SnapshotTrue'
  <2> SUFFICES ASSUME NEW p \in Files, snapshot[p] # 0, p \notin begun
               PROVE  remote'[<<at'[p], p>>] = Whole(snapshot[p])
    BY <1>1 DEF SnapshotTrue
  <2>1. p # d /\ p \in Paths
    BY <1>4 DEF Files
  <2> QED
    BY <1>5, <2>1 DEF IInv, SnapshotTrue
<1> QED
  BY <1>6, <1>7, <1>8, <1>9, <1>10 DEF IInv

\* What a request of a file can spoil is of that file, and not what the sync has
\* done.
LEMMA FileServed ==
    ASSUME IInv, req # <<>>, req' = Tail(req), UNCHANGED <<userVars, clientVars>>,
           Head(req).op \in {"open", "write"}, NEW d \in Files, d = Head(req).path,
           \A p \in Paths : p # d => remote'[<<at'[p], p>>] = remote[<<at[p], p>>]
    PROVE  Done' /\ SnapshotTrue'
<1>1. /\ local' = local /\ same' = same /\ snapshot' = snapshot /\ begun' = begun
      /\ sync' = sync
      /\ Head(req) = req[1] /\ 1 \in 1 .. Len(req)
  BY TailFacts DEF userVars, clientVars
<1>2. d \in Paths /\ d \notin Dirs /\ d \in begun
  BY <1>1 DEF IInv, Dirty, Files
<1>3. ASSUME Running
      PROVE  /\ ~(sync.list[d] # 0 /\ d \notin sync.create /\ sync.list[d] # snapshot[d])
             /\ ~(sync.list[d] = 0 /\ snapshot[d] # 0 /\ d \notin sync.delete)
  <2>1. ASSUME sync.list[d] # 0, d \notin sync.create, sync.list[d] # snapshot[d]
        PROVE  FALSE
    <3>1. d \in ToCreate(sync.list)
      BY <1>2, <2>1 DEF ToCreate
    <3> QED
      BY <1>3, <2>1, <3>1, OwnRequest
  <2>2. ASSUME sync.list[d] = 0, snapshot[d] # 0, d \notin sync.delete
        PROVE  FALSE
    <3>1. d \in ToDelete(sync.list)
      BY <1>2, <2>2 DEF ToDelete
    <3> QED
      BY <1>3, <2>2, <3>1, OwnRequest
  <2> QED
    BY <2>1, <2>2
<1>4. Running' = Running
  BY <1>1 DEF Running
<1>5. ASSUME Running, NEW p \in Paths
      PROVE  /\ p \in Files /\ sync.list[p] # 0 /\ sync.list[p] # snapshot[p]
                  /\ p \notin sync.create /\ p \in same
                  => remote'[<<at'[p], p>>] = Whole(sync.list[p])
             /\ p \in Dirs /\ sync.list[p] # 0 /\ snapshot[p] = 0
                  /\ p \notin sync.create => remote'[<<at'[p], p>>] # Absent
             /\ sync.list[p] = 0 /\ snapshot[p] # 0 /\ p \notin sync.delete
                  => remote'[<<at'[p], p>>] = Absent
  <2>1. CASE p # d
    BY <1>5, <2>1 DEF IInv, Done
  <2>2. CASE p = d
    BY <1>2, <1>3, <1>5, <2>2
  <2> QED
    BY <2>1, <2>2
<1>6. Done'
  BY <1>1, <1>4, <1>5 DEF Done
<1>7. SnapshotTrue'
  <2> SUFFICES ASSUME NEW p \in Files, snapshot[p] # 0, p \notin begun
               PROVE  remote'[<<at'[p], p>>] = Whole(snapshot[p])
    BY <1>1 DEF SnapshotTrue
  <2>1. p # d /\ p \in Paths
    BY <1>2 DEF Files
  <2> QED
    BY <2>1 DEF IInv, SnapshotTrue
<1> QED
  BY <1>6, <1>7

\* A file that is opened has a handle that was free.
LEMMA OpenFacts ==
    ASSUME OnOpenFile
    PROVE  \E ok \in BOOLEAN, h \in Handle \cup {NoHandle} :
             /\ Reply(ok, h)
             /\ ok => /\ h \in Handle
                      /\ remote' = [remote EXCEPT ![<<cwd, Head(req).path>>] = <<>>]
                      /\ handles' = [handles EXCEPT ![h] = <<cwd, Head(req).path>>]
             /\ ~ok => remote' = remote /\ handles' = handles
<1> DEFINE g == CHOOSE h \in FreeHandles : \A k \in FreeHandles : h <= k
<1>1. CASE HasParent(Head(req).path) /\ FreeHandles # {}
  <2>1. FreeHandles \in SUBSET Nat
    BY ConstantFacts DEF FreeHandles
  <2>2. \E x \in FreeHandles : \A k \in FreeHandles : x <= k
    BY <1>1, <2>1, LeastNumber
  <2>3. g \in FreeHandles
    BY <2>2
  <2>4. g \in Handle
    BY <2>3 DEF FreeHandles
  <2>5. /\ Reply(TRUE, g) /\ remote' = [remote EXCEPT ![<<cwd, Head(req).path>>] = <<>>]
        /\ handles' = [handles EXCEPT ![g] = <<cwd, Head(req).path>>]
    BY <1>1 DEF OnOpenFile, Here
  <2> QED
    BY <2>4, <2>5
<1>2. CASE ~(HasParent(Head(req).path) /\ FreeHandles # {})
  <2>1. Reply(FALSE, NoHandle) /\ remote' = remote /\ handles' = handles
    BY <1>2 DEF OnOpenFile, serverVars
  <2> QED
    BY <2>1
<1> QED
  BY <1>1, <1>2

\* CxFileServer::OnOpenFile keeps the invariant.
LEMMA OnOpenFileIInv ==
    ASSUME IInv, OnOpenFile
    PROVE  IInv'
<1>1. /\ req # <<>> /\ Head(req).op = "open" /\ faults' = faults
      /\ UNCHANGED <<userVars, clientVars>>
      /\ at' = [at EXCEPT ![Head(req).path] = cwd] /\ cwd' = cwd
      /\ local' = local /\ same' = same /\ snapshot' = snapshot /\ begun' = begun
      /\ sync' = sync /\ up' = up /\ call' = call
  BY DEF OnOpenFile, Arrived, Named, userVars, clientVars
<1>2. PICK ok \in BOOLEAN, h \in Handle \cup {NoHandle} :
        /\ Reply(ok, h)
        /\ ok => /\ h \in Handle
                 /\ remote' = [remote EXCEPT ![<<cwd, Head(req).path>>] = <<>>]
                 /\ handles' = [handles EXCEPT ![h] = <<cwd, Head(req).path>>]
        /\ ~ok => remote' = remote /\ handles' = handles
  BY OpenFacts
<1>3. /\ req' = Tail(req)
      /\ ans' # NoAnswer => Head(req).cb /\ ans' \in AnswerType /\ ans'.ok = ok /\ ans'.h = h
  BY <1>1, <1>2, ReplyFacts
<1>4. Head(req) = req[1] /\ 1 \in 1 .. Len(req) /\ ClientOK /\ ServerOK
  BY <1>1, <1>3, TailFacts DEF IInv
<1>5. PICK d \in Files : d = Head(req).path /\ d \in Paths
  BY <1>1, <1>4, ConstantFacts DEF IInv, ReqFits
<1>6. /\ \A p \in Paths : p # d => at'[p] = at[p] /\ remote'[<<at'[p], p>>] = remote[<<at[p], p>>]
      /\ ok => remote'[<<at'[d], d>>] = <<>> /\ handles'[h] = <<at'[d], d>>
      /\ remote' \in [Name -> Seq(Version)] /\ at' \in [Paths -> Dir]
      /\ handles' \in [Handle -> (Dir \X Files) \cup {Closed, Unlinked}]
  <2>1. <<>> \in Seq(Version)
    OBVIOUS
  <2>2. /\ at \in [Paths -> Dir] /\ cwd \in Dir /\ remote \in [Name -> Seq(Version)]
        /\ at' \in [Paths -> Dir] /\ at'[d] = cwd /\ \A p \in Paths : p # d => at'[p] = at[p]
    BY <1>1, <1>4, <1>5 DEF ServerOK
  <2>3. /\ <<cwd, d>> \in Name /\ <<cwd, d>> \in Dir \X Files
        /\ \A p \in Paths : <<at[p], p>> \in Name
    BY <1>5, <2>2 DEF Name
  <2>4. /\ ok => remote' = [remote EXCEPT ![<<cwd, d>>] = <<>>]
        /\ ~ok => remote' = remote
    BY <1>2, <1>5
  <2>5. \A p \in Paths : p # d => remote'[<<at[p], p>>] = remote[<<at[p], p>>]
    BY <2>2, <2>3, <2>4
  <2>6. (ok => remote'[<<cwd, d>>] = <<>>) /\ remote' \in [Name -> Seq(Version)]
    BY <2>1, <2>2, <2>3, <2>4
  <2>7. /\ handles' \in [Handle -> (Dir \X Files) \cup {Closed, Unlinked}]
        /\ ok => handles'[h] = <<cwd, d>>
    BY <1>2, <1>4, <1>5, <2>3 DEF ServerOK
  <2> QED
    BY <2>2, <2>5, <2>6, <2>7
<1>7. /\ ClientOK' /\ ServerOK' /\ VersionsFit' /\ SyncFit' /\ CallFits' /\ ReqFits'
      /\ WritesFirst' /\ Dirty' /\ Settled'
  BY <1>1, <1>3, <1>4, <1>6, QueueKept DEF ClientOK
<1>8. Done' /\ SnapshotTrue'
  BY <1>1, <1>3, <1>5, <1>6, FileServed
<1>9. Answered'
  BY <1>1, <1>3, TailFacts DEF Answered
<1>10. HandleFits' /\ Uploaded'
  <2>1. CASE ~Head(req).cb
    BY <1>1, <1>3, <2>1, UploadKept
  <2>2. CASE Head(req).cb
    <3>1. call = "open" /\ Target = d /\ req' = <<>> /\ up.step = "none" /\ up.handle = NoHandle
      BY <1>1, <1>3, <1>5, <2>2, TailFacts DEF IInv, CallFits
    <3>2. Target' = Target /\ Uploading' = Uploading
      BY <1>1 DEF Target, Uploading
    <3>3. HandleFits'
      BY <1>1, <1>2, <1>3, <1>6, <3>1, <3>2 DEF HandleFits
    <3>4. Uploaded'
      BY <1>1, <1>3, <1>6, <3>1, <3>2 DEF IInv, Uploaded
    <3> QED
      BY <3>3, <3>4
  <2> QED
    BY <2>1, <2>2
<1> QED
  BY <1>7, <1>8, <1>9, <1>10 DEF IInv

\* A chunk goes to the end of what there is, or over what there is.
LEMMA WrittenFacts ==
    ASSUME NEW s \in Seq(Version), NEW off \in Nat, off <= Len(s), NEW v \in Version
    PROVE  /\ Written(s, off, v) \in Seq(Version)
           /\ s = Filled(off, v) => Written(s, off, v) = Filled(off + 1, v)
<1> DEFINE n == IF off = Len(s) THEN off + 1 ELSE Len(s)
<1>1. Len(s) \in Nat /\ n \in Nat /\ \A i \in 1 .. Len(s) : s[i] \in Version
  OBVIOUS
<1>2. \A i \in 1 .. n : i = off + 1 \/ i \in 1 .. Len(s)
  BY <1>1
<1>3. \A i \in 1 .. n : (IF i = off + 1 THEN v ELSE s[i]) \in Version
  BY <1>1, <1>2
<1>4. Written(s, off, v) \in Seq(Version)
  BY <1>1, <1>3, IsASeq DEF Written
<1>5. ASSUME s = Filled(off, v)
      PROVE  Written(s, off, v) = Filled(off + 1, v)
  <2>1. Len(s) = off /\ \A i \in 1 .. off : s[i] = v
    BY <1>5, IsASeq DEF Filled
  <2>2. n = off + 1 /\ \A i \in 1 .. off + 1 : (IF i = off + 1 THEN v ELSE s[i]) = v
    BY <2>1
  <2> QED
    BY <2>2 DEF Filled, Written
<1> QED
  BY <1>4, <1>5

\* CxFileServer::OnWriteFile keeps the invariant.
LEMMA OnWriteFileIInv ==
    ASSUME IInv, OnWriteFile
    PROVE  IInv'
<1> DEFINE r == Head(req)
<1>1. /\ req # <<>> /\ r.op = "write" /\ faults' = faults /\ handles' = handles
      /\ at' = at /\ cwd' = cwd
      /\ UNCHANGED <<userVars, clientVars>>
      /\ local' = local /\ same' = same /\ snapshot' = snapshot /\ begun' = begun
      /\ sync' = sync /\ up' = up /\ call' = call
  BY DEF OnWriteFile, Arrived, userVars, clientVars
<1>2. \E ok \in BOOLEAN : Reply(ok, NoHandle)
  BY DEF OnWriteFile
<1>3. /\ req' = Tail(req)
      /\ ans' # NoAnswer => Head(req).cb /\ ans' \in AnswerType
  BY <1>1, <1>2, ReplyFacts DEF NoHandle
<1>4. r = req[1] /\ r \in RequestType /\ 1 \in 1 .. Len(req) /\ ClientOK /\ ServerOK
  BY <1>1, <1>3, TailFacts DEF IInv
<1>5. PICK d \in Files : d = r.path /\ d \in Paths
  BY <1>1, <1>4, ConstantFacts DEF IInv, ReqFits
<1>6. r.h \in Handle /\ handles[r.h] \in {<<at[d], d>>, Closed}
  BY <1>1, <1>4, <1>5 DEF IInv, WritesFirst
<1>7. /\ <<at[d], d>> \in Name /\ <<at[d], d>> # Unlinked /\ <<at[d], d>> # Closed
      /\ \A p \in Paths : <<at[p], p>> \in Name
  BY <1>4, <1>5, ConstantFacts DEF Name, ServerOK
<1>7a. /\ r.off \in Nat /\ r.data \in Version
       /\ remote[<<at[d], d>>] \in Seq(Version) /\ Len(remote[<<at[d], d>>]) \in Nat
  BY <1>4, <1>7 DEF RequestType, ServerOK
<1> HIDE DEF r
<1>8. \/ Reply(FALSE, NoHandle) /\ remote' = remote
      \/ /\ Reply(TRUE, NoHandle) /\ r.off <= Len(remote[<<at[d], d>>])
         /\ remote' = [remote EXCEPT ![<<at[d], d>>] = Written(@, r.off, r.data)]
  <2>1. CASE ~IsOpen(r.h)
    BY <2>1 DEF OnWriteFile, r
  <2>2. CASE IsOpen(r.h)
    <3>1. handles[r.h] = <<at[d], d>>
      BY <1>6, <2>2 DEF IsOpen
    <3>2. CASE r.off > Len(remote[<<at[d], d>>])
      BY <1>7, <2>2, <3>1, <3>2 DEF OnWriteFile, r
    <3>3. CASE ~(r.off > Len(remote[<<at[d], d>>]))
      <4>1. r.off <= Len(remote[<<at[d], d>>])
        BY <1>7a, <3>3
      <4> QED
        BY <1>7, <2>2, <3>1, <3>3, <4>1 DEF OnWriteFile, r
    <3> QED
      BY <3>2, <3>3
  <2> QED
    BY <2>1, <2>2
<1>9. /\ \A p \in Paths : p # d => remote'[<<at'[p], p>>] = remote[<<at[p], p>>]
      /\ remote' \in [Name -> Seq(Version)]
      /\ ans' # NoAnswer /\ ans'.ok /\ remote[<<at[d], d>>] = Filled(r.off, r.data) =>
           remote'[<<at'[d], d>>] = Filled(r.off + 1, r.data)
  <2>1. CASE Reply(FALSE, NoHandle) /\ remote' = remote
    <3>1. ans' # NoAnswer => ans'.ok = FALSE
      BY <1>1, <2>1, ReplyFacts DEF NoHandle
    <3> QED
      BY <1>1, <1>4, <2>1, <3>1 DEF ServerOK
  <2>2. CASE /\ r.off <= Len(remote[<<at[d], d>>])
             /\ remote' = [remote EXCEPT ![<<at[d], d>>] = Written(@, r.off, r.data)]
    <3>1. /\ Written(remote[<<at[d], d>>], r.off, r.data) \in Seq(Version)
          /\ remote[<<at[d], d>>] = Filled(r.off, r.data) =>
               Written(remote[<<at[d], d>>], r.off, r.data) = Filled(r.off + 1, r.data)
      BY <1>7a, <2>2, WrittenFacts
    <3> QED
      BY <1>1, <1>4, <1>5, <1>7, <2>2, <3>1 DEF ServerOK
  <2> QED
    BY <1>8, <2>1, <2>2
<1>10. /\ ClientOK' /\ ServerOK' /\ VersionsFit' /\ SyncFit' /\ CallFits' /\ ReqFits'
       /\ WritesFirst' /\ Dirty' /\ Settled'
  BY <1>1, <1>3, <1>4, <1>9, QueueKept DEF ClientOK, ServerOK
<1>11. Done' /\ SnapshotTrue'
  BY <1>1, <1>3, <1>5, <1>9, FileServed DEF r
<1>12. Answered'
  BY <1>1, <1>3, TailFacts DEF Answered, r
<1>13. HandleFits' /\ Uploaded'
  <2>1. CASE ~r.cb
    BY <1>1, <1>3, <2>1, UploadKept DEF r
  <2>2. CASE r.cb
    <3>1. /\ call = "write" /\ Target = d /\ req' = <<>> /\ Len(req') = 0 /\ up.step = "none"
      BY <1>1, <1>3, <1>5, <2>2, TailFacts DEF IInv, CallFits, r
    <3>2. up.handle # NoHandle /\ r.h = up.handle /\ r.off = up.off
      BY <1>4, <2>2, <3>1 DEF IInv, CallFits, ReqFits
    <3>3. Target' = Target /\ Uploading' = Uploading
      BY <1>1 DEF Target, Uploading
    <3>4. HandleFits'
      BY <1>1, <3>1, <3>2, <3>3 DEF IInv, HandleFits
    <3>5. Uploaded'
      <4> SUFFICES ASSUME Uploading, Target \in same
                   PROVE  /\ up.src # 0 => up.src = sync.list[Target] /\ up.size = Sizes[up.src]
                          /\ up.off < Sizes[up.src]
                          /\ ans' # NoAnswer /\ ans'.ok => remote'[<<at'[d], d>>] = Filled(up.off + 1, up.src)
        BY <1>1, <3>1, <3>3 DEF Uploaded
      <4>1. /\ up.src # 0 => up.src = sync.list[Target] /\ up.size = Sizes[up.src]
            /\ up.off < Sizes[up.src]
            /\ remote[<<at[d], d>>] = Filled(up.off, up.src) /\ r.data = up.src
        BY <1>1, <1>4, <3>1 DEF IInv, Uploaded
      <4> QED
        BY <1>9, <3>2, <4>1
    <3> QED
      BY <3>4, <3>5
  <2> QED
    BY <2>1, <2>2
<1> QED
  BY <1>10, <1>11, <1>12, <1>13 DEF IInv

\* CxFileServer::OnCloseFile keeps the invariant.
LEMMA OnCloseFileIInv ==
    ASSUME IInv, OnCloseFile
    PROVE  IInv'
<1>1. /\ req # <<>> /\ Head(req).op = "close" /\ faults' = faults /\ remote' = remote
      /\ at' = at /\ cwd' = cwd
      /\ UNCHANGED <<userVars, clientVars>> /\ Reply(TRUE, NoHandle)
      /\ local' = local /\ same' = same /\ snapshot' = snapshot /\ begun' = begun
      /\ sync' = sync /\ up' = up /\ call' = call
      /\ handles' = IF IsOpen(Head(req).h) THEN [handles EXCEPT ![Head(req).h] = Closed] ELSE handles
  BY DEF OnCloseFile, Arrived, userVars, clientVars
<1>2. /\ req' = Tail(req)
      /\ ans' # NoAnswer => Head(req).cb /\ ans' \in AnswerType
  BY <1>1, ReplyFacts DEF NoHandle
<1>3. ClientOK /\ ServerOK
  BY DEF IInv
<1>4. handles' \in [Handle -> (Dir \X Files) \cup {Closed, Unlinked}]
  BY <1>1, <1>3 DEF ServerOK
<1>5. /\ ClientOK' /\ ServerOK' /\ VersionsFit' /\ SyncFit' /\ CallFits' /\ ReqFits'
      /\ WritesFirst' /\ Dirty' /\ Settled'
  BY <1>1, <1>2, <1>3, <1>4, QueueKept DEF ClientOK, ServerOK
<1>6. HandleFits' /\ Uploaded'
  BY <1>1, <1>2, UploadKept
<1>7. Running' = Running
  BY <1>1 DEF Running
<1>8. Done' /\ SnapshotTrue'
  BY <1>1, <1>7 DEF IInv, Done, SnapshotTrue
<1>9. ans' # NoAnswer => call = "close"
  BY <1>1, <1>2, TailFacts
<1>10. Answered'
  BY <1>1, <1>9 DEF Answered
<1> QED
  BY <1>5, <1>6, <1>8, <1>10 DEF IInv

\* CxFileServer::OnChangeCurrentDirectory keeps the invariant: what has a place
\* keeps it.
LEMMA OnChangeCurrentDirectoryIInv ==
    ASSUME IInv, OnChangeCurrentDirectory
    PROVE  IInv'
<1>1. /\ req # <<>> /\ Head(req).op = "cd" /\ faults' = faults /\ remote' = remote
      /\ at' = at /\ cwd' = Folder /\ handles' = handles
      /\ UNCHANGED <<userVars, clientVars>>
      /\ local' = local /\ same' = same /\ snapshot' = snapshot /\ begun' = begun
      /\ sync' = sync
      /\ up' = up /\ call' = call
  BY DEF OnChangeCurrentDirectory, Arrived, userVars, clientVars
<1>2. Reply(TRUE, NoHandle) \/ Reply(FALSE, NoHandle)
  BY Zenon DEF OnChangeCurrentDirectory, Reply
<1>3. /\ req' = Tail(req)
      /\ ans' # NoAnswer => Head(req).cb /\ ans' \in AnswerType
  BY <1>1, <1>2, ReplyFacts DEF NoHandle
<1>4. ClientOK /\ ServerOK /\ Folder \in Dir
  BY DEF IInv, Dir
<1>5. /\ ClientOK' /\ ServerOK' /\ VersionsFit' /\ SyncFit' /\ CallFits' /\ ReqFits'
      /\ WritesFirst' /\ Dirty' /\ Settled'
  BY <1>1, <1>3, <1>4, QueueKept DEF ClientOK, ServerOK
<1>6. HandleFits' /\ Uploaded'
  BY <1>1, <1>3, UploadKept
<1>7. Running' = Running
  BY <1>1 DEF Running
<1>8. Done' /\ SnapshotTrue'
  BY <1>1, <1>7 DEF IInv, Done, SnapshotTrue
<1>9. ans' # NoAnswer => call = "cd"
  BY <1>1, <1>3, TailFacts
<1>10. Answered'
  BY <1>1, <1>9 DEF Answered
<1> QED
  BY <1>5, <1>6, <1>8, <1>10 DEF IInv

\* Every handler of the server keeps the invariant.
LEMMA ServeIInv ==
    ASSUME IInv, Serve
    PROVE  IInv'
BY OnCreateFolderIInv, OnOpenFileIInv, OnWriteFileIInv, OnCloseFileIInv,
   OnDeleteFolderIInv, OnDeleteFileIInv, OnChangeCurrentDirectoryIInv DEF Serve

\* The session goes, or the server's process does.
LEMMA HandlesGoneIInv ==
    ASSUME IInv, handles' = [h \in Handle |-> Closed], faults' \in 0 .. MaxFaults,
           cwd' \in Dir, UNCHANGED <<userVars, clientVars, req, ans, remote, at>>
    PROVE  IInv'
<1>1. /\ local' = local /\ edits' = edits /\ same' = same /\ snapshot' = snapshot
      /\ sync' = sync /\ up' = up /\ call' = call /\ syncs' = syncs
      /\ req' = req /\ ans' = ans /\ remote' = remote
      /\ at' = at /\ begun' = begun
  BY DEF userVars, clientVars
<1>2. Running' = Running /\ Target' = Target /\ Uploading' = Uploading
      /\ ToCreate(sync.list)' = ToCreate(sync.list)
      /\ ToDelete(sync.list)' = ToDelete(sync.list)
  BY <1>1 DEF Running, Target, Uploading, ToCreate, ToDelete
<1>3. ClientOK' /\ ServerOK' /\ VersionsFit' /\ SyncFit' /\ CallFits' /\ ReqFits'
  BY <1>1, <1>2 DEF IInv, ClientOK, ServerOK, VersionsFit, SyncFit, CallFits, ReqFits
<1>4. WritesFirst'
  BY <1>1 DEF IInv, WritesFirst
<1>5. HandleFits'
  <2>1. up.handle \in Handle \cup {NoHandle}
    BY DEF IInv, ClientOK, UpType
  <2>2. up.handle # NoHandle => handles'[up.handle] = Closed
    BY <2>1
  <2>3. \A h \in Handle : handles'[h] = Closed
    OBVIOUS
  <2> QED
    BY <1>1, <1>2, <2>2, <2>3 DEF IInv, HandleFits
<1>6. Dirty' /\ Settled' /\ Done' /\ Answered' /\ Uploaded' /\ SnapshotTrue'
  <2>1. Dirty' /\ Done' /\ SnapshotTrue'
    <3>1. Changed(sync.list)' = Changed(sync.list)
      BY <1>2 DEF Changed
    <3> QED
      BY <1>1, <1>2, <3>1 DEF IInv, Dirty, Done, SnapshotTrue
  <2>2. Answered' /\ Uploaded'
    BY <1>1, <1>2 DEF IInv, Answered, Uploaded
  <2>3. Settled'
    <3>1. /\ sync'.create = sync.create /\ sync'.delete = sync.delete
      BY <1>1
    <3>2. ASSUME Running', \/ sync'.create # ToCreate(sync.list)'
                           \/ sync'.delete # ToDelete(sync.list)'
          PROVE  \A i \in 1 .. Len(req) : req[i].op \in {"close", "cd"} \/ req[i].cb
      BY <1>1, <1>2, <3>1, <3>2 DEF IInv, Settled
    <3> QED
      BY <1>1, <3>2 DEF Settled
  <2> QED
    BY <2>1, <2>2, <2>3
<1> QED
  BY <1>3, <1>4, <1>5, <1>6 DEF IInv

\* A session that expires keeps the invariant.
LEMMA OnAutoClearSessionIInv ==
    ASSUME IInv, OnAutoClearSession
    PROVE  IInv'
<1>1. faults' \in 0 .. MaxFaults
  BY BoundsAssumption DEF IInv, ClientOK, OnAutoClearSession
<1>2. Top \in Dir
  BY DEF Dir
<1> QED
  BY <1>1, <1>2, HandlesGoneIInv DEF OnAutoClearSession, NewSession

\* A request that is lost keeps the invariant.
LEMMA LoseRequestIInv ==
    ASSUME IInv, LoseRequest
    PROVE  IInv'
<1>1. /\ req # <<>> /\ req' = Tail(req) /\ UNCHANGED <<userVars, clientVars>>
      /\ ans' = ans /\ remote' = remote /\ handles' = handles
      /\ cwd' = cwd /\ at' = at
      /\ local' = local /\ same' = same /\ snapshot' = snapshot /\ begun' = begun
      /\ sync' = sync /\ up' = up /\ call' = call
  BY DEF LoseRequest, userVars, clientVars, serverVars
<1>2. ans' = NoAnswer
  BY <1>1, TailFacts
<1>3. faults' \in 0 .. MaxFaults
  BY BoundsAssumption DEF IInv, ClientOK, LoseRequest, Fault
<1>4. /\ ClientOK' /\ ServerOK' /\ VersionsFit' /\ SyncFit' /\ CallFits' /\ ReqFits'
      /\ WritesFirst' /\ Dirty' /\ Settled'
  BY <1>1, <1>2, <1>3, QueueKept DEF IInv, ServerOK
<1>5. Running' = Running /\ Target' = Target /\ Uploading' = Uploading
  BY <1>1 DEF Running, Target, Uploading
<1>6. Done' /\ SnapshotTrue'
  BY <1>1, <1>5 DEF IInv, Done, SnapshotTrue
<1>7. Answered'
  BY <1>2 DEF Answered
<1>8. up.step # "write"
  BY <1>1 DEF IInv, HandleFits
<1>9. up.handle # NoHandle => req' = <<>>
  <2>1. Head(req) = req[1] /\ 1 \in 1 .. Len(req)
    BY <1>1, TailFacts
  <2>2. up.handle # NoHandle => Head(req).cb
    BY <2>1 DEF IInv, HandleFits
  <2> QED
    BY <1>1, <2>2, TailFacts
<1>10. HandleFits'
  <2>1. Len(<<>>) = 0
    OBVIOUS
  <2> QED
    BY <1>1, <1>2, <1>5, <1>8, <1>9, <2>1 DEF IInv, HandleFits
<1>11. Uploaded'
  <2>1. call = "write" => req' = <<>>
    BY <1>9 DEF IInv, CallFits
  <2> QED
    BY <1>1, <1>2, <1>5, <1>8, <2>1 DEF IInv, Uploaded
<1> QED
  BY <1>4, <1>6, <1>7, <1>10, <1>11 DEF IInv

\* An answer that is lost keeps the invariant.
LEMMA LoseAnswerIInv ==
    ASSUME IInv, LoseAnswer
    PROVE  IInv'
<1>1. /\ ans # NoAnswer /\ ans' = NoAnswer /\ req' = req /\ remote' = remote /\ handles' = handles
      /\ cwd' = cwd /\ at' = at /\ local' = local /\ edits' = edits /\ same' = same /\ snapshot' = snapshot
      /\ sync' = sync /\ up' = up /\ call' = call /\ syncs' = syncs
      /\ begun' = begun
  BY DEF LoseAnswer, userVars, clientVars, serverVars
<1>2. req = <<>> /\ Len(req) = 0
  BY <1>1 DEF IInv, ReqFits
<1>3. faults' \in 0 .. MaxFaults
  BY BoundsAssumption DEF IInv, ClientOK, LoseAnswer, Fault
<1>4. Running' = Running /\ Target' = Target /\ Uploading' = Uploading
      /\ ToCreate(sync.list)' = ToCreate(sync.list)
      /\ ToDelete(sync.list)' = ToDelete(sync.list)
  BY <1>1 DEF Running, Target, Uploading, ToCreate, ToDelete
<1>5. ClientOK' /\ ServerOK' /\ VersionsFit' /\ SyncFit' /\ CallFits'
  BY <1>1, <1>3, <1>4 DEF IInv, ClientOK, ServerOK, VersionsFit, SyncFit, CallFits
<1>6. ReqFits' /\ WritesFirst' /\ Settled' /\ Answered'
  BY <1>1, <1>2 DEF ReqFits, WritesFirst, Settled, Answered
<1>7. HandleFits' /\ Dirty' /\ Done' /\ SnapshotTrue'
  <2>1. Changed(sync.list)' = Changed(sync.list)
    BY <1>4 DEF Changed
  <2> QED
    BY <1>1, <1>2, <1>4, <2>1 DEF IInv, HandleFits, Dirty, Done, SnapshotTrue
<1>8. Uploaded'
  BY <1>1, <1>2, <1>4 DEF IInv, Uploaded
<1> QED
  BY <1>5, <1>6, <1>7, <1>8 DEF IInv

\* A client that crashes keeps the invariant, with the snapshot cut off or not.
LEMMA ClientCrashIInv ==
    ASSUME IInv, ClientCrash
    PROVE  IInv'
<1>1. /\ sync' = StopSync("crash") /\ up' = NoUpload /\ call' = NoCall /\ ans' = NoAnswer
      /\ snapshot' = snapshot \/ snapshot' = [p \in Paths |-> 0]
      /\ UNCHANGED userVars /\ UNCHANGED serverVars /\ syncs' = syncs
      /\ begun' = begun
  BY DEF ClientCrash
<1>2. faults' \in 0 .. MaxFaults /\ "crash" \in Results
  BY BoundsAssumption DEF IInv, ClientOK, ClientCrash, Fault, Results
<1>3. PICK n \in 0 .. Len(req) : req' = Forget(SubSeq(req, 1, n))
  BY DEF ClientCrash
<1>4. PICK q : q = SubSeq(req, 1, n)
  OBVIOUS
<1>5. req \in Seq(RequestType)
  BY DEF IInv, ServerOK
<1>6. q \in Seq(RequestType) /\ Len(q) = n /\ \A k \in 1 .. n : q[k] = req[k]
  BY <1>4, <1>5, PrefixFacts
<1>7. req' = Forget(q)
  BY <1>3, <1>4
<1>8. /\ req' \in Seq(RequestType) /\ Len(req') = n
      /\ \A i \in 1 .. n :
           /\ ~req'[i].cb /\ req'[i].op = q[i].op
           /\ req'[i].path = q[i].path /\ req'[i].h = q[i].h
  BY <1>6, <1>7, ForgetFacts
<1>9. \A i \in 1 .. n : i \in 1 .. Len(req)
  BY <1>3, <1>5
<1>10. \A i \in 1 .. Len(req') :
         /\ ~req'[i].cb
         /\ \/ req'[i].op = "close"
            \/ /\ i \in 1 .. Len(req) /\ req'[i].op = req[i].op
               /\ req'[i].path = req[i].path /\ req'[i].h = req[i].h
  BY <1>6, <1>8, <1>9
<1> QED
  BY <1>1, <1>2, <1>8, <1>10, EndedIInv

\* Every fault keeps the invariant.
LEMMA FaultsIInv ==
    ASSUME IInv, Faults
    PROVE  IInv'
<1>1. CASE ServerRestart
  <2>1. faults' \in 0 .. MaxFaults
    BY <1>1, BoundsAssumption DEF IInv, ClientOK, ServerRestart, Fault
  <2>2. Top \in Dir
    BY DEF Dir
  <2> QED
    BY <1>1, <2>1, <2>2, HandlesGoneIInv DEF ServerRestart, NewSession
<1> QED
  BY <1>1, LoseRequestIInv, LoseAnswerIInv, ClientCrashIInv DEF Faults

-----------------------------------------------------------------------------
(* The user.                                                               *)

\* A sync that starts keeps the invariant: its lists are what its listing asks for.
LEMMA StartIInv ==
    ASSUME IInv, Start
    PROVE  IInv'
<1>1. /\ ~Running /\ syncs < MaxSyncs /\ syncs' = syncs + 1 /\ same' = Paths
      /\ sync' = [step |-> "check_create", list |-> local, result |-> "unset",
                  create |-> ToCreate(local), delete |-> ToDelete(local)]
      /\ local' = local /\ edits' = edits /\ snapshot' = snapshot /\ up' = up /\ call' = call
      /\ req' = req /\ ans' = ans /\ remote' = remote /\ handles' = handles /\ faults' = faults
      /\ cwd' = cwd /\ at' = at /\ begun' = begun \cup Changed(local)
  BY DEF Start, serverVars
<1>2. /\ call = NoCall /\ ~Uploading /\ ans = NoAnswer /\ ClientOK /\ ServerOK
      /\ sync.step = "idle" /\ up.handle = NoHandle /\ up.step = "idle"
  BY <1>1 DEF IInv, CallFits, ReqFits, Running, Uploading
<1>3. /\ sync'.step = "check_create" /\ sync'.list = local /\ sync'.result = "unset"
      /\ sync'.create = ToCreate(local) /\ sync'.delete = ToDelete(local)
      /\ Running' /\ ~Uploading'
  BY <1>1, <1>2 DEF Running, Uploading
<1>4. /\ ToCreate(sync.list)' = ToCreate(local) /\ ToDelete(sync.list)' = ToDelete(local)
  BY <1>1, <1>3 DEF ToCreate, ToDelete
<1>5. ClientOK' /\ ServerOK'
  <2>1. sync' \in SyncType
    <3>1. ToCreate(local) \in SUBSET Paths /\ ToDelete(local) \in SUBSET Paths
      BY DEF ToCreate, ToDelete
    <3>2. "check_create" \in SyncSteps /\ "unset" \in Results /\ local \in [Paths -> Version]
      BY <1>2 DEF SyncSteps, Results, ClientOK
    <3> QED
      BY <1>1, <3>1, <3>2 DEF SyncType
  <2>2. syncs' \in 0 .. MaxSyncs
    BY <1>1, <1>2, BoundsAssumption DEF ClientOK
  <2>3. begun' \subseteq Paths
    BY <1>1, <1>2 DEF ClientOK, Changed, ToCreate, ToDelete
  <2> QED
    BY <1>1, <1>2, <2>1, <2>2, <2>3 DEF ClientOK, ServerOK
<1>6. VersionsFit'
  BY <1>1, <1>3 DEF IInv, VersionsFit
<1>7. SyncFit'
  BY <1>3, <1>4 DEF SyncFit
<1>8. CallFits'
  BY <1>1, <1>2, <1>3 DEF IInv, CallFits, NoCall, Uploading
<1>9. \A i \in 1 .. Len(req) : ~req[i].cb
  <2>1. \A i \in 1 .. Len(req) : req[i] \in RequestType
    BY <1>2 DEF ServerOK
  <2>2. \A i \in 1 .. Len(req) : req[i].op \in Ops
    BY <2>1 DEF RequestType
  <2> QED
    BY <1>2, <2>2 DEF IInv, ReqFits, NoCall, Ops
<1>10. ReqFits' /\ WritesFirst'
  BY <1>1, <1>2, <1>9 DEF IInv, ReqFits, WritesFirst
<1>11. HandleFits' /\ Answered' /\ Uploaded'
  BY <1>1, <1>2, <1>3 DEF HandleFits, Answered, Uploaded
<1>12. Dirty'
  <2>1. Changed(sync.list)' = Changed(local)
    BY <1>4 DEF Changed
  <2> QED
    BY <1>1, <1>3, <2>1 DEF IInv, Dirty
<1>13. Settled'
  BY <1>3, <1>4 DEF Settled
<1>14. Done'
  <2> SUFFICES ASSUME NEW p \in Paths
               PROVE  /\ ~(p \in Files /\ local[p] # 0 /\ local[p] # snapshot[p]
                             /\ p \notin ToCreate(local))
                      /\ ~(p \in Dirs /\ local[p] # 0 /\ snapshot[p] = 0 /\ p \notin ToCreate(local))
                      /\ ~(local[p] = 0 /\ snapshot[p] # 0 /\ p \notin ToDelete(local))
    BY <1>1, <1>3 DEF Done
  <2> QED
    BY DEF ToCreate, ToDelete
<1>15. SnapshotTrue'
  BY <1>1 DEF IInv, SnapshotTrue
<1> QED
  BY <1>5, <1>6, <1>7, <1>8, <1>10, <1>11, <1>12, <1>13, <1>14, <1>15 DEF IInv

\* A snapshot that is deleted keeps the invariant: it promises nothing.
LEMMA ResetLocalFolderIInv ==
    ASSUME IInv, ResetLocalFolder
    PROVE  IInv'
<1>1. /\ ~Running /\ snapshot' = [p \in Paths |-> 0]
      /\ local' = local /\ edits' = edits /\ same' = same /\ sync' = sync /\ up' = up
      /\ call' = call /\ syncs' = syncs /\ req' = req /\ ans' = ans /\ remote' = remote
      /\ handles' = handles /\ faults' = faults
      /\ cwd' = cwd /\ at' = at /\ begun' = begun
  BY DEF ResetLocalFolder, serverVars, userVars
<1>2. ~Running' /\ sync.step = "idle" /\ Target' = Target /\ Uploading' = Uploading
  BY <1>1 DEF Running, Target, Uploading
<1>3. ClientOK' /\ ServerOK'
  <2>1. snapshot' \in [Paths -> Version]
    BY <1>1, ConstantFacts
  <2> QED
    BY <1>1, <2>1 DEF IInv, ClientOK, ServerOK
<1>4. VersionsFit'
  <2>1. edits \in Nat
    BY ConstantFacts DEF IInv, ClientOK
  <2> QED
    BY <1>1, <1>2, <2>1 DEF IInv, VersionsFit
<1>5. SyncFit' /\ CallFits' /\ ReqFits' /\ WritesFirst' /\ HandleFits'
  BY <1>1, <1>2 DEF IInv, SyncFit, CallFits, ReqFits, WritesFirst, HandleFits
<1>7. Dirty' /\ SnapshotTrue'
  <2>1. \A p \in Files : snapshot'[p] = 0
    BY <1>1, ConstantFacts
  <2> QED
    BY <1>1, <1>2, <2>1 DEF IInv, Dirty, SnapshotTrue
<1>8. Settled' /\ Done' /\ Answered' /\ Uploaded'
  <2>1. ~Uploading
    BY <1>2 DEF IInv, CallFits
  <2>2. ans = NoAnswer
    BY <1>2 DEF IInv, CallFits, ReqFits
  <2> QED
    BY <1>1, <1>2, <2>1, <2>2 DEF Settled, Done, Answered, Uploaded
<1> QED
  BY <1>3, <1>4, <1>5, <1>7, <1>8 DEF IInv

\* An edit has a number of its own.
LEMMA NextEdit ==
    ASSUME ClientOK, edits < MaxEdits
    PROVE  edits \in Nat /\ MaxEdits \in Nat /\ edits + 1 \in Version /\ edits + 1 # 0
<1>1. edits \in Version /\ Version \subseteq Nat /\ MaxEdits \in Nat
  BY ConstantFacts DEF ClientOK
<1>2. edits \in Nat
  BY <1>1
<1>3. edits + 1 \in 0 .. MaxEdits /\ edits + 1 # 0
  BY <1>1, <1>2
<1> QED
  BY <1>1, <1>2, <1>3 DEF Version

\* The user changes a path; what an upload has open may change with it.
LEMMA EditIInv ==
    ASSUME IInv, NEW p \in Paths, NEW v \in Version, v <= edits + 1,
           edits < MaxEdits, edits' = edits + 1, local' = [local EXCEPT ![p] = v],
           same' = same \ {p},
           \/ up' = up
           \/ up.src # 0 /\ p = Target /\ v # 0 /\ up' = [up EXCEPT !.src = v],
           UNCHANGED <<snapshot, sync, call, begun, syncs, req, ans, serverVars, faults>>
    PROVE  IInv'
<1>1. /\ snapshot' = snapshot /\ sync' = sync /\ call' = call /\ syncs' = syncs
      /\ req' = req /\ ans' = ans /\ remote' = remote /\ handles' = handles /\ faults' = faults
      /\ cwd' = cwd /\ at' = at /\ begun' = begun /\ ClientOK /\ ServerOK
  BY DEF serverVars, IInv
<1>2. edits \in Nat /\ MaxEdits \in Nat /\ edits + 1 \in Version /\ edits + 1 # 0
  BY <1>1, NextEdit
<1>3. /\ local' \in [Paths -> Version] /\ local'[p] = v
      /\ \A q \in Paths : q # p => local'[q] = local[q]
  BY <1>1 DEF ClientOK
<1>4. /\ up' \in UpType /\ up'.step = up.step /\ up'.handle = up.handle /\ up'.off = up.off
      /\ up'.src = 0 <=> up.src = 0
      /\ up'.size = up.size
      /\ up' = up \/ p = Target
  BY <1>1 DEF ClientOK, UpType
<1>5. /\ Running' = Running /\ Target' = Target /\ Uploading' = Uploading
      /\ ToCreate(sync.list)' = ToCreate(sync.list)
      /\ ToDelete(sync.list)' = ToDelete(sync.list)
      /\ Changed(sync.list)' = Changed(sync.list)
  BY <1>1, <1>4 DEF Running, Target, Uploading, ToCreate, ToDelete, Changed
<1>6. \A q \in Paths : /\ local[q] \in Nat /\ snapshot[q] \in Nat /\ sync.list[q] \in Nat
                       /\ local[q] <= edits /\ snapshot[q] <= edits
                       /\ Running => sync.list[q] <= edits
  BY <1>1, ConstantFacts DEF IInv, ClientOK, SyncType, VersionsFit
<1>7. ClientOK' /\ ServerOK'
  BY <1>1, <1>2, <1>3, <1>4 DEF ClientOK, ServerOK
<1>8. VersionsFit'
  <2>1. \A q \in Paths : local'[q] <= edits + 1
    BY <1>2, <1>3, <1>6
  <2>2. \A q \in Paths : snapshot[q] <= edits + 1 /\ (Running => sync.list[q] <= edits + 1)
    BY <1>2, <1>6
  <2>3. Running => \A q \in same \ {p} : local'[q] = sync.list[q]
    BY <1>1, <1>3 DEF IInv, VersionsFit, ClientOK
  <2> QED
    BY <1>1, <1>5, <2>1, <2>2, <2>3 DEF IInv, VersionsFit
<1>9. SyncFit'
  BY <1>1, <1>5 DEF IInv, SyncFit
<1>10. CallFits'
  BY <1>1, <1>4, <1>5 DEF IInv, CallFits, Uploading
<1>11. ReqFits' /\ WritesFirst' /\ HandleFits' /\ Answered'
  BY <1>1, <1>4, <1>5 DEF IInv, ReqFits, WritesFirst, HandleFits, Answered
<1>12. Dirty' /\ SnapshotTrue'
  BY <1>1, <1>5 DEF IInv, Dirty, SnapshotTrue
<1>13. Settled'
  <2>1. /\ sync'.create = sync.create /\ sync'.delete = sync.delete
    BY <1>1
  <2>2. ASSUME Running', \/ sync'.create # ToCreate(sync.list)'
                         \/ sync'.delete # ToDelete(sync.list)'
        PROVE  \A i \in 1 .. Len(req) : req[i].op \in {"close", "cd"} \/ req[i].cb
    BY <1>1, <1>5, <2>1, <2>2 DEF IInv, Settled
  <2> QED
    BY <1>1, <2>2 DEF Settled
<1>14. Done'
  BY <1>1, <1>5 DEF IInv, Done
<1>15. Uploaded'
  <2>1. Target \in same \ {p} => up' = up /\ Target \in same
    BY <1>4
  <2> QED
    BY <1>1, <1>5, <2>1 DEF IInv, Uploaded
<1> QED
  BY <1>7, <1>8, <1>9, <1>10, <1>11, <1>12, <1>13, <1>14, <1>15 DEF IInv

\* The application changes the directory before a sync: nothing it promises is
\* of the session.
LEMMA ChangeDirectoryIInv ==
    ASSUME IInv, ChangeDirectory
    PROVE  IInv'
<1>1. /\ ~Running /\ req' = Append(req, Request("cd", Root, NoHandle, 0, 0, FALSE))
      /\ local' = local /\ edits' = edits /\ same' = same /\ snapshot' = snapshot
      /\ sync' = sync /\ up' = up /\ call' = call /\ begun' = begun /\ syncs' = syncs
      /\ ans' = ans /\ remote' = remote /\ handles' = handles /\ cwd' = cwd /\ at' = at
      /\ faults' = faults
  BY DEF ChangeDirectory, userVars, clientVars, serverVars
<1>2. /\ call = NoCall /\ ~Uploading /\ ans = NoAnswer /\ ClientOK /\ ServerOK
      /\ up.handle = NoHandle /\ up.step = "idle"
  BY <1>1 DEF IInv, CallFits, ReqFits, Running, Uploading
<1>3. PICK r \in RequestType :
        req' = Append(req, r) /\ r.op = "cd" /\ ~r.cb
  <2>1. /\ Request("cd", Root, NoHandle, 0, 0, FALSE) \in RequestType
        /\ Request("cd", Root, NoHandle, 0, 0, FALSE).op = "cd"
        /\ ~Request("cd", Root, NoHandle, 0, 0, FALSE).cb
    BY ConstantFacts DEF Request, RequestType, Ops
  <2> QED
    BY <1>1, <2>1
<1>4. /\ req' \in Seq(RequestType) /\ Len(req) \in Nat /\ Len(req') = Len(req) + 1
      /\ \A i \in 1 .. Len(req) : req'[i] = req[i]
      /\ req'[Len(req) + 1] = r
  BY <1>2, <1>3, AppendProperties DEF ServerOK
<1>5. \A i \in 1 .. Len(req') : i \in 1 .. Len(req) \/ i = Len(req) + 1
  BY <1>4
<1>6. \A i \in 1 .. Len(req) : ~req[i].cb
  <2>1. \A i \in 1 .. Len(req) : req[i] \in RequestType
    BY <1>2 DEF ServerOK
  <2>2. \A i \in 1 .. Len(req) : req[i].op \in Ops
    BY <2>1 DEF RequestType
  <2> QED
    BY <1>2, <2>2 DEF IInv, ReqFits, NoCall, Ops
<1>7. /\ ~Running' /\ ~Uploading' /\ Target' = Target
  BY <1>1, <1>2 DEF Running, Uploading, Target
<1>8. ClientOK' /\ ServerOK' /\ VersionsFit' /\ SyncFit' /\ CallFits'
  <2>1. ClientOK'
    BY <1>1, <1>2, Zenon DEF ClientOK
  <2>2. ServerOK'
    BY <1>1, <1>2, <1>4 DEF ServerOK
  <2>3. VersionsFit' /\ SyncFit'
    <3>1. Running' = Running /\ ToCreate(sync.list)' = ToCreate(sync.list)
          /\ ToDelete(sync.list)' = ToDelete(sync.list)
      BY <1>1 DEF Running, ToCreate, ToDelete
    <3> QED
      BY <1>1, <1>7, <3>1 DEF IInv, VersionsFit, SyncFit
  <2>4. CallFits'
    BY <1>1, <1>2, <1>7 DEF IInv, CallFits
  <2> QED
    BY <2>1, <2>2, <2>3, <2>4
<1>9. ReqFits' /\ WritesFirst' /\ Dirty'
  <2>1. \A i \in 1 .. Len(req') :
          \/ req'[i].op = "cd" /\ ~req'[i].cb
          \/ i \in 1 .. Len(req) /\ req'[i] = req[i] /\ ~req[i].cb
    BY <1>3, <1>4, <1>5, <1>6
  <2>2. ReqFits'
    BY <1>1, <1>2, <2>1 DEF IInv, ReqFits
  <2>3. WritesFirst'
    BY <1>1, <2>1 DEF IInv, WritesFirst
  <2>4. Dirty'
    BY <1>1, <1>7, <2>1 DEF IInv, Dirty
  <2> QED
    BY <2>2, <2>3, <2>4
<1>10. HandleFits' /\ Answered' /\ Uploaded' /\ Settled' /\ Done'
  BY <1>1, <1>2, <1>7 DEF HandleFits, Answered, Uploaded, Settled, Done
<1>11. SnapshotTrue'
  BY <1>1 DEF IInv, SnapshotTrue
<1> QED
  BY <1>8, <1>9, <1>10, <1>11 DEF IInv

\* Whatever the user does keeps the invariant.
LEMMA UserIInv ==
    ASSUME IInv, User
    PROVE  IInv'
<1>1. ASSUME NEW p \in Paths, NEW v \in Version, v # 0, v <= edits + 1, WriteFile(p, v)
      PROVE  IInv'
  <2>1. HasOpen(p) => up.src # 0 /\ p = Target
    <3>1. up.src # 0 => Uploading
      BY DEF IInv, CallFits, Uploading
    <3> QED
      BY <3>1, UploadingFacts DEF HasOpen
  <2> QED
    BY <1>1, <2>1, EditIInv DEF WriteFile
<1>1a. ASSUME NEW p \in Paths, EditFile(p)
       PROVE  IInv'
  <2>1. edits \in Nat /\ edits + 1 \in Version /\ edits + 1 # 0
    BY <1>1a, NextEdit DEF IInv, EditFile, WriteFile
  <2> QED
    BY <1>1, <1>1a, <2>1 DEF EditFile
<1>1b. ASSUME NEW p \in Paths, PutBack(p)
       PROVE  IInv'
  <2>1. PICK v \in {snapshot[p], sync.list[p]} \ {0, local[p]} : WriteFile(p, v)
    BY <1>1b DEF PutBack
  <2>2. /\ snapshot[p] \in Version /\ sync.list[p] \in Version /\ edits \in Nat
        /\ Version \subseteq Nat /\ snapshot[p] <= edits
    BY ConstantFacts DEF IInv, ClientOK, SyncType, VersionsFit
  <2>3. sync.list[p] <= edits
    BY <2>2 DEF IInv, VersionsFit
  <2>4. v \in Version /\ v \in Nat /\ v # 0 /\ v <= edits
    BY <2>1, <2>2, <2>3
  <2>5. v <= edits + 1
    BY <2>2, <2>4
  <2> QED
    BY <1>1, <2>1, <2>4, <2>5
<1>2. ASSUME NEW p \in Paths, MakeFolder(p)
      PROVE  IInv'
  <2>1. /\ p \in Dirs /\ edits < MaxEdits /\ edits' = edits + 1
        /\ local' = [local EXCEPT ![p] = 1] /\ same' = same \ {p} /\ up' = up
        /\ edits \in Nat /\ 0 <= edits + 1 /\ 1 <= edits + 1
        /\ UNCHANGED <<snapshot, sync, call, begun, syncs, req, ans, serverVars, faults>>
    BY <1>2, NextEdit DEF IInv, MakeFolder, clientVars
  <2> QED
    BY <2>1, ConstantFacts, EditIInv
<1>3. ASSUME NEW p \in Paths, RemovePath(p)
      PROVE  IInv'
  <2>1. /\ edits < MaxEdits /\ edits' = edits + 1
        /\ local' = [local EXCEPT ![p] = 0] /\ same' = same \ {p} /\ up' = up
        /\ edits \in Nat /\ 0 <= edits + 1 /\ 1 <= edits + 1
        /\ UNCHANGED <<snapshot, sync, call, begun, syncs, req, ans, serverVars, faults>>
    BY <1>3, NextEdit DEF IInv, RemovePath, clientVars
  <2> QED
    BY <2>1, ConstantFacts, EditIInv
<1> QED
  BY <1>1a, <1>1b, <1>2, <1>3, StartIInv, ResetLocalFolderIInv, ChangeDirectoryIInv DEF User

-----------------------------------------------------------------------------
(* The theorems.                                                           *)

\* The invariant is inductive.
LEMMA NextIInv == IInv /\ [Next]_vars => IInv'
<1> SUFFICES ASSUME IInv, [Next]_vars
             PROVE  IInv'
  OBVIOUS
<1>1. CASE UNCHANGED vars
  <2>1. /\ local' = local /\ edits' = edits /\ same' = same /\ snapshot' = snapshot
        /\ sync' = sync /\ up' = up /\ call' = call /\ syncs' = syncs /\ req' = req
        /\ ans' = ans /\ remote' = remote /\ handles' = handles /\ faults' = faults
        /\ cwd' = cwd /\ at' = at /\ begun' = begun
    BY <1>1 DEF vars, userVars, clientVars, serverVars
  <2>2. /\ Running' = Running /\ Target' = Target /\ Uploading' = Uploading
        /\ ToCreate(sync.list)' = ToCreate(sync.list)
        /\ ToDelete(sync.list)' = ToDelete(sync.list)
    BY <2>1 DEF Running, Target, Uploading, ToCreate, ToDelete
  <2>3. ClientOK' /\ ServerOK' /\ VersionsFit' /\ SyncFit' /\ CallFits' /\ ReqFits'
    BY <2>1, <2>2 DEF IInv, ClientOK, ServerOK, VersionsFit, SyncFit, CallFits, ReqFits
  <2>4. WritesFirst' /\ HandleFits' /\ Dirty' /\ Done' /\ SnapshotTrue'
    <3>1. Changed(sync.list)' = Changed(sync.list)
      BY <2>2 DEF Changed
    <3> QED
      BY <2>1, <2>2, <3>1 DEF IInv, WritesFirst, HandleFits, Dirty, Done, SnapshotTrue
  <2>5. Answered' /\ Uploaded'
    BY <2>1, <2>2 DEF IInv, Answered, Uploaded
  <2>6. Settled'
    <3>1. /\ sync'.create = sync.create /\ sync'.delete = sync.delete
      BY <2>1
    <3>2. ASSUME Running', \/ sync'.create # ToCreate(sync.list)'
                           \/ sync'.delete # ToDelete(sync.list)'
          PROVE  \A i \in 1 .. Len(req) : req[i].op \in {"close", "cd"} \/ req[i].cb
      BY <2>1, <2>2, <3>1, <3>2 DEF IInv, Settled
    <3> QED
      BY <2>1, <3>2 DEF Settled
  <2> QED
    BY <2>3, <2>4, <2>5, <2>6 DEF IInv
<1> QED
  BY <1>1, SyncStepIInv, UploadStepIInv, OnAnswerIInv, OnTimeoutIInv, ServeIInv,
     OnAutoClearSessionIInv, UserIInv, FaultsIInv DEF Next

\* In every state of the mirror the invariant holds.
THEOREM Inductive == Spec => []IInv
BY InitIInv, NextIInv, PTL DEF Spec

\* Only a sync with nothing left to do stops without an error.
LEMMA OnlyFinish ==
    ASSUME IInv, Next, Running, sync'.result = "none"
    PROVE  CheckDeleteList /\ sync.delete = {}
<1>1. sync.result = "unset" /\ sync \in SyncType
  BY DEF IInv, SyncFit, ClientOK
<1>2. \A s : (sync' = [sync EXCEPT !.step = s]) => sync'.result = "unset"
  <2> TAKE s
  <2>1. sync' = [sync EXCEPT !.step = s] => sync'.result = sync.result
    BY <1>1 DEF SyncType
  <2> QED
    BY <1>1, <2>1
<1>3. \A err : sync' = StopSync(err) => sync'.result = err
  BY DEF StopSync, Idle
<1>4. sync' # sync
  BY <1>1
<1>5. /\ sync' # [sync EXCEPT !.step = "check_create", !.create = @ \ {Least(@)}]
      /\ sync' # [sync EXCEPT !.step = "check_delete", !.delete = @ \ {Greatest(@)}]
  BY <1>1 DEF SyncType
<1>6. \A err, q : StopUpload(err, q) => FALSE
  BY <1>3, <1>5 DEF StopUpload, UploadDone
<1>7. \A ok, h, timedOut, q : ~Callback(ok, h, timedOut, q)
  BY <1>3, <1>4, <1>5, <1>6 DEF Callback, OnCreateFolderAnswer, OnOpenFileAnswer,
     OnWriteFileAnswer, OnDeleteFolderAnswer, OnDeleteFileAnswer
<1>8. ~OnAnswer /\ ~OnTimeout
  BY <1>7 DEF OnAnswer, OnTimeout
<1>9. ~UploadStep
  BY <1>4, <1>6 DEF UploadStep, CheckSourceFile, OpenOutFile, WriteChunk
<1>10. ~Serve /\ ~OnAutoClearSession
  BY <1>4 DEF Serve, OnCreateFolder, OnOpenFile, OnWriteFile, OnCloseFile, OnDeleteFolder,
     OnDeleteFile, OnChangeCurrentDirectory, OnAutoClearSession, NewSession, clientVars
<1>11. ~User
  BY <1>4 DEF User, Start, ResetLocalFolder, ChangeDirectory, EditFile, PutBack, WriteFile, MakeFolder, RemovePath, clientVars
<1>12. ~Faults
  BY <1>3, <1>4 DEF Faults, ServerRestart, NewSession, LoseRequest, LoseAnswer, ClientCrash, clientVars
<1>13. ~CheckCreateList /\ ~CreateFolder /\ ~UploadFile /\ ~DeleteFolder /\ ~DeleteFile
  BY <1>2 DEF CheckCreateList, CreateFolder, UploadFile, DeleteFolder, DeleteFile, Go
<1>14. CheckDeleteList
  BY <1>8, <1>9, <1>10, <1>11, <1>12, <1>13 DEF Next, SyncStep
<1>15. sync.delete = {}
  BY <1>2, <1>14 DEF CheckDeleteList, Go
<1> QED
  BY <1>14, <1>15

\* Types; an answer is on the way only while its call waits.
THEOREM TypeCorrect == Spec => []TypeOK
<1>1. IInv => TypeOK
  <2> SUFFICES ASSUME IInv
               PROVE  TypeOK
    OBVIOUS
  <2>1. ClientOK /\ ServerOK
    BY DEF IInv
  <2>2. /\ local \in [Paths -> Version] /\ snapshot \in [Paths -> Version]
        /\ edits \in Version /\ same \subseteq Paths
        /\ sync.list \in [Paths -> Version]
        /\ sync.create \subseteq Paths /\ sync.delete \subseteq Paths
    BY <2>1 DEF ClientOK, SyncType
  <2>3. /\ up.handle \in Handle \cup {NoHandle} /\ up.off \in Nat /\ up.src \in Version
        /\ up.size \in Nat /\ begun \subseteq Paths /\ call \in Ops \cup {NoCall}
        /\ syncs \in 0 .. MaxSyncs /\ faults \in 0 .. MaxFaults
    BY <2>1 DEF ClientOK, UpType
  <2>4. Uploading => sync.step = "none" /\ sync.create # {}
    BY UploadingFacts
  <2>5. ans # NoAnswer => call # NoCall /\ \A i \in DOMAIN req : ~req[i].cb
    BY DEF IInv, ReqFits
  <2>6. /\ req \in Seq(RequestType)
        /\ remote \in [Name -> Seq(Version)]
        /\ handles \in [Handle -> (Dir \X Files) \cup {Closed, Unlinked}]
        /\ cwd \in Dir /\ at \in [Paths -> Dir]
    BY <2>1 DEF ServerOK
  <2> QED
    BY <2>2, <2>3, <2>4, <2>5, <2>6, Zenon DEF TypeOK
<1> QED
  BY <1>1, Inductive, PTL

\* A file that is as the snapshot has it is whole on the server where it was
\* last put, whatever syncs failed, timed out or crashed, unless a sync that
\* found it changed has begun and no good one has ended since.
THEOREM SkippedIsWhole == Spec => []SnapshotTrue
<1>1. IInv => SnapshotTrue
  BY DEF IInv
<1> QED
  BY <1>1, Inductive, PTL

\* No chunk is written to another file than the one its upload opened, whoever
\* reuses descriptors.
THEOREM WritesAreOwn == Spec => []NoStrayWrite
<1>1. IInv => NoStrayWrite
  <2> SUFFICES ASSUME IInv, Arrived("write"), IsOpen(Head(req).h)
               PROVE  handles[Head(req).h] \in {<<at[Head(req).path], Head(req).path>>, Unlinked}
    BY DEF NoStrayWrite
  <2>1. req \in Seq(RequestType) /\ req # <<>> /\ Head(req).op = "write"
    BY DEF IInv, ServerOK, Arrived
  <2>2. Head(req) = req[1] /\ 1 \in 1 .. Len(req)
    <3>1. Len(req) \in Nat /\ Len(req) # 0 /\ Head(req) = req[1]
      BY <2>1, EmptySeq, HeadTailProperties
    <3> QED
      BY <3>1
  <2> QED
    BY <2>1, <2>2 DEF IInv, WritesFirst, IsOpen
<1> QED
  BY <1>1, Inductive, PTL

\* When a sync stops without an error, everything nobody touched since its
\* listing is on the server as it is here, where it was last put.
THEOREM SuccessIsMirror == Spec => MirrorOnSuccess
<1> DEFINE Mirror ==
      \A p \in same :
        /\ p \in Files /\ local[p] # 0 /\ (local[p] # snapshot[p] \/ p \notin begun)
             => remote[<<at[p], p>>] = Whole(local[p])
        /\ p \in Dirs /\ local[p] # 0 /\ snapshot[p] = 0 => remote[<<at[p], p>>] # Absent
        /\ local[p] = 0 /\ snapshot[p] # 0 => remote[<<at[p], p>>] = Absent
<1>1. IInv /\ [Next]_vars => [Running /\ sync'.result = "none" => Mirror]_vars
  <2> SUFFICES ASSUME IInv, Next, Running, sync'.result = "none", NEW p \in same
               PROVE  /\ p \in Files /\ local[p] # 0 /\ (local[p] # snapshot[p] \/ p \notin begun)
                           => remote[<<at[p], p>>] = Whole(local[p])
                      /\ p \in Dirs /\ local[p] # 0 /\ snapshot[p] = 0
                           => remote[<<at[p], p>>] # Absent
                      /\ local[p] = 0 /\ snapshot[p] # 0 => remote[<<at[p], p>>] = Absent
    OBVIOUS
  <2>1. CheckDeleteList /\ sync.delete = {} /\ sync.create = {}
    BY OnlyFinish DEF CheckDeleteList, IInv, SyncFit
  <2>2. p \in Paths /\ local[p] = sync.list[p]
    BY DEF IInv, ClientOK, VersionsFit
  <2>3. /\ p \in Files /\ local[p] # 0 /\ local[p] # snapshot[p]
             => remote[<<at[p], p>>] = Whole(local[p])
        /\ p \in Dirs /\ local[p] # 0 /\ snapshot[p] = 0 => remote[<<at[p], p>>] # Absent
        /\ local[p] = 0 /\ snapshot[p] # 0 => remote[<<at[p], p>>] = Absent
    BY <2>1, <2>2 DEF IInv, Done
  <2>4. p \in Files /\ local[p] # 0 /\ local[p] = snapshot[p] /\ p \notin begun
          => remote[<<at[p], p>>] = Whole(local[p])
    BY DEF IInv, SnapshotTrue
  <2> QED
    BY <2>3, <2>4
<1> QED
  BY <1>1, Inductive, PTL DEF Spec, MirrorOnSuccess

-----------------------------------------------------------------------------
(* What the server keeps open.                                             *)

\* A handle whose close is on the way, and one that is in the answer.
Closing(q, h) == \E i \in 1 .. Len(q) : q[i].op = "close" /\ q[i].h = h
Answering(h) == call = "open" /\ ans # NoAnswer /\ ans.ok /\ ans.h = h

\* The open files nobody is going to close, and the requests that open one for
\* nobody: there are no more of them than faults.
Unclaimed ==
    {h \in Handle : handles[h] # Closed /\ h # up.handle /\ ~Closing(req, h) /\ ~Answering(h)}
Orphans(q) == {i \in 1 .. Len(q) : q[i].op = "open" /\ ~q[i].cb}

Charged == Cardinality(Unclaimed) + Cardinality(Orphans(req)) <= faults

\* A client that crashes loses one close at most: the way is empty when an
\* upload has its handle.
CloseOnce(q) ==
    \A i, j \in 1 .. Len(q) :
        q[i].op = "close" /\ q[j].op = "close" /\ q[i].h # NoHandle /\ q[j].h # NoHandle
            => i = j

Leaks == CloseOnce(req) /\ Charged

\* There are finitely many handles.
LEMMA HandlesFinite ==
    ASSUME NEW S \in SUBSET Handle
    PROVE  IsFiniteSet(S) /\ Cardinality(S) \in Nat
<1>1. MaxHandles \in Int /\ 1 \in Int /\ Handle = 1 .. MaxHandles
  BY BoundsAssumption DEF Handle
<1>2. IsFiniteSet(Handle)
  BY <1>1, FS_Interval
<1> QED
  BY <1>2, FS_Subset, FS_CardinalityType

\* There are finitely many requests on the way.
LEMMA OrphansFinite ==
    ASSUME NEW q \in Seq(RequestType), NEW S \in SUBSET (1 .. Len(q))
    PROVE  IsFiniteSet(S) /\ Cardinality(S) \in Nat
<1>1. Len(q) \in Int /\ 1 \in Int
  OBVIOUS
<1>2. IsFiniteSet(1 .. Len(q))
  BY <1>1, FS_Interval
<1> QED
  BY <1>2, FS_Subset, FS_CardinalityType

\* What a step adds to one side of the balance, it adds to the other.
LEMMA NoneMore ==
    ASSUME IInv, IInv', Charged, Unclaimed' \subseteq Unclaimed,
           Cardinality(Orphans(req')) + faults <= Cardinality(Orphans(req)) + faults'
    PROVE  Charged'
<1>1. /\ req \in Seq(RequestType) /\ req' \in Seq(RequestType)
      /\ faults \in Nat /\ faults' \in Nat
  BY BoundsAssumption DEF IInv, ServerOK, ClientOK
<1>2. Unclaimed \in SUBSET Handle /\ Unclaimed' \in SUBSET Handle
  BY DEF Unclaimed
<1>3. /\ IsFiniteSet(Unclaimed) /\ Cardinality(Unclaimed) \in Nat
      /\ Cardinality(Unclaimed') \in Nat
  BY <1>2, HandlesFinite
<1>4. Cardinality(Unclaimed') <= Cardinality(Unclaimed)
  BY <1>3, FS_Subset
<1>5. Cardinality(Orphans(req)) \in Nat /\ Cardinality(Orphans(req')) \in Nat
  <2>1. Orphans(req) \in SUBSET (1 .. Len(req)) /\ Orphans(req') \in SUBSET (1 .. Len(req'))
    BY DEF Orphans
  <2> QED
    BY <1>1, <2>1, OrphansFinite
<1> QED
  BY <1>1, <1>3, <1>4, <1>5 DEF Charged

\* A handle more is paid for by a fault, or by an orphan that is gone.
LEMMA OneMore ==
    ASSUME IInv, IInv', Charged, NEW h, Unclaimed' \subseteq Unclaimed \cup {h},
           Cardinality(Orphans(req')) + faults + 1 <= Cardinality(Orphans(req)) + faults'
    PROVE  Charged'
<1>1. /\ req \in Seq(RequestType) /\ req' \in Seq(RequestType)
      /\ faults \in Nat /\ faults' \in Nat
  BY BoundsAssumption DEF IInv, ServerOK, ClientOK
<1>2. Unclaimed \in SUBSET Handle /\ Unclaimed' \in SUBSET Handle
  BY DEF Unclaimed
<1>3. /\ IsFiniteSet(Unclaimed) /\ Cardinality(Unclaimed) \in Nat
      /\ Cardinality(Unclaimed') \in Nat
  BY <1>2, HandlesFinite
<1>4. PICK S : S = Unclaimed \cup {h}
  OBVIOUS
<1>5. /\ IsFiniteSet(S)
      /\ Cardinality(S) = Cardinality(Unclaimed) \/ Cardinality(S) = Cardinality(Unclaimed) + 1
  BY <1>3, <1>4, FS_AddElement
<1>6. Cardinality(Unclaimed') <= Cardinality(S)
  BY <1>4, <1>5, FS_Subset
<1>7. Cardinality(Orphans(req)) \in Nat /\ Cardinality(Orphans(req')) \in Nat
  <2>1. Orphans(req) \in SUBSET (1 .. Len(req)) /\ Orphans(req') \in SUBSET (1 .. Len(req'))
    BY DEF Orphans
  <2> QED
    BY <1>1, <2>1, OrphansFinite
<1> QED
  BY <1>1, <1>3, <1>5, <1>6, <1>7 DEF Charged

\* A request that is sent, with its callback or to close.
LEMMA SentFacts ==
    ASSUME NEW q \in Seq(RequestType), NEW r \in RequestType, r.op = "open" => r.cb
    PROVE  /\ Orphans(Append(q, r)) = Orphans(q)
           /\ \A h : Closing(Append(q, r), h) <=> Closing(q, h) \/ (r.op = "close" /\ r.h = h)
<1>1. PICK n \in Nat : n = Len(q)
  OBVIOUS
<1>2. PICK t : t = Append(q, r)
  OBVIOUS
<1>3. Len(t) = n + 1 /\ t[n + 1] = r /\ \A i \in 1 .. n : t[i] = q[i]
  BY <1>1, <1>2, AppendProperties
<1>4. \A i \in 1 .. n + 1 : i \in 1 .. n \/ i = n + 1
  OBVIOUS
<1>5. n + 1 \in 1 .. n + 1 /\ \A i \in 1 .. n : i \in 1 .. n + 1
  OBVIOUS
<1>6. Orphans(t) = Orphans(q)
  <2>1. ASSUME NEW i
        PROVE  i \in Orphans(t) <=> i \in Orphans(q)
    <3>1. i \in Orphans(q) => i \in Orphans(t)
      BY <1>1, <1>3, <1>5 DEF Orphans
    <3>2. i \in Orphans(t) => i \in 1 .. n + 1 /\ t[i].op = "open" /\ ~t[i].cb
      BY <1>3 DEF Orphans
    <3>3. i \in Orphans(t) => i \in Orphans(q)
      BY <1>1, <1>3, <1>4, <3>2 DEF Orphans
    <3> QED
      BY <3>1, <3>3
  <2> QED
    BY <2>1
<1>7. ASSUME NEW h
      PROVE  Closing(t, h) <=> Closing(q, h) \/ (r.op = "close" /\ r.h = h)
  BY <1>1, <1>3, <1>4, <1>5 DEF Closing
<1> QED
  BY <1>2, <1>6, <1>7

\* A callback that is gone makes an orphan of the request that waited for it.
LEMMA ForgottenFacts ==
    ASSUME NEW q \in Seq(RequestType)
    PROVE  /\ \A h : Closing(Forget(q), h) <=> Closing(q, h)
           /\ Orphans(Forget(q)) = {i \in 1 .. Len(q) : q[i].op = "open"}
<1>1. PICK f : f = Forget(q)
  OBVIOUS
<1>2. /\ Len(f) = Len(q)
      /\ \A i \in 1 .. Len(q) : ~f[i].cb /\ f[i].op = q[i].op /\ f[i].h = q[i].h
  BY <1>1, ForgetFacts
<1>3. \A h : Closing(f, h) <=> Closing(q, h)
  BY <1>2 DEF Closing
<1>4. Orphans(f) = {i \in 1 .. Len(q) : q[i].op = "open"}
  BY <1>2 DEF Orphans
<1> QED
  BY <1>1, <1>3, <1>4

\* Only the last request may have a callback, so there is one orphan more at
\* most, and none if the call is no open or has lost its request.
LEMMA ForgottenOpens ==
    ASSUME IInv
    PROVE  /\ Cardinality(Orphans(Forget(req))) <= Cardinality(Orphans(req)) + 1
           /\ call # "open" \/ (\A i \in 1 .. Len(req) : ~req[i].cb) =>
                Orphans(Forget(req)) = Orphans(req)
<1>1. req \in Seq(RequestType)
  BY DEF IInv, ServerOK
<1>2. PICK O : O = Orphans(req)
  OBVIOUS
<1>3. PICK n : n = Len(req)
  OBVIOUS
<1>4. PICK F : F = {i \in 1 .. n : req[i].op = "open"} /\ F = Orphans(Forget(req))
  BY <1>1, <1>3, ForgottenFacts
<1>5. F \subseteq O \cup {n}
  BY <1>2, <1>3, <1>4 DEF Orphans, IInv, ReqFits
<1>6. O \subseteq F
  BY <1>2, <1>3, <1>4 DEF Orphans
<1>7. call # "open" \/ (\A i \in 1 .. Len(req) : ~req[i].cb) => F \subseteq O
  BY <1>2, <1>3, <1>4 DEF Orphans, IInv, ReqFits
<1>8. O \in SUBSET (1 .. Len(req))
  BY <1>2 DEF Orphans
<1>9. IsFiniteSet(O) /\ Cardinality(O) \in Nat
  BY <1>1, <1>8, OrphansFinite
<1>10. PICK S : S = O \cup {n}
  OBVIOUS
<1>11. /\ IsFiniteSet(S)
       /\ Cardinality(S) = Cardinality(O) \/ Cardinality(S) = Cardinality(O) + 1
  BY <1>9, <1>10, FS_AddElement
<1>12. Cardinality(F) \in Nat /\ Cardinality(F) <= Cardinality(S)
  <2>1. F \in SUBSET S
    BY <1>5, <1>10
  <2>2. IsFiniteSet(F) /\ Cardinality(F) <= Cardinality(S)
    BY <2>1, <1>11, FS_Subset
  <2> QED
    BY <2>2, FS_CardinalityType
<1>13. Cardinality(F) <= Cardinality(O) + 1
  BY <1>9, <1>11, <1>12
<1> QED
  BY <1>2, <1>4, <1>6, <1>7, <1>13

\* A request that leaves the way.
LEMMA ServedFacts ==
    ASSUME IInv, req # <<>>, req' = Tail(req)
    PROVE  /\ \A h : Closing(req, h) <=>
                Closing(req', h) \/ (Head(req).op = "close" /\ Head(req).h = h)
           /\ Cardinality(Orphans(req')) <= Cardinality(Orphans(req))
           /\ Head(req).op = "open" /\ ~Head(req).cb =>
                Cardinality(Orphans(req')) + 1 <= Cardinality(Orphans(req))
<1>1. /\ req \in Seq(RequestType) /\ req' \in Seq(RequestType)
      /\ Head(req) = req[1] /\ 1 \in 1 .. Len(req)
      /\ \A i \in 1 .. Len(req') : i + 1 \in 1 .. Len(req) /\ req'[i] = req[i + 1]
  BY TailFacts DEF IInv, ServerOK
<1>2. PICK n \in Nat \ {0} : n = Len(req) /\ n - 1 = Len(req')
  BY <1>1, HeadTailProperties
<1>3. PICK q : q = req'
  OBVIOUS
<1>4. \A i \in 1 .. n - 1 : i + 1 \in 1 .. n /\ q[i] = req[i + 1]
  BY <1>1, <1>2, <1>3
<1>5. \A i \in 1 .. n : i = 1 \/ (i - 1 \in 1 .. n - 1 /\ q[i - 1] = req[i])
  <2> TAKE i \in 1 .. n
  <2>1. CASE i # 1
    <3>1. PICK j \in 1 .. n - 1 : i = j + 1 /\ i - 1 = j
      BY <2>1
    <3> QED
      BY <1>4, <3>1
  <2> QED
    BY <2>1
<1>6. ASSUME NEW h
      PROVE  Closing(req, h) <=>
               Closing(q, h) \/ (Head(req).op = "close" /\ Head(req).h = h)
  <2>1. ASSUME Closing(req, h)
        PROVE  Closing(q, h) \/ (Head(req).op = "close" /\ Head(req).h = h)
    <3>1. PICK i \in 1 .. n : req[i].op = "close" /\ req[i].h = h
      BY <1>2, <2>1 DEF Closing
    <3>2. CASE i # 1
      <4>1. PICK j \in 1 .. n - 1 : q[j] = req[i]
        BY <1>5, <3>2
      <4> QED
        BY <1>2, <1>3, <3>1, <4>1 DEF Closing
    <3> QED
      BY <1>1, <3>1, <3>2
  <2>2. ASSUME Closing(q, h)
        PROVE  Closing(req, h)
    <3>1. PICK j \in 1 .. n - 1 : q[j].op = "close" /\ q[j].h = h
      BY <1>2, <1>3, <2>2 DEF Closing
    <3>2. PICK i \in 1 .. n : q[j] = req[i]
      BY <1>4, <3>1
    <3> QED
      BY <1>2, <3>1, <3>2 DEF Closing
  <2>3. Head(req).op = "close" /\ Head(req).h = h => Closing(req, h)
    BY <1>1 DEF Closing
  <2> QED
    BY <2>1, <2>2, <2>3
<1>7. PICK O : O = Orphans(req)
  OBVIOUS
<1>8. PICK R : R = O \ {1}
  OBVIOUS
<1>9. PICK Q : Q = Orphans(q)
  OBVIOUS
<1>10. PICK f : f = [i \in Q |-> i + 1]
  OBVIOUS
<1>11. f \in Injection(Q, R)
  <2>1. ASSUME NEW i \in Q
        PROVE  i \in 1 .. n - 1 /\ i + 1 \in R /\ f[i] = i + 1
    <3>1. i \in 1 .. n - 1 /\ q[i].op = "open" /\ ~q[i].cb
      BY <1>2, <1>3, <1>9 DEF Orphans
    <3>2. i + 1 \in 1 .. n /\ q[i] = req[i + 1] /\ i + 1 # 1
      BY <1>4, <3>1
    <3>3. i + 1 \in O
      BY <1>2, <1>7, <3>1, <3>2 DEF Orphans
    <3> QED
      BY <1>8, <1>10, <3>1, <3>2, <3>3
  <2>2. f \in [Q -> R]
    BY <1>10, <2>1
  <2>3. ASSUME NEW i \in Q, NEW j \in Q, f[i] = f[j]
        PROVE  i = j
    <3>1. i \in Nat /\ j \in Nat /\ i + 1 = j + 1
      BY <2>1, <2>3
    <3> QED
      BY <3>1
  <2> QED
    BY <2>2, <2>3 DEF Injection, IsInjective
<1>12. IsFiniteSet(O) /\ Cardinality(O) \in Nat
  <2>1. O \in SUBSET (1 .. Len(req))
    BY <1>7 DEF Orphans
  <2> QED
    BY <1>1, <2>1, OrphansFinite
<1>13. /\ IsFiniteSet(R)
       /\ Cardinality(R) = IF 1 \in O THEN Cardinality(O) - 1 ELSE Cardinality(O)
  BY <1>8, <1>12, FS_RemoveElement
<1>14. Cardinality(Q) \in Nat /\ Cardinality(Q) <= Cardinality(R)
  <2>1. IsFiniteSet(Q) /\ Cardinality(Q) <= Cardinality(R)
    BY <1>11, <1>13, FS_Injection
  <2> QED
    BY <2>1, FS_CardinalityType
<1>15. Head(req).op = "open" /\ ~Head(req).cb => 1 \in O
  BY <1>1, <1>7 DEF Orphans
<1>16. /\ Cardinality(Q) <= Cardinality(O)
       /\ Head(req).op = "open" /\ ~Head(req).cb => Cardinality(Q) + 1 <= Cardinality(O)
  BY <1>12, <1>13, <1>14, <1>15
<1> QED
  BY <1>3, <1>6, <1>7, <1>9, <1>16

\* While an upload has its handle, no close is on the way.
LEMMA NoneClosing ==
    ASSUME IInv, up.handle # NoHandle
    PROVE  \A i \in 1 .. Len(req) : req[i].op # "close"
<1>1. \A i \in 1 .. Len(req) : req[i].op = call /\ call # "close"
  BY DEF IInv, HandleFits, ReqFits, CallFits
<1> QED
  BY <1>1

\* The way when something is sent on it.
LEMMA SentCloses ==
    ASSUME NEW q \in Seq(RequestType), NEW r \in RequestType, CloseOnce(q),
           \/ r.op # "close" \/ r.h = NoHandle
           \/ \A i \in 1 .. Len(q) : q[i].op # "close"
    PROVE  CloseOnce(Append(q, r))
<1>1. PICK n \in Nat : n = Len(q)
  OBVIOUS
<1>2. PICK t : t = Append(q, r)
  OBVIOUS
<1>3. Len(t) = n + 1 /\ t[n + 1] = r /\ \A i \in 1 .. n : t[i] = q[i]
  BY <1>1, <1>2, AppendProperties
<1>4. \A i \in 1 .. n + 1 : i \in 1 .. n \/ i = n + 1
  OBVIOUS
<1>5. \A i, j \in 1 .. n + 1 :
        t[i].op = "close" /\ t[j].op = "close" /\ t[i].h # NoHandle /\ t[j].h # NoHandle
            => i = j
  <2> SUFFICES ASSUME NEW i \in 1 .. n + 1, NEW j \in 1 .. n + 1,
                      t[i].op = "close", t[i].h # NoHandle,
                      t[j].op = "close", t[j].h # NoHandle
               PROVE  i = j
    OBVIOUS
  <2>1. CASE i \in 1 .. n /\ j \in 1 .. n
    BY <1>1, <1>3, <2>1 DEF CloseOnce
  <2>2. CASE i = n + 1 \/ j = n + 1
    <3>1. r.op = "close" /\ r.h # NoHandle
      BY <1>3, <2>2
    <3>2. \A k \in 1 .. n : t[k].op # "close"
      BY <1>1, <1>3, <3>1
    <3> QED
      BY <1>4, <3>2
  <2> QED
    BY <1>4, <2>1, <2>2
<1>6. CloseOnce(t)
  BY <1>3, <1>5 DEF CloseOnce
<1> QED
  BY <1>2, <1>6

\* A close has no callback to lose.
LEMMA ForgottenCloses ==
    ASSUME NEW q \in Seq(RequestType), CloseOnce(q)
    PROVE  CloseOnce(Forget(q))
<1>1. PICK f : f = Forget(q)
  OBVIOUS
<1>2. /\ Len(f) = Len(q)
      /\ \A i \in 1 .. Len(q) : ~f[i].cb /\ f[i].op = q[i].op /\ f[i].h = q[i].h
  BY <1>1, ForgetFacts
<1>3. CloseOnce(f)
  BY <1>2 DEF CloseOnce
<1> QED
  BY <1>1, <1>3

\* What leaves the way leaves no second close on it.
LEMMA ServedCloses ==
    ASSUME IInv, req # <<>>, req' = Tail(req), CloseOnce(req)
    PROVE  CloseOnce(req')
<1>1. \A i \in 1 .. Len(req') : i + 1 \in 1 .. Len(req) /\ req'[i] = req[i + 1]
  BY TailFacts
<1>2. PICK q : q = req'
  OBVIOUS
<1>3. \A i \in 1 .. Len(q) : i + 1 \in 1 .. Len(req) /\ q[i] = req[i + 1]
  BY <1>1, <1>2
<1>4. ASSUME NEW i \in 1 .. Len(q), NEW j \in 1 .. Len(q),
             q[i].op = "close", q[j].op = "close", q[i].h # NoHandle, q[j].h # NoHandle
      PROVE  i = j
  <2>1. PICK k \in 1 .. Len(req) : k = i + 1 /\ req[k] = q[i]
    BY <1>3
  <2>2. PICK m \in 1 .. Len(req) : m = j + 1 /\ req[m] = q[j]
    BY <1>3
  <2>3. k = m
    BY <1>4, <2>1, <2>2 DEF CloseOnce
  <2>4. i \in Int /\ j \in Int /\ i + 1 = j + 1
    BY <2>1, <2>2, <2>3
  <2> QED
    BY <2>4
<1>5. CloseOnce(q)
  BY <1>4 DEF CloseOnce
<1> QED
  BY <1>2, <1>5

-----------------------------------------------------------------------------
(* The steps and what the server keeps open.                               *)

\* A step that neither sends nor serves, nor opens, nor lets go of a handle.
LEMMA StillLeaks ==
    ASSUME IInv, IInv', Leaks, req' = req, up'.handle = up.handle,
           \A h \in Handle : handles'[h] # Closed => handles[h] # Closed,
           \A h \in Handle : Answering(h) => Answering(h)',
           faults <= faults'
    PROVE  Leaks'
<1>1. Unclaimed' \subseteq Unclaimed
  BY DEF Unclaimed, Closing
<1>2. faults \in Nat /\ faults' \in Nat /\ req \in Seq(RequestType)
  BY BoundsAssumption DEF IInv, ClientOK, ServerOK
<1>3. Cardinality(Orphans(req)) \in Nat
  BY <1>2, OrphansFinite DEF Orphans
<1>4. Cardinality(Orphans(req')) + faults <= Cardinality(Orphans(req)) + faults'
  BY <1>2, <1>3
<1>5. Charged'
  BY <1>1, <1>4, NoneMore DEF Leaks
<1> QED
  BY <1>5 DEF Leaks

\* A call that is sent.
LEMMA SentLeaks ==
    ASSUME IInv, IInv', Leaks, call = NoCall, NEW op \in Ops \ {"close"},
           NEW path \in Paths, NEW h \in Handle \cup {NoHandle},
           NEW off \in Nat, NEW data \in Version, Send(op, path, h, off, data),
           up'.handle = up.handle, handles' = handles, ans' = ans, faults' = faults
    PROVE  Leaks'
<1>1. PICK r : r = Request(op, path, h, off, data, TRUE)
  OBVIOUS
<1>2. r \in RequestType /\ r.op # "close" /\ r.cb
  BY <1>1 DEF Request, RequestType
<1>3. req \in Seq(RequestType) /\ req' = Append(req, r) /\ CloseOnce(req)
  BY <1>1 DEF IInv, ServerOK, Send, Leaks
<1>4. /\ Orphans(req') = Orphans(req)
      /\ \A k : Closing(req', k) <=> Closing(req, k)
  BY <1>2, <1>3, SentFacts
<1>5. CloseOnce(req')
  BY <1>2, <1>3, SentCloses
<1>6. ans = NoAnswer
  BY DEF IInv, ReqFits
<1>7. Unclaimed' \subseteq Unclaimed
  BY <1>4, <1>6 DEF Unclaimed, Answering
<1>8. Charged'
  <2>1. Cardinality(Orphans(req)) \in Nat /\ faults \in Nat
    BY <1>3, OrphansFinite, BoundsAssumption DEF Orphans, IInv, ClientOK
  <2> QED
    BY <1>4, <1>7, <2>1, NoneMore DEF Leaks
<1> QED
  BY <1>5, <1>8 DEF Leaks

\* An upload that stops closes what it has.
LEMMA StopLeaks ==
    ASSUME IInv, Leaks, NEW q \in Seq(RequestType), q = req \/ q = Forget(req),
           req' = Close(q, up.handle), up' = NoUpload, call' = NoCall, handles' = handles
    PROVE  /\ CloseOnce(req') /\ Orphans(req') = Orphans(q)
           /\ \A k \in Unclaimed' : k \in Unclaimed \/ Answering(k)
<1>1. PICK r : r = Request("close", Root, up.handle, 0, 0, FALSE)
  OBVIOUS
<1>2. r \in RequestType /\ r.op = "close" /\ r.h = up.handle
  BY <1>1, ConstantFacts DEF Request, RequestType, Ops, IInv, ClientOK, UpType
<1>3. req' = Append(q, r) /\ req \in Seq(RequestType)
  BY <1>1 DEF Close, IInv, ServerOK
<1>4. /\ CloseOnce(q)
      /\ \A k : Closing(q, k) <=> Closing(req, k)
  <2>1. CASE q = Forget(req)
    BY <1>3, <2>1, ForgottenCloses, ForgottenFacts DEF Leaks
  <2> QED
    BY <2>1 DEF Leaks
<1>5. up.handle # NoHandle => \A i \in 1 .. Len(q) : q[i].op # "close"
  <2>1. CASE q = Forget(req)
    BY <1>3, <2>1, ForgetFacts, NoneClosing
  <2> QED
    BY <2>1, NoneClosing
<1>6. CloseOnce(req')
  BY <1>2, <1>3, <1>4, <1>5, SentCloses
<1>7. /\ Orphans(req') = Orphans(q)
      /\ \A k : Closing(req', k) <=> Closing(q, k) \/ k = up.handle
  BY <1>2, <1>3, SentFacts
<1>8. \A k \in Unclaimed' : k \in Unclaimed \/ Answering(k)
  BY <1>4, <1>7 DEF Unclaimed
<1> QED
  BY <1>6, <1>7, <1>8

\* The steps of the client between two calls.
LEMMA ClientLeaks ==
    ASSUME IInv, IInv', Leaks, SyncStep \/ UploadStep
    PROVE  Leaks'
<1>1. /\ req \in Seq(RequestType) /\ faults \in Nat
      /\ Cardinality(Orphans(req)) \in Nat
  <2>1. req \in Seq(RequestType) /\ faults \in Nat
    BY BoundsAssumption DEF IInv, ServerOK, ClientOK
  <2> QED
    BY <2>1, OrphansFinite DEF Orphans
<1>2. /\ handles' = handles /\ ans' = ans /\ faults' = faults
  BY DEF SyncStep, UploadStep, CheckCreateList, CreateFolder, UploadFile, CheckDeleteList,
         DeleteFolder, DeleteFile, CheckSourceFile, OpenOutFile, WriteChunk, serverVars
<1>3. call = NoCall /\ ans = NoAnswer
  <2>1. call = NoCall
    BY DEF SyncStep, UploadStep, CheckCreateList, CreateFolder, UploadFile, CheckDeleteList,
           DeleteFolder, DeleteFile, CheckSourceFile, OpenOutFile, WriteChunk,
           IInv, CallFits, Uploading
  <2> QED
    BY <2>1 DEF IInv, ReqFits
<1>4. CASE req' = req /\ up'.handle = up.handle
  <2>1. \A h \in Handle : Answering(h) => Answering(h)'
    BY <1>3 DEF Answering
  <2> QED
    BY <1>1, <1>2, <1>4, <2>1, StillLeaks
<1>5. ASSUME NEW op \in Ops \ {"close"}, NEW path \in Paths, NEW h \in Handle \cup {NoHandle},
             NEW off \in Nat, NEW data \in Version, Send(op, path, h, off, data),
             up'.handle = up.handle
      PROVE  Leaks'
  BY <1>2, <1>3, <1>5, SentLeaks
<1>6. ASSUME NEW err, StopUpload(err, req), call' = call
      PROVE  Leaks'
  <2>1. /\ CloseOnce(req') /\ Orphans(req') = Orphans(req)
        /\ \A k \in Unclaimed' : k \in Unclaimed \/ Answering(k)
    BY <1>1, <1>2, <1>3, <1>6, StopLeaks DEF StopUpload
  <2>2. Unclaimed' \subseteq Unclaimed
    BY <1>3, <2>1 DEF Answering
  <2>3. Charged'
    BY <1>1, <1>2, <2>1, <2>2, NoneMore DEF Leaks
  <2> QED
    BY <2>1, <2>3 DEF Leaks
<1>7. NoHandle \in Handle \cup {NoHandle} /\ 0 \in Nat /\ 0 \in Version
  BY ConstantFacts DEF Version
<1>8. CASE CheckCreateList \/ CheckDeleteList
  BY <1>4, <1>8 DEF CheckCreateList, CheckDeleteList
<1>9. CASE UploadFile
  <2>1. up = NoUpload
    BY <1>9, IdleUpload DEF UploadFile, IInv, CallFits
  <2>2. up'.handle = up.handle /\ req' = req
    BY <1>9, <2>1 DEF UploadFile, NoUpload
  <2> QED
    BY <1>4, <2>2
<1>10. CASE CreateFolder
  <2>1. Least(sync.create) \in Paths
    BY <1>10, TargetIn DEF CreateFolder, IInv, SyncFit, ClientOK, SyncType
  <2>2. "mkdir" \in Ops \ {"close"}
    BY DEF Ops
  <2> QED
    BY <1>5, <1>7, <1>10, <2>1, <2>2 DEF CreateFolder
<1>11. CASE DeleteFolder \/ DeleteFile
  <2>1. Greatest(sync.delete) \in Paths
    BY <1>11, TargetIn DEF DeleteFolder, DeleteFile, IInv, SyncFit, ClientOK, SyncType
  <2>2. "rmdir" \in Ops \ {"close"} /\ "rm" \in Ops \ {"close"}
    BY DEF Ops
  <2> QED
    BY <1>5, <1>7, <1>11, <2>1, <2>2 DEF DeleteFolder, DeleteFile
<1>12. CASE CheckSourceFile
  <2>1. CASE StopUpload("open_source_file_fail", req)
    BY <1>6, <1>12, <2>1 DEF CheckSourceFile
  <2>2. CASE ~StopUpload("open_source_file_fail", req)
    <3>1. /\ req' = req
          /\ \E v, n : up' = [up EXCEPT !.step = "open_out", !.src = v, !.size = n]
      BY <1>12, <2>2 DEF CheckSourceFile
    <3>2. up'.handle = up.handle
      BY <3>1 DEF IInv, ClientOK, UpType
    <3> QED
      BY <1>4, <3>1, <3>2
  <2> QED
    BY <2>1, <2>2
<1>13. CASE OpenOutFile \/ WriteChunk
  <2>1. Least(sync.create) \in Paths
    BY <1>13, UploadingFacts DEF OpenOutFile, WriteChunk, Uploading
  <2>2. /\ up.handle \in Handle \cup {NoHandle} /\ up.off \in Nat /\ up.src \in Version
        /\ [up EXCEPT !.step = "none"].handle = up.handle
    BY DEF IInv, ClientOK, UpType
  <2>3. "open" \in Ops \ {"close"} /\ "write" \in Ops \ {"close"}
    BY DEF Ops
  <2>4. CASE OpenOutFile
    BY <1>5, <1>7, <2>1, <2>2, <2>3, <2>4 DEF OpenOutFile
  <2>5. CASE WriteChunk /\ (up.off >= up.size \/ up.off >= Sizes[up.src])
    BY <1>6, <2>5 DEF WriteChunk
  <2>6. CASE WriteChunk /\ ~(up.off >= up.size \/ up.off >= Sizes[up.src])
    BY <1>5, <2>1, <2>2, <2>3, <2>6 DEF WriteChunk
  <2> QED
    BY <1>13, <2>4, <2>5, <2>6
<1> QED
  BY <1>8, <1>9, <1>10, <1>11, <1>12, <1>13 DEF SyncStep, UploadStep

\* An answer: the upload gets the handle it was opened for, or closes its own.
LEMMA AnswerLeaks ==
    ASSUME IInv, IInv', Leaks, OnAnswer
    PROVE  Leaks'
<1>1. /\ ans # NoAnswer /\ Callback(ans.ok, ans.h, FALSE, req) /\ faults' = faults
      /\ call' = NoCall /\ ans' = NoAnswer /\ handles' = handles /\ req = <<>>
      /\ req \in Seq(RequestType) /\ faults \in Nat
  <2>1. ans # NoAnswer /\ Callback(ans.ok, ans.h, FALSE, req) /\ faults' = faults
    BY DEF OnAnswer
  <2>2. call' = NoCall /\ ans' = NoAnswer /\ handles' = handles
    BY DEF OnAnswer, Callback, serverVars
  <2>3. req \in Seq(RequestType) /\ faults \in Nat /\ req = <<>>
    BY <2>1, BoundsAssumption DEF IInv, ReqFits, ServerOK, ClientOK
  <2> QED
    BY <2>1, <2>2, <2>3
<1>2. Cardinality(Orphans(req)) \in Nat
  BY <1>1, OrphansFinite DEF Orphans
<1>3. CASE ~(call = "open" /\ ans.ok) /\ req' = req /\ up'.handle = up.handle
  <2>1. \A h \in Handle : ~Answering(h)
    BY <1>3 DEF Answering
  <2> QED
    BY <1>1, <1>3, <2>1, StillLeaks
<1>4. CASE OnOpenFileAnswer(ans.ok, ans.h, req) /\ ans.ok
  <2>1. /\ req' = req /\ call = "open" /\ up' = [up EXCEPT !.step = "write", !.handle = ans.h]
        /\ up \in UpType /\ up.handle = NoHandle
    BY <1>4 DEF OnOpenFileAnswer, IInv, ClientOK, CallFits
  <2>2. up'.handle = ans.h
    BY <2>1 DEF UpType
  <2>3. \A h \in Handle : h # NoHandle
    BY ConstantFacts
  <2>4. Unclaimed' \subseteq Unclaimed
    BY <1>1, <1>4, <2>1, <2>2, <2>3 DEF Unclaimed, Answering, Closing
  <2>5. Charged'
    BY <1>1, <1>2, <2>1, <2>4, NoneMore DEF Leaks
  <2> QED
    BY <2>1, <2>5 DEF Leaks
<1>5. ASSUME NEW err, StopUpload(err, req), ~(call = "open" /\ ans.ok)
      PROVE  Leaks'
  <2>1. /\ CloseOnce(req') /\ Orphans(req') = Orphans(req)
        /\ \A k \in Unclaimed' : k \in Unclaimed \/ Answering(k)
    BY <1>1, <1>5, StopLeaks DEF StopUpload
  <2>2. Unclaimed' \subseteq Unclaimed
    BY <1>5, <2>1 DEF Answering
  <2>3. Charged'
    BY <1>1, <1>2, <2>1, <2>2, NoneMore DEF Leaks
  <2> QED
    BY <2>1, <2>3 DEF Leaks
<1>6. CASE OnOpenFileAnswer(ans.ok, ans.h, req) /\ ~ans.ok
  BY <1>5, <1>6 DEF OnOpenFileAnswer
<1>7. CASE OnWriteFileAnswer(ans.ok, req)
  <2>1. CASE ans.ok
    <3>1. up' = [up EXCEPT !.step = "write", !.off = up.off + 1] /\ up \in UpType
      BY <1>7, <2>1 DEF OnWriteFileAnswer, IInv, ClientOK
    <3>2. up'.handle = up.handle
      BY <3>1 DEF UpType
    <3> QED
      BY <1>3, <1>7, <2>1, <3>2 DEF OnWriteFileAnswer
  <2>2. CASE ~ans.ok
    BY <1>5, <1>7, <2>2 DEF OnWriteFileAnswer
  <2> QED
    BY <2>1, <2>2
<1>8. CASE \/ OnCreateFolderAnswer(ans.ok, req) \/ OnDeleteFileAnswer(ans.ok, req)
           \/ OnDeleteFolderAnswer(ans.ok, FALSE, req)
  BY <1>3, <1>8 DEF OnCreateFolderAnswer, OnDeleteFileAnswer, OnDeleteFolderAnswer
<1> QED
  BY <1>1, <1>4, <1>6, <1>7, <1>8 DEF Callback

\* A call that times out is a fault and leaves an orphan, or the handle of an
\* answer that nobody waits for any more.
LEMMA TimeoutLeaks ==
    ASSUME IInv, IInv', Leaks, OnTimeout
    PROVE  Leaks'
<1>1. /\ Callback(FALSE, NoHandle, TRUE, Forget(req))
      /\ call' = NoCall /\ ans' = NoAnswer /\ handles' = handles
      /\ req \in Seq(RequestType) /\ faults \in Nat
      /\ faults' = IF Lost THEN faults ELSE faults + 1
  <2>1. /\ Callback(FALSE, NoHandle, TRUE, Forget(req))
        /\ faults' = IF Lost THEN faults ELSE faults + 1
    BY DEF OnTimeout
  <2>2. call' = NoCall /\ ans' = NoAnswer /\ handles' = handles
    BY DEF OnTimeout, Callback, serverVars
  <2>3. req \in Seq(RequestType) /\ faults \in Nat
    BY BoundsAssumption DEF IInv, ServerOK, ClientOK
  <2> QED
    BY <2>1, <2>2, <2>3
<1>2. Forget(req) \in Seq(RequestType) /\ Len(req) \in Nat /\ DOMAIN req = 1 .. Len(req)
  BY <1>1, ForgetFacts
<1>3. /\ CloseOnce(req') /\ Orphans(req') = Orphans(Forget(req))
      /\ \A k \in Unclaimed' : k \in Unclaimed \/ Answering(k)
  <2>1. ASSUME NEW err, StopUpload(err, Forget(req))
        PROVE  /\ CloseOnce(req') /\ Orphans(req') = Orphans(Forget(req))
               /\ \A k \in Unclaimed' : k \in Unclaimed \/ Answering(k)
    BY <1>1, <1>2, <2>1, StopLeaks DEF StopUpload
  <2>2. CASE req' = Forget(req) /\ up' = up
    <3>1. CloseOnce(req')
      BY <1>1, <2>2, ForgottenCloses DEF Leaks
    <3>2. \A k : Closing(req', k) <=> Closing(req, k)
      BY <1>1, <2>2, ForgottenFacts
    <3> QED
      BY <1>1, <2>2, <3>1, <3>2 DEF Unclaimed
  <2> QED
    BY <1>1, <2>1, <2>2
       DEF Callback, OnCreateFolderAnswer, OnOpenFileAnswer, OnWriteFileAnswer,
           OnDeleteFolderAnswer, OnDeleteFileAnswer
<1>4. PICK a \in Nat : a = Cardinality(Orphans(req))
  BY <1>1, OrphansFinite DEF Orphans
<1>5. PICK b \in Nat : b = Cardinality(Orphans(req'))
  BY OrphansFinite DEF Orphans, IInv, ServerOK
<1>6. /\ b <= a + 1
      /\ call # "open" \/ (\A i \in 1 .. Len(req) : ~req[i].cb) => b = a
  BY <1>3, <1>4, <1>5, ForgottenOpens
<1>7. CASE call = "open" /\ ans # NoAnswer
  <2>1. faults' = faults + 1
    BY <1>1, <1>7 DEF Lost
  <2>2. \A i \in 1 .. Len(req) : ~req[i].cb
    BY <1>7 DEF IInv, ReqFits
  <2>3. b + faults + 1 <= a + faults'
    BY <1>1, <1>6, <2>1, <2>2
  <2>4. Unclaimed' \subseteq Unclaimed \cup {ans.h}
    BY <1>3 DEF Answering
  <2> QED
    BY <1>3, <1>4, <1>5, <2>3, <2>4, OneMore DEF Leaks
<1>8. CASE ~(call = "open" /\ ans # NoAnswer)
  <2>1. Unclaimed' \subseteq Unclaimed
    BY <1>3, <1>8 DEF Answering
  <2>2. b + faults <= a + faults'
    <3>1. CASE Lost
      BY <1>1, <1>2, <1>6, <3>1 DEF Lost
    <3>2. CASE ~Lost
      BY <1>1, <1>6, <3>2
    <3> QED
      BY <3>1, <3>2
  <2> QED
    BY <1>3, <1>4, <1>5, <2>1, <2>2, NoneMore DEF Leaks
<1> QED
  BY <1>7, <1>8

\* A request that is served or lost leaves the way, its close with it.
LEMMA ServedLeaks ==
    ASSUME IInv, IInv', Leaks, req # <<>>, req' = Tail(req), up' = up, call' = call,
           ans' # NoAnswer => Head(req).cb /\ Head(req).op # "open",
           \A h \in Handle : handles'[h] # Closed => handles[h] # Closed,
           \/ Head(req).op # "close" /\ faults <= faults'
           \/ faults' = faults /\ (Head(req).h \in Handle => handles'[Head(req).h] = Closed)
           \/ faults' = faults + 1
    PROVE  Leaks'
<1>1. CloseOnce(req')
  BY ServedCloses DEF Leaks
<1>2. /\ \A h : Closing(req, h) <=>
            Closing(req', h) \/ (Head(req).op = "close" /\ Head(req).h = h)
      /\ Cardinality(Orphans(req')) <= Cardinality(Orphans(req))
  BY ServedFacts
<1>3. /\ faults \in Nat /\ faults' \in Nat
      /\ Cardinality(Orphans(req)) \in Nat /\ Cardinality(Orphans(req')) \in Nat
  <2>1. faults \in Nat /\ faults' \in Nat /\ req \in Seq(RequestType) /\ req' \in Seq(RequestType)
    BY BoundsAssumption DEF IInv, ServerOK, ClientOK
  <2> QED
    BY <2>1, OrphansFinite DEF Orphans
<1>4. ans = NoAnswer
  BY TailFacts
<1>5. \A h : ~Answering(h)
  BY <1>4 DEF Answering
<1>6. \A h \in Unclaimed' :
        h \in Unclaimed \/ (Head(req).op = "close" /\ h = Head(req).h)
  BY <1>2, <1>5 DEF Unclaimed
<1>7. CASE faults' = faults + 1
  <2>1. Unclaimed' \subseteq Unclaimed \cup {Head(req).h}
    BY <1>6
  <2>2. Cardinality(Orphans(req')) + faults + 1 <= Cardinality(Orphans(req)) + faults'
    BY <1>2, <1>3, <1>7
  <2> QED
    BY <1>1, <2>1, <2>2, OneMore DEF Leaks
<1>8. CASE ~(faults' = faults + 1)
  <2>1. Unclaimed' \subseteq Unclaimed
    BY <1>6, <1>8 DEF Unclaimed
  <2>2. Cardinality(Orphans(req')) + faults <= Cardinality(Orphans(req)) + faults'
    BY <1>2, <1>3, <1>8
  <2> QED
    BY <1>1, <2>1, <2>2, NoneMore DEF Leaks
<1> QED
  BY <1>7, <1>8

\* No answer is the empty one.
LEMMA NoReply ==
    ASSUME NEW ok, NEW h
    PROVE  [ok |-> ok, h |-> h] # NoAnswer
<1>1. "ok" \in DOMAIN [ok |-> ok, h |-> h]
  OBVIOUS
<1>2. "ok" \notin DOMAIN NoAnswer
  BY DEF NoAnswer
<1> QED
  BY <1>1, <1>2

\* The server opens a file: for the call, or for nobody, and then a request that
\* was an orphan is gone.
LEMMA OpenLeaks ==
    ASSUME IInv, IInv', Leaks, OnOpenFile
    PROVE  Leaks'
<1>1. /\ req # <<>> /\ Head(req).op = "open" /\ faults' = faults /\ up' = up /\ call' = call
  BY DEF OnOpenFile, Arrived, clientVars
<1>2. PICK ok \in BOOLEAN, h \in Handle \cup {NoHandle} :
        /\ Reply(ok, h)
        /\ ok => h \in Handle /\ handles' = [handles EXCEPT ![h] = <<cwd, Head(req).path>>]
        /\ ~ok => handles' = handles
  BY OpenFacts
<1>3. /\ req' = Tail(req)
      /\ ans' = IF Head(req).cb THEN [ok |-> ok, h |-> h] ELSE ans
  BY <1>2 DEF Reply
<1>4. CloseOnce(req')
  BY <1>1, <1>3, ServedCloses DEF Leaks
<1>5. /\ \A k : Closing(req, k) <=> Closing(req', k)
      /\ Cardinality(Orphans(req')) <= Cardinality(Orphans(req))
      /\ ~Head(req).cb => Cardinality(Orphans(req')) + 1 <= Cardinality(Orphans(req))
  BY <1>1, <1>3, ServedFacts
<1>6. /\ faults \in Nat
      /\ Cardinality(Orphans(req)) \in Nat /\ Cardinality(Orphans(req')) \in Nat
  <2>1. faults \in Nat /\ req \in Seq(RequestType) /\ req' \in Seq(RequestType)
    BY BoundsAssumption DEF IInv, ServerOK, ClientOK
  <2> QED
    BY <2>1, OrphansFinite DEF Orphans
<1>7. ans = NoAnswer
  BY <1>1, <1>3, TailFacts
<1>8. \A k \in Unclaimed' : k \in Unclaimed \/ (ok /\ k = h)
  <2> SUFFICES ASSUME NEW k \in Handle, handles'[k] # Closed, k # up.handle,
                      ~Closing(req', k), ~(ok /\ k = h)
               PROVE  k \in Unclaimed
    BY <1>1 DEF Unclaimed
  <2>1. handles[k] # Closed
    BY <1>2 DEF IInv, ServerOK
  <2>2. ~Answering(k)
    BY <1>7 DEF Answering
  <2> QED
    BY <1>5, <2>1, <2>2 DEF Unclaimed
<1>9. CASE Head(req).cb
  <2>1. call = "open"
    BY <1>1, <1>3, <1>9, TailFacts
  <2>2. ans' = [ok |-> ok, h |-> h]
    BY <1>3, <1>9
  <2>3. ans' # NoAnswer /\ ans'.ok = ok /\ ans'.h = h
    <3>1. ans' # NoAnswer => ans'.ok = ok /\ ans'.h = h
      BY <2>2
    <3>2. ans' # NoAnswer
      BY <2>2, NoReply
    <3> QED
      BY <3>1, <3>2
  <2>4. ok => Answering(h)'
    BY <1>1, <2>1, <2>3 DEF Answering
  <2>5. Unclaimed' \subseteq Unclaimed
    BY <1>8, <2>4 DEF Unclaimed
  <2>6. Cardinality(Orphans(req')) + faults <= Cardinality(Orphans(req)) + faults'
    BY <1>1, <1>5, <1>6
  <2> QED
    BY <1>4, <2>5, <2>6, NoneMore DEF Leaks
<1>10. CASE ~Head(req).cb
  <2>1. Unclaimed' \subseteq Unclaimed \cup {h}
    BY <1>8
  <2>2. Cardinality(Orphans(req')) + faults + 1 <= Cardinality(Orphans(req)) + faults'
    BY <1>1, <1>5, <1>6, <1>10
  <2> QED
    BY <1>4, <2>1, <2>2, OneMore DEF Leaks
<1> QED
  BY <1>9, <1>10

\* The other handlers open nothing, and the one that closes closes.
LEMMA ServeLeaks ==
    ASSUME IInv, IInv', Leaks, Serve
    PROVE  Leaks'
<1>1. CASE OnOpenFile
  BY <1>1, OpenLeaks
<1>2. ASSUME req # <<>>, Head(req).op # "open", up' = up, call' = call, faults' = faults,
             \E ok, h : Reply(ok, h),
             \A h \in Handle : handles'[h] # Closed => handles[h] # Closed,
             Head(req).op = "close" /\ Head(req).h \in Handle => handles'[Head(req).h] = Closed
      PROVE  Leaks'
  <2>1. req' = Tail(req) /\ (ans' # NoAnswer => Head(req).cb)
    <3>1. req' = Tail(req)
      BY <1>2 DEF Reply
    <3>2. ans = NoAnswer
      BY <1>2, <3>1, TailFacts
    <3>3. ~Head(req).cb => ans' = ans
      BY <1>2 DEF Reply
    <3> QED
      BY <3>1, <3>2, <3>3
  <2>2. faults \in Nat /\ faults <= faults'
    BY <1>2, BoundsAssumption DEF IInv, ClientOK
  <2> QED
    BY <1>2, <2>1, <2>2, ServedLeaks
<1>3. CASE OnCreateFolder
  BY <1>2, <1>3 DEF OnCreateFolder, Arrived, clientVars
<1>4. CASE OnWriteFile
  <2>1. \E ok, h : Reply(ok, h)
    BY <1>4 DEF OnWriteFile
  <2>2. /\ req # <<>> /\ Head(req).op = "write" /\ up' = up /\ call' = call
        /\ faults' = faults /\ handles' = handles
    BY <1>4 DEF OnWriteFile, Arrived, clientVars
  <2> QED
    BY <1>2, <2>1, <2>2
<1>5. CASE OnDeleteFolder
  <2>1. \E ok, h : Reply(ok, h)
    BY <1>5 DEF OnDeleteFolder
  <2>2. /\ req # <<>> /\ Head(req).op = "rmdir" /\ up' = up /\ call' = call
        /\ faults' = faults /\ handles' = handles
    BY <1>5 DEF OnDeleteFolder, Arrived, clientVars
  <2> QED
    BY <1>2, <2>1, <2>2
<1>6. CASE OnDeleteFile
  <2>1. /\ req # <<>> /\ Head(req).op = "rm" /\ up' = up /\ call' = call /\ faults' = faults
        /\ Reply(TRUE, NoHandle)
        /\ handles' = [h \in Handle |->
                         IF handles[h] = Here(Head(req).path) THEN Unlinked ELSE handles[h]]
    BY <1>6 DEF OnDeleteFile, Arrived, clientVars
  <2>2. Here(Head(req).path) # Closed
    <3>1. req' = Tail(req)
      BY <2>1 DEF Reply
    <3>2. Head(req) = req[1] /\ 1 \in 1 .. Len(req)
      BY <2>1, <3>1, TailFacts
    <3>3. Head(req).path \in Files
      BY <2>1, <3>2 DEF IInv, ReqFits
    <3>4. Here(Head(req).path) \in Name
      BY <3>3, ConstantFacts DEF Here, Name, IInv, ServerOK
    <3> QED
      BY <3>4, ConstantFacts
  <2>3. \A h \in Handle : handles'[h] # Closed => handles[h] # Closed
    BY <2>1, <2>2
  <2> QED
    BY <1>2, <2>1, <2>3
<1>7. CASE OnCloseFile
  <2>1. /\ req # <<>> /\ Head(req).op = "close" /\ up' = up /\ call' = call /\ faults' = faults
        /\ Reply(TRUE, NoHandle)
        /\ handles' = IF IsOpen(Head(req).h) THEN [handles EXCEPT ![Head(req).h] = Closed]
                                             ELSE handles
    BY <1>7 DEF OnCloseFile, Arrived, clientVars
  <2>2. handles \in [Handle -> (Dir \X Files) \cup {Closed, Unlinked}]
    BY DEF IInv, ServerOK
  <2>3. /\ \A h \in Handle : handles'[h] # Closed => handles[h] # Closed
        /\ Head(req).h \in Handle => handles'[Head(req).h] = Closed
    BY <2>1, <2>2 DEF IsOpen
  <2> QED
    BY <1>2, <2>1, <2>3
<1>8. CASE OnChangeCurrentDirectory
  <2>1. \E ok, h : Reply(ok, h)
    BY <1>8 DEF OnChangeCurrentDirectory
  <2>2. /\ req # <<>> /\ Head(req).op = "cd" /\ up' = up /\ call' = call
        /\ faults' = faults /\ handles' = handles
    BY <1>8 DEF OnChangeCurrentDirectory, Arrived, clientVars
  <2> QED
    BY <1>2, <2>1, <2>2
<1> QED
  BY <1>1, <1>3, <1>4, <1>5, <1>6, <1>7, <1>8 DEF Serve

\* A fault that loses a request, an answer or the session.
LEMMA LossLeaks ==
    ASSUME IInv, IInv', Leaks, LoseRequest \/ LoseAnswer \/ ServerRestart
    PROVE  Leaks'
<1>1. /\ faults' = faults + 1 /\ faults \in Nat /\ req \in Seq(RequestType)
      /\ up' = up /\ call' = call
  BY BoundsAssumption DEF LoseRequest, LoseAnswer, ServerRestart, NewSession, Fault, clientVars,
     IInv, ClientOK, ServerOK
<1>2. CASE LoseRequest
  <2>1. req # <<>> /\ req' = Tail(req) /\ ans' = ans /\ handles' = handles
    BY <1>2 DEF LoseRequest, serverVars
  <2>2. ans' = NoAnswer
    BY <2>1, TailFacts
  <2> QED
    BY <1>1, <2>1, <2>2, ServedLeaks
<1>3. CASE LoseAnswer
  <2>1. ans # NoAnswer /\ ans' = NoAnswer /\ req' = req /\ handles' = handles
    BY <1>3 DEF LoseAnswer, serverVars
  <2>2. Unclaimed' \subseteq Unclaimed \cup {ans.h}
    BY <1>1, <2>1 DEF Unclaimed, Answering, Closing
  <2>3. Cardinality(Orphans(req)) \in Nat
    BY <1>1, OrphansFinite DEF Orphans
  <2>4. Cardinality(Orphans(req')) + faults + 1 <= Cardinality(Orphans(req)) + faults'
    BY <1>1, <2>1, <2>3
  <2> QED
    BY <2>1, <2>2, <2>4, OneMore DEF Leaks
<1>4. CASE ServerRestart
  <2>1. req' = req /\ ans' = ans /\ handles' = [h \in Handle |-> Closed]
    BY <1>4 DEF ServerRestart, NewSession
  <2>2. \A h \in Handle : Answering(h) => Answering(h)'
    BY <1>1, <2>1 DEF Answering
  <2> QED
    BY <1>1, <2>1, <2>2, StillLeaks
<1> QED
  BY <1>2, <1>3, <1>4

\* A session that expires takes its files with it.
LEMMA ExpiryLeaks ==
    ASSUME IInv, IInv', Leaks, OnAutoClearSession
    PROVE  Leaks'
<1>1. /\ req' = req /\ ans' = ans /\ up' = up /\ call' = call
      /\ handles' = [h \in Handle |-> Closed] /\ faults \in Nat
      /\ faults' = faults \/ faults' = faults + 1
  BY BoundsAssumption DEF OnAutoClearSession, NewSession, clientVars, IInv, ClientOK
<1>2. \A h \in Handle : Answering(h) => Answering(h)'
  BY <1>1 DEF Answering
<1> QED
  BY <1>1, <1>2, StillLeaks

\* A client that crashes leaves one handle more at most: its upload's, the one
\* of an answer or of an open on the way, or that of a close it has not sent.
LEMMA CrashLeaks ==
    ASSUME IInv, IInv', Leaks, ClientCrash
    PROVE  Leaks'
<1>1. /\ faults' = faults + 1 /\ faults \in Nat
      /\ up' = NoUpload /\ up'.handle = NoHandle /\ call' = NoCall /\ ans' = NoAnswer
      /\ handles' = handles
  BY BoundsAssumption DEF ClientCrash, Fault, serverVars, NoUpload, IInv, ClientOK
<1>2. PICK n \in 0 .. Len(req) : req' = Forget(SubSeq(req, 1, n))
  BY DEF ClientCrash
<1>3. PICK q : q = SubSeq(req, 1, n)
  OBVIOUS
<1>4. req \in Seq(RequestType) /\ Len(req) \in Nat
  BY DEF IInv, ServerOK
<1>5. /\ q \in Seq(RequestType) /\ Len(q) = n /\ \A k \in 1 .. n : q[k] = req[k]
  BY <1>3, <1>4, PrefixFacts
<1>6. \A k \in 1 .. n : k \in 1 .. Len(req)
  BY <1>2, <1>4
<1>7. req' = Forget(q)
  BY <1>2, <1>3
<1>8. PICK O : O = Orphans(req')
  OBVIOUS
<1>9. /\ O = {i \in 1 .. n : req[i].op = "open"}
      /\ \A h : Closing(req', h) <=> \E i \in 1 .. n : req[i].op = "close" /\ req[i].h = h
  <2>1. /\ \A h : Closing(req', h) <=> Closing(q, h)
        /\ O = {i \in 1 .. Len(q) : q[i].op = "open"}
    BY <1>5, <1>7, <1>8, ForgottenFacts
  <2>2. O = {i \in 1 .. n : req[i].op = "open"}
    BY <1>5, <2>1
  <2>3. \A h : Closing(q, h) <=> \E i \in 1 .. n : req[i].op = "close" /\ req[i].h = h
    BY <1>5 DEF Closing
  <2> QED
    BY <2>1, <2>2, <2>3
<1>10. CloseOnce(req')
  <2>1. CloseOnce(q)
    BY <1>5, <1>6 DEF Leaks, CloseOnce
  <2> QED
    BY <1>5, <1>7, <2>1, ForgottenCloses
<1>11. PICK A : A = Orphans(req)
  OBVIOUS
<1>12. PICK a \in Nat : a = Cardinality(A)
  BY <1>4, <1>11, OrphansFinite DEF Orphans
<1>13. PICK b \in Nat : b = Cardinality(O)
  BY <1>8, OrphansFinite DEF Orphans, IInv, ServerOK
<1>14. O \subseteq A => b <= a
  <2>1. IsFiniteSet(A)
    BY <1>4, <1>11, OrphansFinite DEF Orphans
  <2> QED
    BY <1>12, <1>13, <2>1, FS_Subset
<1>15. b <= a + 1
  <2>1. PICK F : F = Orphans(Forget(req)) /\ F = {i \in 1 .. Len(req) : req[i].op = "open"}
    BY <1>4, ForgottenFacts
  <2>2. Cardinality(F) <= a + 1
    BY <1>11, <1>12, <2>1, ForgottenOpens
  <2>3. O \subseteq F
    BY <1>6, <1>9, <2>1
  <2>4. F \in SUBSET (1 .. Len(req))
    BY <2>1
  <2>5. IsFiniteSet(F) /\ Cardinality(F) \in Nat
    BY <1>4, <2>4, OrphansFinite
  <2>6. b <= Cardinality(F)
    BY <1>13, <2>3, <2>5, FS_Subset
  <2> QED
    BY <1>12, <2>2, <2>5, <2>6
<1>16. call # "open" => O \subseteq A
  BY <1>6, <1>9, <1>11 DEF Orphans, IInv, ReqFits
\* No handle is dropped: what is more are orphans.
<1>17. ASSUME Unclaimed' \subseteq Unclaimed
       PROVE  Leaks'
  <2>1. b + faults <= a + faults'
    BY <1>1, <1>12, <1>13, <1>15
  <2> QED
    BY <1>8, <1>10, <1>11, <1>12, <1>13, <1>17, <2>1, NoneMore DEF Leaks
\* One is dropped, and there is no new orphan.
<1>18. ASSUME NEW x, Unclaimed' \subseteq Unclaimed \cup {x}, O \subseteq A
       PROVE  Leaks'
  <2>1. b + faults + 1 <= a + faults'
    BY <1>1, <1>12, <1>13, <1>14, <1>18
  <2> QED
    BY <1>8, <1>10, <1>11, <1>12, <1>13, <1>18, <2>1, OneMore DEF Leaks
\* Whose handles they were.
<1>19. ASSUME NEW h \in Unclaimed', h \notin Unclaimed
       PROVE  \/ h = up.handle
              \/ Answering(h)
              \/ \E i \in 1 .. Len(req) : /\ req[i].op = "close" /\ req[i].h = h
                                          /\ i \notin 1 .. n
  <2>1. h \in Handle /\ handles[h] # Closed /\ ~Closing(req', h)
    BY <1>1 DEF Unclaimed
  <2>2. h = up.handle \/ Closing(req, h) \/ Answering(h)
    BY <1>19, <2>1 DEF Unclaimed
  <2> QED
    BY <1>9, <2>1, <2>2 DEF Closing
<1>20. CASE up.handle # NoHandle
  <2>1. \A i \in 1 .. Len(req) : req[i].op # "close"
    BY <1>20, NoneClosing
  <2>2. call # "open"
    BY <1>20 DEF IInv, CallFits
  <2>3. \A h : ~Answering(h)
    BY <2>2 DEF Answering
  <2>4. Unclaimed' \subseteq Unclaimed \cup {up.handle}
    BY <1>19, <2>1, <2>3
  <2> QED
    BY <1>16, <1>18, <2>2, <2>4
<1>21. CASE up.handle = NoHandle /\ ans # NoAnswer
  <2>1. req = <<>> /\ Len(req) = 0
    BY <1>21 DEF IInv, ReqFits
  <2>2. \A h \in Handle : h # up.handle
    BY <1>21, ConstantFacts
  <2>3. Unclaimed' \subseteq Unclaimed \cup {ans.h}
    BY <1>19, <2>1, <2>2 DEF Unclaimed, Answering
  <2>4. O \subseteq A
    BY <1>6, <1>9, <2>1
  <2> QED
    BY <1>18, <2>3, <2>4
<1>22. CASE up.handle = NoHandle /\ ans = NoAnswer
  <2>1. \A h \in Handle : h # up.handle /\ ~Answering(h)
    BY <1>22, ConstantFacts DEF Answering
  <2>2. ASSUME NEW h \in Unclaimed', h \notin Unclaimed
        PROVE  h \in Handle /\ \E i \in 1 .. Len(req) :
                  req[i].op = "close" /\ req[i].h = h /\ i \notin 1 .. n
    <3>1. h \in Handle
      BY DEF Unclaimed
    <3> QED
      BY <1>19, <2>1, <2>2, <3>1
  <2>3. CASE n = Len(req)
    BY <1>17, <2>2, <2>3
  <2>4. CASE n # Len(req) /\ ~(Unclaimed' \subseteq Unclaimed)
    <3>1. PICK x \in Unclaimed' : x \notin Unclaimed
      BY <2>4
    <3>2. PICK i \in 1 .. Len(req) : req[i].op = "close" /\ req[i].h = x /\ i \notin 1 .. n
      BY <2>2, <3>1
    <3>3. x \in Handle /\ x # NoHandle
      BY <2>2, <3>1, ConstantFacts
    <3>4. ASSUME NEW h \in Unclaimed', h \notin Unclaimed
          PROVE  h = x
      <4>1. PICK j \in 1 .. Len(req) : req[j].op = "close" /\ req[j].h = h
        BY <2>2, <3>4
      <4>2. h # NoHandle
        BY <2>2, <3>4, ConstantFacts
      <4>3. i = j
        BY <3>2, <3>3, <4>1, <4>2 DEF Leaks, CloseOnce
      <4> QED
        BY <3>2, <4>1, <4>3
    <3>5. Unclaimed' \subseteq Unclaimed \cup {x}
      BY <3>4
    <3>6. O \subseteq A
      <4>1. Len(req) \notin 1 .. n
        BY <1>2, <1>4, <2>4
      <4>2. \A k \in 1 .. n : k \in 1 .. Len(req) /\ k # Len(req)
        BY <1>6, <4>1
      <4>3. \A k \in 1 .. Len(req) : k # Len(req) => ~req[k].cb
        BY DEF IInv, ReqFits
      <4> QED
        BY <1>9, <1>11, <4>2, <4>3 DEF Orphans
    <3> QED
      BY <1>18, <3>5, <3>6
  <2> QED
    BY <1>17, <2>3, <2>4
<1> QED
  BY <1>20, <1>21, <1>22

\* The user opens nothing on the server.
LEMMA UserLeaks ==
    ASSUME IInv, IInv', Leaks, User
    PROVE  Leaks'
<1>1. /\ ans' = ans /\ call' = call /\ handles' = handles /\ faults' = faults
      /\ req' = req \/ ChangeDirectory
  BY DEF User, Start, ResetLocalFolder, ChangeDirectory, EditFile, PutBack, WriteFile,
         MakeFolder, RemovePath, clientVars, serverVars
<1>2. up'.handle = up.handle
  <2>1. ASSUME NEW p, NEW v, WriteFile(p, v)
        PROVE  up'.handle = up.handle
    <3>1. up \in UpType
      BY DEF IInv, ClientOK
    <3>2. up' = up \/ up' = [up EXCEPT !.src = v]
      BY <2>1 DEF WriteFile
    <3> QED
      BY <3>1, <3>2 DEF UpType
  <2> QED
    BY <2>1 DEF User, Start, ResetLocalFolder, ChangeDirectory, EditFile, PutBack, MakeFolder,
                RemovePath, clientVars
<1>3. \A h \in Handle : Answering(h) => Answering(h)'
  BY <1>1 DEF Answering
<1>4. /\ faults \in Nat /\ faults <= faults' /\ req \in Seq(RequestType)
      /\ Cardinality(Orphans(req)) \in Nat
  <2>1. faults \in Nat /\ faults <= faults' /\ req \in Seq(RequestType)
    BY <1>1, BoundsAssumption DEF IInv, ClientOK, ServerOK
  <2> QED
    BY <2>1, OrphansFinite DEF Orphans
<1>5. CASE req' = req
  BY <1>1, <1>2, <1>3, <1>4, <1>5, StillLeaks
<1>6. CASE ChangeDirectory
  <2>1. PICK r \in RequestType : req' = Append(req, r) /\ r.op = "cd"
    <3>1. /\ Request("cd", Root, NoHandle, 0, 0, FALSE) \in RequestType
          /\ Request("cd", Root, NoHandle, 0, 0, FALSE).op = "cd"
      BY ConstantFacts DEF Request, RequestType, Ops
    <3> QED
      BY <1>6, <3>1 DEF ChangeDirectory
  <2>2. /\ Orphans(req') = Orphans(req)
        /\ \A k : Closing(req', k) <=> Closing(req, k)
    BY <1>4, <2>1, SentFacts
  <2>3. CloseOnce(req')
    BY <1>4, <2>1, SentCloses DEF Leaks
  <2>4. Unclaimed' \subseteq Unclaimed
    BY <1>1, <1>2, <1>3, <2>2 DEF Unclaimed
  <2>5. Charged'
    BY <1>1, <1>4, <2>2, <2>4, NoneMore DEF Leaks
  <2> QED
    BY <2>3, <2>5 DEF Leaks
<1> QED
  BY <1>1, <1>5, <1>6

\* The balance is kept by every step.
LEMMA NextLeaks == IInv /\ Leaks /\ [Next]_vars => Leaks'
<1> SUFFICES ASSUME IInv, Leaks, [Next]_vars
             PROVE  Leaks'
  OBVIOUS
<1>1. IInv'
  BY NextIInv
<1>2. CASE UNCHANGED vars
  <2>1. /\ up' = up /\ call' = call /\ req' = req /\ ans' = ans
        /\ handles' = handles /\ faults' = faults
    BY <1>2 DEF vars, clientVars, serverVars
  <2>2. \A h \in Handle : Answering(h) => Answering(h)'
    BY <2>1 DEF Answering
  <2>3. faults <= faults'
    BY <2>1, BoundsAssumption DEF IInv, ClientOK
  <2> QED
    BY <1>1, <2>1, <2>2, <2>3, StillLeaks
<1> QED
  BY <1>1, <1>2, ClientLeaks, AnswerLeaks, TimeoutLeaks, ServeLeaks, LossLeaks, ExpiryLeaks,
     CrashLeaks, UserLeaks DEF Next, Faults

\* At first the server has nothing open.
LEMMA InitLeaks == Init => Leaks
<1> SUFFICES ASSUME Init
             PROVE  Leaks
  OBVIOUS
<1>1. /\ \A h \in Handle : handles[h] = Closed
      /\ req = <<>> /\ Len(req) = 0 /\ faults = 0
  BY DEF Init
<1>2. \A i : i \notin 1 .. Len(req)
  BY <1>1
<1>3. Unclaimed = {} /\ Orphans(req) = {}
  BY <1>1, <1>2 DEF Unclaimed, Orphans
<1>4. Cardinality({}) = 0
  BY FS_EmptySet
<1>5. Cardinality(Unclaimed) + Cardinality(Orphans(req)) <= faults
  BY <1>1, <1>3, <1>4
<1>6. CloseOnce(req)
  BY <1>2 DEF CloseOnce
<1> QED
  BY <1>5, <1>6 DEF Leaks, Charged

\* What the server keeps open for nobody was opened by a call that timed out or
\* lost its answer, or its close was lost: there is no more of it than faults.
THEOREM LeaksCounted == Spec => []LeaksAreFaults
<1>1. Spec => [](IInv /\ Leaks)
  BY InitIInv, InitLeaks, NextIInv, NextLeaks, PTL DEF Spec
<1>2. IInv /\ Leaks => LeaksAreFaults
  <2> SUFFICES ASSUME IInv, Leaks
               PROVE  LeaksAreFaults
    OBVIOUS
  <2>1. PICK S : S = {h \in Handle : IsOpen(h) /\ h # up.handle /\ h \notin ClosesPending}
    OBVIOUS
  <2>2. PICK U : U = Unclaimed
    OBVIOUS
  <2>3. req \in Seq(RequestType) /\ faults \in Nat /\ DOMAIN req = 1 .. Len(req)
    BY BoundsAssumption DEF IInv, ServerOK, ClientOK
  <2>4. \A h : Closing(req, h) <=> h \in ClosesPending
    BY <2>3 DEF Closing, ClosesPending
  <2>5. ASSUME NEW h \in S
        PROVE  h \in U \/ (call = "open" /\ ans # NoAnswer /\ h = ans.h)
    BY <2>1, <2>2, <2>4 DEF Unclaimed, Answering, IsOpen
  <2>6. U \in SUBSET Handle
    BY <2>2 DEF Unclaimed
  <2>7. IsFiniteSet(U) /\ Cardinality(U) \in Nat /\ Cardinality(U) <= faults
    <3>1. IsFiniteSet(U) /\ Cardinality(U) \in Nat
      BY <2>6, HandlesFinite
    <3>2. Cardinality(Orphans(req)) \in Nat
      BY <2>3, OrphansFinite DEF Orphans
    <3> QED
      BY <2>2, <2>3, <3>1, <3>2 DEF Leaks, Charged
  <2>8. S \in SUBSET Handle
    BY <2>1
  <2>9. Cardinality(S) \in Nat
    BY <2>8, HandlesFinite
  <2>10. CASE call = "open" /\ ans # NoAnswer
    <3>1. PICK V : V = U \cup {ans.h}
      OBVIOUS
    <3>2. IsFiniteSet(V) /\ (Cardinality(V) = Cardinality(U) \/ Cardinality(V) = Cardinality(U) + 1)
      BY <2>7, <3>1, FS_AddElement
    <3>3. S \subseteq V
      BY <2>5, <3>1
    <3>4. Cardinality(S) <= Cardinality(V)
      BY <3>2, <3>3, FS_Subset
    <3>5. Cardinality(S) <= faults + 1
      BY <2>3, <2>7, <2>9, <3>2, <3>4
    <3> QED
      BY <2>1, <2>10, <3>5 DEF LeaksAreFaults
  <2>11. CASE ~(call = "open" /\ ans # NoAnswer)
    <3>1. S \subseteq U
      BY <2>5, <2>11
    <3>2. Cardinality(S) <= Cardinality(U)
      BY <2>7, <3>1, FS_Subset
    <3>3. Cardinality(S) <= faults + 0
      BY <2>3, <2>7, <2>9, <3>2
    <3> QED
      BY <2>1, <2>11, <3>3 DEF LeaksAreFaults
  <2> QED
    BY <2>10, <2>11
<1> QED
  BY <1>1, <1>2, PTL

=============================================================================
