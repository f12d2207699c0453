------------------------------ MODULE TaskMgr ------------------------------
(***************************************************************************)
(* CTaskMgr and CTask (common/taskmgr.cpp): the cooperative scheduler every *)
(* other part of the program runs on.  One thread calls Schedule() in a     *)
(* loop; a pass first destroys the dead tasks (only when no other pass is   *)
(* in progress), then visits the tasks present when the pass began and      *)
(* calls Run() on those that are running and not sleeping.  Run() is user   *)
(* code: it may create, quit, suspend, resume and put to sleep any task,    *)
(* and it may enter Schedule() again.                                       *)
(*                                                                         *)
(* A task is represented by its id.  Ids are never reused: the model stops  *)
(* at MaxId, as the program has allocated fewer than 2^31 ids.  Times are   *)
(* abstracted to "this visit ends the sleep, or it does not".               *)
(***************************************************************************)
EXTENDS Integers, Sequences, SequencesExt

CONSTANTS
    Size,       \* capacity of CTaskMgr::index (1024 in globals.cpp)
    MaxId,      \* bound: the largest id the model allocates
    MaxNested   \* bound: how deep Schedule() may be re-entered

ASSUME SizeAssumption == Size \in Nat \ {0}
ASSUME MaxIdAssumption == MaxId \in Nat \ {0}
ASSUME MaxNestedAssumption == MaxNested \in Nat \ {0}

Ids == 1 .. MaxId

VARIABLES
    index,      \* the task array, index[0..top) in the code
    uniqueId,   \* _unique_id, the last id handed out
    deleted,    \* tasks with TASK_IS_DELETED
    running,    \* tasks with TASK_IS_RUNNING
    sleeping,   \* tasks with TASK_IS_SLEEPING
    parent,     \* mParent of each task, 0 for NULL
    freed,      \* tasks whose object has been destroyed
    cursor,     \* CheckDelete: slots 1..cursor are still to be checked
    stack       \* the Schedule() passes in progress, the innermost last

vars == <<index, uniqueId, deleted, running, sleeping, parent, freed,
          cursor, stack>>

NoCheck == -1   \* value of cursor outside CheckDelete

\* One Schedule() in progress: pos tasks visited out of the len that were
\* there when it began; run is the task inside Run(), 0 when there is none.
Frame == [pos : Nat, len : Nat, run : Ids \cup {0}]

Elems == {index[i] : i \in 1 .. Len(index)}

----------------------------------------------------------------------------
\* Mutant of IsDead: a child does not look at its parent.
IsDeadIgnoringParent(t) == t \in deleted

\* CTask::IsDead and CTask::IsParentDead.  Parents are connection tasks,
\* which have no parent themselves (InitTask), so one level is enough.
IsDead(t) ==
    \/ t \in deleted
    \/ parent[t] # 0 /\ parent[t] \in deleted

IsRunning(t) == ~IsDead(t) /\ t \in running

\* Code outside the scheduler is executing: a Run() body, or the program
\* between two passes of the main loop.
Top == stack[Len(stack)]
UserCode ==
    /\ cursor = NoCheck
    /\ stack # <<>> => Top.run # 0

Init ==
    /\ index = <<>>
    /\ uniqueId = 1
    /\ deleted = {}
    /\ running = {}
    /\ sleeping = {}
    /\ parent = [t \in Ids |-> 0]
    /\ freed = {}
    /\ cursor = NoCheck
    /\ stack = <<>>

----------------------------------------------------------------------------
\* What user code does to tasks.

\* Mutant of CanAdd: Push does not look at IsFull.
CanAddUnbounded(t) == \A i \in 1 .. Len(index) : index[i] < t

\* CTaskMgr::AddTask refuses a task when the array is full or when its id is
\* not above the last one; the caller, CTask::Init, ignores the refusal.
CanAdd(t) == Len(index) < Size /\ \A i \in 1 .. Len(index) : index[i] < t

\* CTask::Init, then SetParentTask(p) when p is not 0: links make their
\* readers and writers children of themselves.
InitTask(p) ==
    /\ UserCode
    /\ uniqueId < MaxId
    /\ p # 0 => parent[p] = 0
    /\ uniqueId' = uniqueId + 1
    /\ index' = IF CanAdd(uniqueId + 1) THEN Append(index, uniqueId + 1)
                                        ELSE index
    /\ parent' = [parent EXCEPT ![uniqueId + 1] = p]
    /\ UNCHANGED <<deleted, running, sleeping, freed, cursor, stack>>

Quit(t) ==
    /\ UserCode
    /\ deleted' = deleted \cup {t}
    /\ UNCHANGED <<index, uniqueId, running, sleeping, parent, freed, cursor,
                   stack>>

Suspend(t) ==
    /\ UserCode
    /\ running' = running \ {t}
    /\ UNCHANGED <<index, uniqueId, deleted, sleeping, parent, freed, cursor,
                   stack>>

Resume(t) ==
    /\ UserCode
    /\ running' = running \cup {t}
    /\ UNCHANGED <<index, uniqueId, deleted, sleeping, parent, freed, cursor,
                   stack>>

Sleep(t) ==
    /\ UserCode
    /\ sleeping' = sleeping \cup {t}
    /\ UNCHANGED <<index, uniqueId, deleted, running, parent, freed, cursor,
                   stack>>

CancelSleep(t) ==
    /\ UserCode
    /\ sleeping' = sleeping \ {t}
    /\ UNCHANGED <<index, uniqueId, deleted, running, parent, freed, cursor,
                   stack>>

----------------------------------------------------------------------------
\* Schedule().

\* Mutant of PushFrame: the snapshot of the length misses the last task.
PushFrameOffByOne ==
    stack' = Append(stack, [pos |-> 0, run |-> 0,
                            len |-> IF index = <<>> THEN 0 ELSE Len(index) - 1])

\* nested ++ and the snapshot of the length.
PushFrame ==
    stack' = Append(stack, [pos |-> 0, len |-> Len(index), run |-> 0])

\* Schedule() with nested = 0: CheckDelete begins at the tail of the array.
BeginSchedule ==
    /\ stack = <<>>
    /\ cursor = NoCheck
    /\ cursor' = Len(index)
    /\ UNCHANGED <<index, uniqueId, deleted, running, sleeping, parent, freed,
                   stack>>

\* Mutant of DelElem: the last task takes the place of the removed one.
DelElemBySwap(i) == SubSeq([index EXCEPT ![i] = index[Len(index)]], 1, Len(index) - 1)

\* CTaskMgr::DelElem: the tasks behind slot i move down one slot.
DelElem(i) == RemoveAt(index, i)

\* Mutant of NestedSchedule: a nested pass destroys dead tasks too.
NestedScheduleDeleting ==
    /\ stack # <<>>
    /\ UserCode
    /\ \E i \in 1 .. Len(index) :
        /\ IsDead(index[i])
        /\ index' = DelElem(i)
        /\ freed' = freed \cup {index[i]}
    /\ UNCHANGED <<uniqueId, deleted, running, sleeping, parent, cursor, stack>>

\* Schedule() called from a Run(): nested > 0, so nothing is deleted.
NestedSchedule ==
    /\ stack # <<>>
    /\ UserCode
    /\ Len(stack) < MaxNested
    /\ PushFrame
    /\ UNCHANGED <<index, uniqueId, deleted, running, sleeping, parent, freed,
                   cursor>>

\* Mutant of OwnedBy: a destructor that quits tasks it did not create.
OwnedByAnyone(t) == Elems

\* The tasks a destructor may quit: those the task created, which have
\* larger ids (a link quits its reader and writer, a client its connector).
OwnedBy(t) == {u \in Elems : u > t}

\* One iteration of the loop of CheckDelete, from tail to head.
CheckDelete ==
    /\ cursor > 0
    /\ cursor' = cursor - 1
    /\ LET t == index[cursor] IN
       IF IsDead(t)
       THEN /\ index' = DelElem(cursor)
            /\ freed' = freed \cup {t}
            /\ \E Q \in SUBSET OwnedBy(t) : deleted' = deleted \cup Q
       ELSE UNCHANGED <<index, freed, deleted>>
    /\ UNCHANGED <<uniqueId, running, sleeping, parent, stack>>

\* The loop of CheckDelete is over: the pass proper begins.
BeginPass ==
    /\ cursor = 0
    /\ cursor' = NoCheck
    /\ PushFrame
    /\ UNCHANGED <<index, uniqueId, deleted, running, sleeping, parent, freed>>

\* One iteration of the loop of Schedule: skip the task, let time pass on its
\* sleep (the visit that ends a sleep does not run the task yet), or call Run.
Visit ==
    /\ stack # <<>>
    /\ Top.run = 0
    /\ Top.pos < Top.len
    /\ LET t == index[Top.pos + 1]
           Goto(r) == stack' = [stack EXCEPT ![Len(stack)] =
                          [pos |-> Top.pos + 1, len |-> Top.len, run |-> r]]
       IN \/ /\ ~IsRunning(t)
             /\ Goto(0)
             /\ UNCHANGED sleeping
          \/ /\ IsRunning(t) /\ t \in sleeping
             /\ Goto(0)
             /\ sleeping' \in {sleeping, sleeping \ {t}}
          \/ /\ IsRunning(t) /\ t \notin sleeping
             /\ Goto(t)
             /\ UNCHANGED sleeping
    /\ UNCHANGED <<index, uniqueId, deleted, running, parent, freed, cursor>>

\* Run() returns.
EndRun ==
    /\ stack # <<>>
    /\ Top.run # 0
    /\ stack' = [stack EXCEPT ![Len(stack)] =
                    [pos |-> Top.pos, len |-> Top.len, run |-> 0]]
    /\ UNCHANGED <<index, uniqueId, deleted, running, sleeping, parent, freed,
                   cursor>>

\* Schedule() returns.
EndPass ==
    /\ stack # <<>>
    /\ Top.run = 0
    /\ Top.pos = Top.len
    /\ stack' = SubSeq(stack, 1, Len(stack) - 1)
    /\ UNCHANGED <<index, uniqueId, deleted, running, sleeping, parent, freed,
                   cursor>>

----------------------------------------------------------------------------
UserStep ==
    \/ \E p \in Elems \cup {0} : InitTask(p)
    \/ \E t \in Elems : Quit(t)
    \/ \E t \in Elems : Suspend(t)
    \/ \E t \in Elems : Resume(t)
    \/ \E t \in Elems : Sleep(t)
    \/ \E t \in Elems : CancelSleep(t)
    \/ NestedSchedule

SchedulerStep ==
    \/ BeginSchedule
    \/ CheckDelete
    \/ BeginPass
    \/ Visit
    \/ EndRun
    \/ EndPass

Next == UserStep \/ SchedulerStep

Spec == Init /\ [][Next]_vars

\* The main loop calls Schedule() forever and every Run() returns, one that
\* calls Schedule() itself (at depth k of the stack) included.
FairSpec ==
    /\ Spec
    /\ WF_vars(BeginSchedule)
    /\ WF_vars(CheckDelete)
    /\ WF_vars(BeginPass)
    /\ WF_vars(Visit)
    /\ \A k \in 1 .. MaxNested : SF_vars(Len(stack) = k /\ EndRun)
    /\ WF_vars(EndPass)

----------------------------------------------------------------------------
TypeOK ==
    /\ index \in Seq(Ids)
    /\ uniqueId \in Ids
    /\ deleted \subseteq Ids
    /\ running \subseteq Ids
    /\ sleeping \subseteq Ids
    /\ parent \in [Ids -> Ids \cup {0}]
    /\ freed \subseteq Ids
    /\ cursor \in NoCheck .. Len(index)
    /\ Len(index) <= Size
    /\ stack \in Seq(Frame)

\* The binary search of IdToIndex relies on the array being sorted by id,
\* through every refusal of AddTask and every removal of CheckDelete.
IndexSorted ==
    \A i, j \in 1 .. Len(index) : i < j => index[i] < index[j]

\* A task inside Run() still is where the pass found it: neither the task
\* itself nor a nested pass it starts destroys it (the test of nested in
\* Schedule), and its slot does not move.
RunningTaskIntact ==
    \A k \in 1 .. Len(stack) :
        stack[k].run # 0 =>
            /\ stack[k].pos \in 1 .. Len(index)
            /\ index[stack[k].pos] = stack[k].run

\* IsParentDead follows mParent without owning it.  It is safe because
\* CheckDelete goes from tail to head and finds every child of a dead parent
\* before the parent: no task in the array has a parent already destroyed.
NoDanglingParent ==
    \A t \in Elems : parent[t] \notin freed

\* A task that was quit, or whose parent was, is eventually destroyed.
DeadIsFreed ==
    \A t \in Ids :
        (t \in Elems /\ {t, parent[t]} \cap deleted # {}) ~> (t \in freed)

\* A task that is running and awake is not passed over: Run() is called.
Runnable(t) == t \in Elems /\ IsRunning(t) /\ t \notin sleeping
InRun(t) == \E k \in 1 .. Len(stack) : stack[k].run = t
RunnableIsRun ==
    \A t \in Ids : Runnable(t) ~> (InRun(t) \/ ~Runnable(t))

=============================================================================
