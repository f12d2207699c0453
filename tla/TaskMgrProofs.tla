--------------------------- MODULE TaskMgrProofs ---------------------------
(***************************************************************************)
(* Proofs about the scheduler (TaskMgr.tla) for every table size, id bound  *)
(* and nesting depth.  The inductive invariant IInv says, beside the        *)
(* properties themselves, how ids, parents and the passes in progress       *)
(* relate to the table; CheckedSlots is the part that makes the order of    *)
(* CheckDelete, tail to head, safe for the parent pointers.                 *)
(***************************************************************************)
EXTENDS TaskMgr, SequenceLemmas

\* Ids in use or used are at most uniqueId, and none is in use and freed.
IdsBounded ==
    /\ \A i \in 1 .. Len(index) : index[i] <= uniqueId
    /\ \A t \in freed : t <= uniqueId
    /\ \A i \in 1 .. Len(index) : index[i] \notin freed

InTable(s, t) == \E i \in 1 .. Len(s) : s[i] = t

\* The parent of a task in the table is in the table, was created before it
\* and has no parent.
ParentsPresent ==
    \A i \in 1 .. Len(index) :
        parent[index[i]] # 0 =>
            /\ InTable(index, parent[index[i]])
            /\ parent[index[i]] < index[i]
            /\ parent[parent[index[i]]] = 0

FramesInTable ==
    /\ cursor # NoCheck => stack = <<>>
    /\ \A k \in 1 .. Len(stack) :
        /\ stack[k].pos <= stack[k].len
        /\ stack[k].len <= Len(index)

\* Behind the cursor of CheckDelete, a child of a quit parent remains only
\* while that parent is behind the cursor as well.
CheckedSlots ==
    cursor # NoCheck =>
        \A k \in 1 .. Len(index) :
            k > cursor /\ parent[index[k]] # 0 /\ parent[index[k]] \in deleted
                => \E j \in 1 .. Len(index) :
                        j > cursor /\ index[j] = parent[index[k]]

IInv ==
    /\ TypeOK
    /\ IndexSorted
    /\ RunningTaskIntact
    /\ IdsBounded
    /\ ParentsPresent
    /\ FramesInTable
    /\ CheckedSlots

----------------------------------------------------------------------------
\* The types of what the table and the frames hold.
LEMMA ElementTypes ==
    ASSUME TypeOK
    PROVE  /\ \A i \in 1 .. Len(index) : index[i] \in Ids /\ index[i] \in Nat
           /\ \A k \in 1 .. Len(stack) :
                /\ stack[k] \in Frame
                /\ stack[k].pos \in Nat
                /\ stack[k].len \in Nat
                /\ stack[k].run \in Ids \cup {0}
           /\ Len(index) \in Nat /\ Len(stack) \in Nat
<1>1. index \in Seq(Ids) /\ stack \in Seq(Frame)
  BY DEF TypeOK
<1>2. \A i \in 1 .. Len(index) : index[i] \in Ids
  BY <1>1
<1>3. \A k \in 1 .. Len(stack) : stack[k] \in Frame
  BY <1>1
<1>4. Ids \subseteq Nat
  BY DEF Ids
<1>5. \A f \in Frame : f.pos \in Nat /\ f.len \in Nat /\ f.run \in Ids \cup {0}
  BY DEF Frame
<1>6. Len(index) \in Nat /\ Len(stack) \in Nat
  BY <1>1
<1> QED
  BY <1>2, <1>3, <1>4, <1>5, <1>6

\* The initial state, an empty table, satisfies the invariant.
LEMMA InitIInv == Init => IInv
<1> SUFFICES ASSUME Init PROVE IInv
  OBVIOUS
<1>1. /\ index = <<>> /\ Len(index) = 0 /\ stack = <<>> /\ Len(stack) = 0
      /\ freed = {} /\ cursor = NoCheck
  BY DEF Init
<1>2. TypeOK
  BY <1>1, MaxIdAssumption, SizeAssumption DEF Init, TypeOK, Ids, NoCheck
<1>3. CheckedSlots
  BY <1>1 DEF CheckedSlots
<1> QED
  BY <1>1, <1>2, <1>3 DEF IInv, IndexSorted, RunningTaskIntact, IdsBounded,
                          ParentsPresent, FramesInTable

\* Changing the flags of tasks outside CheckDelete preserves the invariant.
LEMMA FlagSteps ==
    ASSUME IInv, NEW t \in Elems,
           Quit(t) \/ Suspend(t) \/ Resume(t) \/ Sleep(t) \/ CancelSleep(t)
    PROVE  IInv'
<1>1. t \in Ids
  BY DEF IInv, TypeOK, Elems
<1>2. /\ cursor = NoCheck
      /\ UNCHANGED <<index, uniqueId, parent, freed, cursor, stack>>
  BY DEF Quit, Suspend, Resume, Sleep, CancelSleep, UserCode
<1>3. TypeOK'
  BY <1>1, <1>2 DEF IInv, TypeOK, Quit, Suspend, Resume, Sleep, CancelSleep
<1>4. CheckedSlots'
  BY <1>2 DEF CheckedSlots
<1> QED
  BY <1>2, <1>3, <1>4 DEF IInv, IndexSorted, RunningTaskIntact, IdsBounded,
                          ParentsPresent, InTable, FramesInTable

\* A new task has the largest id, so the table stays sorted, and its parent,
\* if it has one, is in the table.
LEMMA InitTaskStep ==
    ASSUME IInv, NEW p \in Elems \cup {0}, InitTask(p)
    PROVE  IInv'
<1> DEFINE u == uniqueId + 1
<1>1. /\ u \in Ids /\ u \in Nat /\ uniqueId \in Nat
      /\ index \in Seq(Ids) /\ Len(index) \in Nat
      /\ \A i \in 1 .. Len(index) : index[i] \in Ids /\ index[i] < u
  <2>1. /\ u \in Ids /\ u \in Nat /\ uniqueId \in Nat
        /\ index \in Seq(Ids) /\ Len(index) \in Nat
    BY MaxIdAssumption DEF IInv, TypeOK, InitTask, Ids
  <2>2. \A i \in 1 .. Len(index) : index[i] \in Ids /\ index[i] \in Nat
    BY ElementTypes DEF IInv
  <2> QED
    BY <2>1, <2>2 DEF IInv, IdsBounded
<1>2. /\ cursor = NoCheck
      /\ uniqueId' = u
      /\ parent' = [parent EXCEPT ![u] = p]
      /\ p # 0 => parent[p] = 0
      /\ UNCHANGED <<deleted, running, sleeping, freed, cursor, stack>>
  BY DEF InitTask, UserCode
<1>3. \/ index' = index
      \/ /\ Len(index) < Size
         /\ index' \in Seq(Ids)
         /\ Len(index') = Len(index) + 1
         /\ \A i \in 1 .. Len(index) : index'[i] = index[i]
         /\ index'[Len(index) + 1] = u
  <2>1. CASE CanAdd(u)
    BY <2>1, <1>1, AppendProperties DEF InitTask, CanAdd
  <2>2. CASE ~CanAdd(u)
    BY <2>2 DEF InitTask
  <2> QED
    BY <2>1, <2>2
<1>a. uniqueId < u
  BY <1>1
<1> HIDE DEF u
<1>b. \A i \in 1 .. Len(index') :
          index'[i] = u \/ \E j \in 1 .. Len(index) : index'[i] = index[j]
  BY <1>1, <1>3
<1>c. /\ parent'[u] = p
      /\ \A t \in Ids : t # u => parent'[t] = parent[t]
  BY <1>1, <1>2 DEF IInv, TypeOK
<1>4. p # 0 => InTable(index, p) /\ p \in Ids /\ p < u
  BY <1>1 DEF Elems, InTable
<1>5. TypeOK'
  <2>1. index' \in Seq(Ids) /\ Len(index') <= Size /\ Len(index') >= Len(index)
    BY <1>1, <1>3, SizeAssumption DEF IInv, TypeOK
  <2>2. p \in Ids \cup {0}
    BY <1>4
  <2>3. parent' \in [Ids -> Ids \cup {0}]
    BY <2>2, <1>1, <1>2 DEF IInv, TypeOK
  <2>4. cursor' \in NoCheck .. Len(index')
    BY <2>1, <1>1, <1>2 DEF NoCheck
  <2> QED
    BY <2>1, <2>3, <2>4, <1>1, <1>2 DEF IInv, TypeOK
<1>6. IndexSorted'
  BY <1>1, <1>3 DEF IInv, IndexSorted
<1>7. RunningTaskIntact'
  BY <1>1, <1>2, <1>3 DEF IInv, RunningTaskIntact
<1>8. IdsBounded'
  <2>1. \A t \in freed : t \in Nat /\ t < u
    BY <1>1, <1>a DEF IInv, TypeOK, IdsBounded, Ids
  <2>2. \A i \in 1 .. Len(index') : index'[i] <= u /\ index'[i] \notin freed
    BY <2>1, <1>1, <1>b DEF IInv, IdsBounded, Ids
  <2> QED
    BY <2>1, <2>2, <1>1, <1>2 DEF IdsBounded
<1>9. ParentsPresent'
  <2>1. \A t : InTable(index, t) => InTable(index', t)
    BY <1>1, <1>3 DEF InTable
  <2>2. ASSUME NEW i \in 1 .. Len(index), parent'[index[i]] # 0
        PROVE  /\ InTable(index', parent'[index[i]])
               /\ parent'[index[i]] < index[i]
               /\ parent'[parent'[index[i]]] = 0
    <3>1. index[i] \in Ids /\ index[i] # u /\ parent'[index[i]] = parent[index[i]]
      BY <1>1, <1>c DEF Ids
    <3>2. /\ InTable(index, parent[index[i]])
          /\ parent[index[i]] < index[i]
          /\ parent[parent[index[i]]] = 0
      BY <2>2, <3>1 DEF IInv, ParentsPresent
    <3>3. parent[index[i]] # u /\ parent[index[i]] \in Ids
      BY <3>2, <1>1 DEF InTable
    <3> QED
      BY <2>1, <3>1, <3>2, <3>3, <1>c
  <2>3. ASSUME parent'[u] # 0
        PROVE  /\ InTable(index', parent'[u])
               /\ parent'[u] < u
               /\ parent'[parent'[u]] = 0
    <3>1. parent'[u] = p
      BY <1>c
    <3>2. p \in Ids /\ p # u
      BY <1>1, <1>4, <2>3, <3>1
    <3> QED
      BY <3>1, <3>2, <2>1, <2>3, <1>2, <1>4, <1>c
  <2> SUFFICES ASSUME NEW i \in 1 .. Len(index'), parent'[index'[i]] # 0
               PROVE  /\ InTable(index', parent'[index'[i]])
                      /\ parent'[index'[i]] < index'[i]
                      /\ parent'[parent'[index'[i]]] = 0
    BY DEF ParentsPresent
  <2>4. CASE index'[i] = u
    BY <2>3, <2>4, Zenon
  <2>5. CASE \E j \in 1 .. Len(index) : index'[i] = index[j]
    BY <2>2, <2>5, Zenon
  <2> QED
    BY <2>4, <2>5, <1>b
<1>10. FramesInTable'
  <2>1. Len(index') >= Len(index) /\ Len(index') \in Nat
    BY <1>1, <1>3
  <2>2. \A k \in 1 .. Len(stack) : stack[k].len \in Nat
    BY ElementTypes DEF IInv
  <2> QED
    BY <2>1, <2>2, <1>1, <1>2 DEF IInv, FramesInTable
<1>11. CheckedSlots'
  BY <1>2 DEF CheckedSlots
<1> QED
  BY <1>5, <1>6, <1>7, <1>8, <1>9, <1>10, <1>11 DEF IInv

\* DelElem(i) on a sorted table: which slot every element comes from.
LEMMA DelElemFacts ==
    ASSUME TypeOK, IndexSorted, NEW i \in 1 .. Len(index)
    PROVE  /\ DelElem(i) \in Seq(Ids)
           /\ Len(DelElem(i)) = Len(index) - 1
           /\ \A j \in 1 .. Len(index) - 1 :
                DelElem(i)[j] = IF j < i THEN index[j] ELSE index[j + 1]
           /\ \A k \in 1 .. Len(index) : k < i =>
                k \in 1 .. Len(DelElem(i)) /\ DelElem(i)[k] = index[k]
           /\ \A k \in 1 .. Len(index) : k > i =>
                k - 1 \in 1 .. Len(DelElem(i)) /\ DelElem(i)[k - 1] = index[k]
<1>1. index \in Seq(Ids) /\ Len(index) \in Nat
  BY DEF TypeOK
<1>2. /\ DelElem(i) \in Seq(Ids)
      /\ Len(DelElem(i)) = Len(index) - 1
      /\ \A j \in 1 .. Len(index) - 1 :
                DelElem(i)[j] = IF j < i THEN index[j] ELSE index[j + 1]
  BY <1>1, RemoveAtFacts DEF DelElem
<1>3. ASSUME NEW k \in 1 .. Len(index), k > i
      PROVE  /\ k - 1 \in 1 .. Len(DelElem(i))
             /\ DelElem(i)[k - 1] = index[k]
  <2>1. k - 1 \in 1 .. Len(index) - 1 /\ ~(k - 1 < i) /\ (k - 1) + 1 = k
    BY <1>1, <1>3
  <2> QED
    BY <2>1, <1>2
<1>4. ASSUME NEW k \in 1 .. Len(index), k < i
      PROVE  k \in 1 .. Len(DelElem(i)) /\ DelElem(i)[k] = index[k]
  <2>1. k \in 1 .. Len(index) - 1
    BY <1>1, <1>4
  <2> QED
    BY <2>1, <1>2, <1>4
<1> QED
  BY <1>2, <1>3, <1>4

\* One step of CheckDelete.  Going from tail to head, it meets a task whose
\* parent was quit before it meets the parent, so what it destroys is never
\* the parent of a task that stays.
LEMMA CheckDeleteStep ==
    ASSUME IInv, CheckDelete
    PROVE  IInv'
<1> DEFINE t == index[cursor]
<1>1. /\ cursor \in 1 .. Len(index) /\ cursor' = cursor - 1
      /\ cursor' # NoCheck /\ cursor # NoCheck
      /\ stack = <<>>
      /\ UNCHANGED <<uniqueId, running, sleeping, parent, stack>>
  BY DEF CheckDelete, IInv, TypeOK, FramesInTable, NoCheck
<1>2. /\ \A i \in 1 .. Len(index) : index[i] \in Ids /\ index[i] \in Nat
      /\ Len(index) \in Nat
      /\ t \in Ids
  BY <1>1, ElementTypes DEF IInv
<1>3. CASE ~IsDead(t)
  <2>1. UNCHANGED <<index, freed, deleted>>
    BY <1>3 DEF CheckDelete
  <2>2. cursor' \in NoCheck .. Len(index)
    BY <1>1, <1>2 DEF NoCheck
  <2>3. TypeOK'
    BY <1>1, <2>1, <2>2 DEF IInv, TypeOK
  <2>4. CheckedSlots'
    <3> SUFFICES ASSUME NEW k \in 1 .. Len(index), k > cursor - 1,
                        parent[index[k]] # 0, parent[index[k]] \in deleted
                 PROVE  \E j \in 1 .. Len(index) :
                            j > cursor - 1 /\ index[j] = parent[index[k]]
      BY <1>1, <2>1 DEF CheckedSlots
    <3>1. k # cursor
      BY <1>3 DEF IsDead
    <3>2. k > cursor
      BY <3>1, <1>1, <1>2
    <3>3. PICK j \in 1 .. Len(index) : j > cursor /\ index[j] = parent[index[k]]
      BY <3>2, <1>1 DEF IInv, CheckedSlots
    <3> QED
      BY <3>3, <1>1, <1>2
  <2> QED
    BY <1>1, <2>1, <2>3, <2>4 DEF IInv, IndexSorted, RunningTaskIntact,
                            IdsBounded, ParentsPresent, FramesInTable
<1>4. CASE IsDead(t)
  <2>1. PICK Q \in SUBSET OwnedBy(t) : deleted' = deleted \cup Q
    BY <1>4 DEF CheckDelete
  <2>2. index' = DelElem(cursor) /\ freed' = freed \cup {t}
    BY <1>4 DEF CheckDelete
  <2>3. /\ index' \in Seq(Ids)
        /\ Len(index') = Len(index) - 1
        /\ \A j \in 1 .. Len(index) - 1 :
            index'[j] = IF j < cursor THEN index[j] ELSE index[j + 1]
        /\ \A k \in 1 .. Len(index) : k < cursor =>
            k \in 1 .. Len(index') /\ index'[k] = index[k]
        /\ \A k \in 1 .. Len(index) : k > cursor =>
            k - 1 \in 1 .. Len(index') /\ index'[k - 1] = index[k]
    BY <1>1, <2>2, DelElemFacts DEF IInv
  \* Where an element of the new table was in the old one.
  <2>4. ASSUME NEW j \in 1 .. Len(index')
        PROVE  \E k \in 1 .. Len(index) :
                   /\ index'[j] = index[k]
                   /\ k # cursor
                   /\ k = (IF j < cursor THEN j ELSE j + 1)
    BY <1>1, <1>2, <2>3
  <2>5. \A k \in 1 .. Len(index) : k # cursor => index[k] # t
    BY <1>1, <1>2 DEF IInv, IndexSorted
  \* No task that stays is a child of t.
  <2>6. ASSUME NEW k \in 1 .. Len(index)
        PROVE  parent[index[k]] # t
    <3> SUFFICES ASSUME parent[index[k]] = t PROVE FALSE
      OBVIOUS
    <3>1. t # 0
      BY <1>2 DEF Ids
    <3>2. t < index[k] /\ parent[t] = 0
      BY <3>1 DEF IInv, ParentsPresent
    <3>3. t \in deleted
      BY <3>2, <1>4 DEF IsDead
    <3>4. k > cursor
      BY <3>2, <1>1, <1>2 DEF IInv, IndexSorted
    <3>5. \E j \in 1 .. Len(index) : j > cursor /\ index[j] = t
      BY <3>1, <3>3, <3>4, <1>1 DEF IInv, CheckedSlots
    <3> QED
      BY <3>5, <2>5, <1>1
  <2>7. TypeOK'
    <3>1. deleted' \subseteq Ids /\ freed' \subseteq Ids
      BY <2>1, <2>2, <1>2 DEF IInv, TypeOK, OwnedBy, Elems
    <3>2. cursor' \in NoCheck .. Len(index') /\ Len(index') <= Size
      BY <2>3, <1>1, <1>2, SizeAssumption DEF IInv, TypeOK, NoCheck
    <3> QED
      BY <3>1, <3>2, <2>3, <1>1 DEF IInv, TypeOK
  <2>8. IndexSorted'
    BY <2>3, <1>1, <1>2 DEF IInv, IndexSorted
  <2>9. IdsBounded'
    <3>1. \A j \in 1 .. Len(index') : index'[j] <= uniqueId /\ index'[j] \notin freed'
      BY <2>2, <2>4, <2>5 DEF IInv, IdsBounded
    <3>2. \A u \in freed' : u <= uniqueId
      BY <2>2, <1>1 DEF IInv, IdsBounded
    <3> QED
      BY <3>1, <3>2, <1>1 DEF IdsBounded
  <2>10. ParentsPresent'
    <3> SUFFICES ASSUME NEW j \in 1 .. Len(index'), parent[index'[j]] # 0
                 PROVE  /\ InTable(index', parent[index'[j]])
                        /\ parent[index'[j]] < index'[j]
                        /\ parent[parent[index'[j]]] = 0
      BY <1>1 DEF ParentsPresent
    <3>1. PICK k \in 1 .. Len(index) : index'[j] = index[k]
      BY <2>4
    <3>2. PICK m \in 1 .. Len(index) : index[m] = parent[index[k]]
      BY <3>1 DEF IInv, ParentsPresent, InTable
    <3>3. m # cursor
      BY <3>2, <2>6
    <3>4. m < cursor \/ m > cursor
      BY <3>3, <1>1, <1>2
    <3>5. InTable(index', index[m])
      BY <3>4, <2>3 DEF InTable
    <3> QED
      BY <3>1, <3>2, <3>5 DEF IInv, ParentsPresent
  <2>11. CheckedSlots'
    <3> SUFFICES ASSUME NEW j \in 1 .. Len(index'), j > cursor - 1,
                        parent[index'[j]] # 0, parent[index'[j]] \in deleted'
                 PROVE  \E i \in 1 .. Len(index') :
                            i > cursor - 1 /\ index'[i] = parent[index'[j]]
      BY <1>1 DEF CheckedSlots
    <3>1. PICK k \in 1 .. Len(index) : index'[j] = index[k] /\ k = j + 1
      BY <2>4, <1>1, <2>3, <1>2
    <3>2. k > cursor
      BY <3>1, <1>1, <1>2, <2>3
    <3>3. PICK m \in 1 .. Len(index) : m > cursor /\ index[m] = parent[index[k]]
      <4>1. CASE parent[index[k]] \in deleted
        BY <4>1, <3>1, <3>2, <1>1 DEF IInv, CheckedSlots
      <4>2. CASE parent[index[k]] \in Q
        <5>1. PICK m \in 1 .. Len(index) : index[m] = parent[index[k]]
          BY <4>2, <2>1 DEF OwnedBy, Elems
        <5>2. index[m] > index[cursor]
          BY <4>2, <5>1, <2>1 DEF OwnedBy
        <5>3. m > cursor
          BY <5>2, <1>1, <1>2 DEF IInv, IndexSorted
        <5> QED
          BY <5>1, <5>3
      <4> QED
        BY <4>1, <4>2, <2>1, <3>1
    <3>4. m - 1 \in 1 .. Len(index') /\ index'[m - 1] = index[m] /\ m - 1 > cursor - 1
      BY <3>3, <2>3, <1>1, <1>2
    <3> QED
      BY <3>1, <3>3, <3>4
  <2>12. RunningTaskIntact' /\ FramesInTable'
    BY <1>1 DEF RunningTaskIntact, FramesInTable
  <2> QED
    BY <2>7, <2>8, <2>9, <2>10, <2>11, <2>12 DEF IInv
<1> QED
  BY <1>3, <1>4

\* Entering and leaving a pass, and moving it along, touch the frames only;
\* the table does not shrink meanwhile, so the frames stay inside it.
LEMMA PushStep ==
    ASSUME IInv, BeginPass \/ NestedSchedule
    PROVE  IInv'
<1> DEFINE f == [pos |-> 0, len |-> Len(index), run |-> 0]
<1>1. /\ stack' = Append(stack, f) /\ cursor' = NoCheck
      /\ UNCHANGED <<index, uniqueId, deleted, running, sleeping, parent, freed>>
  BY DEF BeginPass, NestedSchedule, PushFrame, UserCode
<1>2. stack \in Seq(Frame) /\ f \in Frame
      /\ Len(stack) \in Nat /\ Len(index) \in Nat
  BY ElementTypes DEF IInv, TypeOK, Frame
<1>3. /\ stack' \in Seq(Frame)
      /\ Len(stack') = Len(stack) + 1
      /\ \A k \in 1 .. Len(stack') :
            stack'[k] = f \/ (k \in 1 .. Len(stack) /\ stack'[k] = stack[k])
  BY <1>1, <1>2, AppendProperties
<1>4. f.pos = 0 /\ f.len = Len(index) /\ f.run = 0
  OBVIOUS
<1> HIDE DEF f
<1>5. TypeOK'
  BY <1>1, <1>2, <1>3 DEF IInv, TypeOK, NoCheck
<1>6. RunningTaskIntact'
  BY <1>1, <1>3, <1>4 DEF IInv, RunningTaskIntact
<1>7. FramesInTable'
  BY <1>1, <1>2, <1>3, <1>4 DEF IInv, FramesInTable
<1>8. CheckedSlots'
  BY <1>1 DEF CheckedSlots
<1> QED
  BY <1>1, <1>5, <1>6, <1>7, <1>8
     DEF IInv, IndexSorted, IdsBounded, ParentsPresent, InTable

\* A pass replaces its own frame, the last one; the task it enters is the
\* one in the slot it has come to.
LEMMA MoveStep ==
    ASSUME IInv, Visit \/ EndRun
    PROVE  IInv'
<1>1. /\ stack # <<>> /\ cursor = NoCheck /\ cursor' = cursor
      /\ UNCHANGED <<index, uniqueId, deleted, running, parent, freed>>
      /\ sleeping' \subseteq Ids
  BY DEF Visit, EndRun, IInv, TypeOK, FramesInTable
<1>2. /\ \A k \in 1 .. Len(stack) :
            /\ stack[k] \in Frame /\ stack[k].pos \in Nat /\ stack[k].len \in Nat
            /\ stack[k].run \in Ids \cup {0}
            /\ stack[k].pos <= stack[k].len
            /\ stack[k].len <= Len(index)
      /\ Len(stack) \in 1 .. Len(stack) /\ Len(index) \in Nat
      /\ stack \in Seq(Frame)
  BY <1>1, ElementTypes DEF IInv, TypeOK, FramesInTable
<1>3. PICK f \in Frame :
        /\ stack' = [stack EXCEPT ![Len(stack)] = f]
        /\ f.len = Top.len
        /\ f.pos <= f.len
        /\ f.run # 0 => f.pos \in 1 .. Len(index) /\ index[f.pos] = f.run
  <2>1. CASE EndRun
    <3> DEFINE f == [pos |-> Top.pos, len |-> Top.len, run |-> 0]
    <3>1. f \in Frame
      BY <1>2 DEF Top, Frame
    <3> QED
      BY <3>1, <2>1, <1>2 DEF EndRun, Top
  <2>2. CASE Visit
    <3> DEFINE t == index[Top.pos + 1]
               f(r) == [pos |-> Top.pos + 1, len |-> Top.len, run |-> r]
    <3>1. Top.pos + 1 \in 1 .. Len(index) /\ Top.pos + 1 <= Top.len
      BY <2>2, <1>2 DEF Visit, Top
    <3>2. t \in Ids
      BY <3>1, ElementTypes DEF IInv
    <3>3. \E r \in {0, t} : stack' = [stack EXCEPT ![Len(stack)] = f(r)]
      BY <2>2 DEF Visit
    <3>4. \A r \in {0, t} : f(r) \in Frame
      BY <3>2, <1>2 DEF Top, Frame
    <3> QED
      BY <3>1, <3>3, <3>4
  <2> QED
    BY <2>1, <2>2
<1>4. /\ stack' \in Seq(Frame)
      /\ Len(stack') = Len(stack)
      /\ \A k \in 1 .. Len(stack') : stack'[k] = f \/ stack'[k] = stack[k]
  BY <1>1, <1>2, <1>3, SetLastFacts
<1>5. TypeOK'
  BY <1>1, <1>4 DEF IInv, TypeOK
<1>6. RunningTaskIntact'
  BY <1>1, <1>3, <1>4 DEF IInv, RunningTaskIntact
<1>7. FramesInTable'
  BY <1>1, <1>2, <1>3, <1>4 DEF FramesInTable, Top
<1>8. CheckedSlots'
  BY <1>1 DEF CheckedSlots
<1> QED
  BY <1>1, <1>5, <1>6, <1>7, <1>8
     DEF IInv, IndexSorted, IdsBounded, ParentsPresent, InTable

\* The beginning of CheckDelete and the end of a pass.
LEMMA EndsStep ==
    ASSUME IInv, BeginSchedule \/ EndPass
    PROVE  IInv'
<1>1. UNCHANGED <<index, uniqueId, deleted, running, sleeping, parent, freed>>
  BY DEF BeginSchedule, EndPass
<1>2. Len(index) \in Nat /\ Len(stack) \in Nat
  BY ElementTypes DEF IInv
<1>3. CASE BeginSchedule
  <2>1. stack = <<>> /\ stack' = stack /\ cursor' = Len(index)
    BY <1>3 DEF BeginSchedule
  <2>2. TypeOK'
    BY <2>1, <1>1, <1>2 DEF IInv, TypeOK, NoCheck
  <2>3. CheckedSlots'
    BY <2>1, <1>1, <1>2 DEF CheckedSlots
  <2> QED
    BY <2>1, <2>2, <2>3, <1>1 DEF IInv, IndexSorted, IdsBounded, InTable,
                    ParentsPresent, RunningTaskIntact, FramesInTable
<1>4. CASE EndPass
  <2>1. /\ stack # <<>> /\ cursor = NoCheck /\ cursor' = cursor
        /\ stack' = SubSeq(stack, 1, Len(stack) - 1)
    BY <1>4 DEF EndPass, IInv, FramesInTable
  <2>2. /\ stack' \in Seq(Frame)
        /\ Len(stack') = Len(stack) - 1
        /\ \A k \in 1 .. Len(stack') : stack'[k] = stack[k]
    <3>1. Len(stack) - 1 \in 0 .. Len(stack) /\ stack \in Seq(Frame)
      BY <2>1, <1>2 DEF IInv, TypeOK
    <3> QED
      BY <2>1, <3>1, PrefixFacts
  <2>3. TypeOK'
    BY <2>1, <2>2, <1>1 DEF IInv, TypeOK
  <2>4. RunningTaskIntact' /\ FramesInTable'
    BY <2>1, <2>2, <1>1, <1>2 DEF IInv, RunningTaskIntact, FramesInTable
  <2>5. CheckedSlots'
    BY <2>1 DEF CheckedSlots
  <2> QED
    BY <2>3, <2>4, <2>5, <1>1 DEF IInv, IndexSorted, IdsBounded,
                                  ParentsPresent, InTable
<1> QED
  BY <1>3, <1>4

----------------------------------------------------------------------------
\* The invariant is inductive: one step per action of Next.
LEMMA IInvInductive == IInv /\ [Next]_vars => IInv'
<1> SUFFICES ASSUME IInv, [Next]_vars PROVE IInv'
  OBVIOUS
<1>1. CASE UserStep
  <2>1. CASE \E p \in Elems \cup {0} : InitTask(p)
    BY <2>1, InitTaskStep
  <2>2. CASE \E t \in Elems : Quit(t) \/ Suspend(t) \/ Resume(t)
                                \/ Sleep(t) \/ CancelSleep(t)
    BY <2>2, FlagSteps
  <2>3. CASE NestedSchedule
    BY <2>3, PushStep
  <2> QED
    BY <1>1, <2>1, <2>2, <2>3 DEF UserStep
<1>2. CASE SchedulerStep
  BY <1>2, CheckDeleteStep, PushStep, MoveStep, EndsStep DEF SchedulerStep
<1>3. CASE UNCHANGED vars
  BY <1>3 DEF vars, IInv, TypeOK, IndexSorted, RunningTaskIntact, IdsBounded,
              ParentsPresent, InTable, FramesInTable, CheckedSlots
<1> QED
  BY <1>1, <1>2, <1>3 DEF Next

\* In every state the invariant holds.
LEMMA IInvAlways == Spec => []IInv
BY InitIInv, IInvInductive, PTL DEF Spec

\* Every reachable state has its type; in particular the table never holds
\* more tasks than it has slots (CTaskMgr::Push), whatever is refused.
THEOREM TypeCorrect == Spec => []TypeOK
<1>1. IInv => TypeOK
  BY DEF IInv
<1> QED
  BY <1>1, IInvAlways, PTL

\* The table is always sorted by id, as the search of IdToIndex requires.
THEOREM SortedTable == Spec => []IndexSorted
<1>1. IInv => IndexSorted
  BY DEF IInv
<1> QED
  BY <1>1, IInvAlways, PTL

\* No pass, nested or not, removes or moves a task that is inside Run().
THEOREM RunningTaskKept == Spec => []RunningTaskIntact
<1>1. IInv => RunningTaskIntact
  BY DEF IInv
<1> QED
  BY <1>1, IInvAlways, PTL

\* IsParentDead never follows a pointer to a destroyed parent.
THEOREM ParentPointersSafe == Spec => []NoDanglingParent
<1>1. ASSUME IInv PROVE NoDanglingParent
  <2> SUFFICES ASSUME NEW i \in 1 .. Len(index)
               PROVE  parent[index[i]] \notin freed
    BY DEF NoDanglingParent, Elems
  <2>1. CASE parent[index[i]] = 0
    BY <2>1, <1>1 DEF IInv, TypeOK, Ids
  <2>2. CASE parent[index[i]] # 0
    BY <2>2, <1>1 DEF IInv, ParentsPresent, InTable, IdsBounded
  <2> QED
    BY <2>1, <2>2
<1> QED
  BY <1>1, IInvAlways, PTL

============================================================================
