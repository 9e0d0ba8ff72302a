------------------------ MODULE MemoryLimits_proofs ------------------------
(***************************************************************************)
(* Proofs about MemoryLimits, for every set of tasks, every pid namespace, *)
(* every size_t width and every bound on an address space.                 *)
(*                                                                         *)
(* The inductive invariant: a task inside a critical section holds the     *)
(* mutex; a call past its checks has arguments that went through them; and *)
(* between its duplicate scan and list_add() the pid of an add is unlisted.*)
(***************************************************************************)
EXTENDS MemoryLimits, SequenceTheorems, TLAPS

AddPcs    == {"add_usage", "add_lock", "add_scan", "add_alloc", "add_insert"}
UpdatePcs == {"update_lock", "update_scan"}
RemovePcs == {"remove_lock", "remove_scan"}

(* A call past its argument checks names a pid, and a writer is an admin.  *)
ArgumentsChecked ==
  \A t \in Tasks :
    /\ pc[t] \in AddPcs \cup UpdatePcs \cup RemovePcs =>
         t \in Admins /\ req[t].pid \in Tasks
    /\ pc[t] \in AddPcs \cup UpdatePcs => req[t].size \in Sizes

(* Nobody lists the pid of an add between its scan and its list_add().     *)
ScanStillValid ==
  \A t \in Tasks : pc[t] \in {"add_alloc", "add_insert"} => ~Listed(req[t].pid)

IInv == TypeOK /\ MutexDiscipline /\ ArgumentsChecked /\ ScanStillValid /\ UniquePids

-----------------------------------------------------------------------------
(* The sets of control points, spelled out. *)
LEMMA ControlPoints ==
  /\ WaitingPcs = {"add_lock", "update_lock", "remove_lock", "get_lock", "check_lock"}
  /\ CriticalPcs = {"add_scan", "update_scan", "remove_scan", "get_scan", "check_scan",
                    "add_alloc", "add_insert"}
<1>1. WaitingPcs = {"add_lock", "update_lock", "remove_lock", "get_lock", "check_lock"}
  BY DEF WaitingPcs, AfterLock
<1>2. QED  BY <1>1 DEF CriticalPcs, AfterLock

(* With one entry per pid, the entry a search finds first is the only one. *)
LEMMA IndexOfListed ==
  ASSUME UniquePids, NEW p, Listed(p), memory_list \in Seq(Entry)
  PROVE  /\ IndexOf(p) \in 1..Len(memory_list)
         /\ memory_list[IndexOf(p)].pid = p
<1>1. PICK i \in DOMAIN memory_list : memory_list[i].pid = p
  BY DEF Listed
<1>2. \A j \in 1..(i - 1) : memory_list[j].pid # p
  BY <1>1, LenProperties DEF UniquePids
<1>3. QED  BY <1>1, <1>2, LenProperties DEF IndexOf

(* list_add(): the new entry first, the others after it. *)
LEMMA Prepended ==
  ASSUME NEW s \in Seq(Entry), NEW e \in Entry
  PROVE  /\ <<e>> \o s \in Seq(Entry)
         /\ Len(<<e>> \o s) = Len(s) + 1
         /\ (<<e>> \o s)[1] = e
         /\ \A i \in 2..(Len(s) + 1) : (<<e>> \o s)[i] = s[i - 1]
<1>1. <<e>> \in Seq(Entry) /\ Len(<<e>>) = 1 /\ <<e>>[1] = e
  OBVIOUS
<1>2. QED  BY <1>1, ConcatProperties, LenProperties

(* list_del(): the others, in their order. *)
LEMMA Removed ==
  ASSUME NEW s \in Seq(Entry), NEW i \in 1..Len(s)
  PROVE  /\ RemoveAt(s, i) \in Seq(Entry)
         /\ Len(RemoveAt(s, i)) = Len(s) - 1
         /\ \A j \in 1..(Len(s) - 1) :
              RemoveAt(s, i)[j] = IF j < i THEN s[j] ELSE s[j + 1]
<1> DEFINE front == SubSeq(s, 1, i - 1)
           back  == SubSeq(s, i + 1, Len(s))
<1>1. /\ front \in Seq(Entry) /\ Len(front) = i - 1
      /\ \A j \in 1..(i - 1) : front[j] = s[j]
  BY SubSeqProperties, ElementOfSeq, LenProperties
<1>2. /\ back \in Seq(Entry) /\ Len(back) = Len(s) - i
      /\ \A j \in 1..(Len(s) - i) : back[j] = s[i + j]
  BY SubSeqProperties, ElementOfSeq, LenProperties
<1>3. RemoveAt(s, i) = front \o back
  BY DEF RemoveAt
<1> HIDE DEF front, back
<1>4. Len(s) \in Nat
  BY LenProperties
<1>5. /\ front \o back \in Seq(Entry) /\ Len(front \o back) = Len(front) + Len(back)
      /\ \A j \in 1..(Len(front) + Len(back)) :
           (front \o back)[j] = IF j <= Len(front) THEN front[j] ELSE back[j - Len(front)]
  BY <1>1, <1>2, ConcatProperties
<1>6. \A j \in 1..(Len(s) - 1) :
        (front \o back)[j] = IF j < i THEN s[j] ELSE s[j + 1]
  BY <1>1, <1>2, <1>4, <1>5
<1>7. QED  BY <1>1, <1>2, <1>3, <1>4, <1>5, <1>6

-----------------------------------------------------------------------------
(* A size_t in range, whatever the width. *)
LEMMA UsageIsSize == 0 \in Sizes
  BY SizesAssumption DEF Sizes

LEMMA TypeInit == Init => TypeOK
<1>1. <<>> \in Seq(Entry)
  BY EmptySeq
<1>2. NoReq \in Request
  BY DEF NoReq, Request, Ops
<1>3. QED  BY <1>1, <1>2, UsageIsSize DEF Init, TypeOK, Pcs, Codes

(* What a call does to its own control state has the right type. *)
LEMMA FinishType ==
  ASSUME TypeOK, NEW t \in Tasks, NEW code \in Codes, Finish(t, code)
  PROVE  /\ pc' \in [Tasks -> Pcs] /\ ret' \in [Tasks -> Codes]
         /\ task' \in [Tasks -> Tasks \cup {NoTask, Freed}]
         /\ usage' \in [Tasks -> Sizes]
  BY UsageIsSize DEF TypeOK, Finish, Goto, Pcs

LEMMA GotoType ==
  ASSUME TypeOK, NEW t \in Tasks, NEW label \in Pcs, Goto(t, label)
  PROVE  pc' \in [Tasks -> Pcs]
  BY DEF TypeOK, Goto

LEMMA LookupType ==
  ASSUME NEW t \in Tasks, NEW p
  PROVE  find_task_by_vpid(t, p) \in Tasks \cup {NoTask}
  BY TasksAssumption DEF find_task_by_vpid

LEMMA TypeEnter ==
  ASSUME TypeOK, NEW t \in Tasks, Enter(t)
  PROVE  TypeOK'
<1>0. {"idle", "get_copy", "get_put", "return", "add_usage", "check_usage",
       "add_lock", "update_lock", "remove_lock", "get_lock", "check_lock",
       "add_scan", "update_scan", "remove_scan", "get_scan", "check_scan",
       "add_alloc", "add_insert"} = Pcs
  BY ControlPoints DEF Pcs, UsagePcs
<1>1. ASSUME NEW p \in PidArgs, NEW limit \in LimitArgs, AddEnter(t, p, limit)
      PROVE  TypeOK'
  <2>1. req' \in [Tasks -> Request]
    BY <1>1, SizesAssumption DEF AddEnter, Accept, TypeOK, Request, Ops, PidArgs
  <2>2. CASE \E code \in Codes : Finish(t, code)
    BY <1>1, <2>1, <2>2, FinishType DEF AddEnter, TypeOK, registryVars, taskVars
  <2>3. CASE ~ \E code \in Codes : Finish(t, code)
    <3>1. /\ Goto(t, "add_usage") /\ UNCHANGED <<usage, ret>>
          /\ task' = [task EXCEPT ![t] = find_task_by_vpid(t, p)]
      BY <1>1, <2>3 DEF AddEnter, Codes
    <3>2. pc' \in [Tasks -> Pcs]
      BY <1>0, <3>1, GotoType
    <3>3. task' \in [Tasks -> Tasks \cup {NoTask, Freed}]
      BY <3>1, LookupType DEF TypeOK
    <3>4. UNCHANGED <<registryVars, taskVars, total_vm, snapshot>>
      BY <1>1 DEF AddEnter
    <3>5. QED  BY <2>1, <3>1, <3>2, <3>3, <3>4 DEF TypeOK, registryVars, taskVars
  <2>4. QED  BY <2>2, <2>3
<1>2. ASSUME NEW p \in PidArgs, NEW limit \in LimitArgs, UpdateEnter(t, p, limit)
      PROVE  TypeOK'
  <2>1. req' \in [Tasks -> Request]
    BY <1>2, SizesAssumption DEF UpdateEnter, Accept, TypeOK, Request, Ops, PidArgs
  <2>2. CASE \E code \in Codes : Finish(t, code)
    BY <1>2, <2>1, <2>2, FinishType DEF UpdateEnter, TypeOK, registryVars, taskVars
  <2>3. CASE ~ \E code \in Codes : Finish(t, code)
    BY <1>0, <1>2, <2>1, <2>3, GotoType
       DEF UpdateEnter, TypeOK, registryVars, taskVars, Codes
  <2>4. QED  BY <2>2, <2>3
<1>3. ASSUME NEW p \in PidArgs, RemoveEnter(t, p)
      PROVE  TypeOK'
  <2>1. req' \in [Tasks -> Request]
    BY <1>3 DEF RemoveEnter, Accept, TypeOK, Request, Ops, PidArgs
  <2>2. CASE \E code \in Codes : Finish(t, code)
    BY <1>3, <2>1, <2>2, FinishType DEF RemoveEnter, TypeOK, registryVars, taskVars
  <2>3. CASE ~ \E code \in Codes : Finish(t, code)
    BY <1>0, <1>3, <2>1, <2>3, GotoType
       DEF RemoveEnter, TypeOK, registryVars, taskVars, Codes
  <2>4. QED  BY <2>2, <2>3
<1>4. ASSUME NEW n \in EntryArgs, GetEnter(t, n)
      PROVE  TypeOK'
  <2>1. req' \in [Tasks -> Request]
    BY <1>4, SizesAssumption DEF GetEnter, Accept, TypeOK, Request, Ops
  <2>2. CASE \E code \in Codes : Finish(t, code)
    BY <1>4, <2>1, <2>2, FinishType DEF GetEnter, TypeOK, registryVars, taskVars
  <2>3. CASE ~ \E code \in Codes : Finish(t, code)
    BY <1>0, <1>4, <2>1, <2>3, GotoType
       DEF GetEnter, TypeOK, registryVars, taskVars, Codes
  <2>4. QED  BY <2>2, <2>3
<1>5. ASSUME NEW size \in SizeArgs, CheckEnter(t, size)
      PROVE  TypeOK'
  <2>1. req' \in [Tasks -> Request]
    BY <1>5, SizesAssumption DEF CheckEnter, Accept, TypeOK, Request, Ops, PidArgs
  <2>2. CASE \E code \in Codes : Finish(t, code)
    BY <1>5, <2>1, <2>2, FinishType DEF CheckEnter, TypeOK, registryVars, taskVars
  <2>3. CASE ~ \E code \in Codes : Finish(t, code)
    <3>1. /\ Goto(t, "check_usage") /\ UNCHANGED <<usage, ret>>
          /\ task' = [task EXCEPT ![t] = find_task_by_vpid(t, t)]
      BY <1>5, <2>3 DEF CheckEnter, Codes
    <3>2. pc' \in [Tasks -> Pcs]
      BY <1>0, <3>1, GotoType
    <3>3. task' \in [Tasks -> Tasks \cup {NoTask, Freed}]
      BY <3>1, LookupType DEF TypeOK
    <3>4. UNCHANGED <<registryVars, taskVars, total_vm, snapshot>>
      BY <1>5 DEF CheckEnter
    <3>5. QED  BY <2>1, <3>1, <3>2, <3>3, <3>4 DEF TypeOK, registryVars, taskVars
  <2>4. QED  BY <2>2, <2>3
<1>6. QED  BY <1>1, <1>2, <1>3, <1>4, <1>5 DEF Enter

LEMMA TypeOfStep ==
  ASSUME TypeOK, UniquePids, ArgumentsChecked, NEW t \in Tasks, Step(t)
  PROVE  TypeOK'
<1>0. {"idle", "get_copy", "get_put", "return", "add_usage", "check_usage",
       "add_lock", "update_lock", "remove_lock", "get_lock", "check_lock",
       "add_scan", "update_scan", "remove_scan", "get_scan", "check_scan",
       "add_alloc", "add_insert"} = Pcs
  BY ControlPoints DEF Pcs, UsagePcs
<1>1. CASE LockMutex(t)
  <2>1. AfterLock[pc[t]] \in Pcs
    BY <1>1, ControlPoints DEF LockMutex, Pcs, CriticalPcs
  <2>2. QED  BY <1>1, <2>1, GotoType DEF LockMutex, Lock, TypeOK, taskVars
<1>2. CASE Return(t)
  <2>1. NoReq \in Request /\ <<>> \in Seq(Entry)
    BY EmptySeq DEF NoReq, Request, Ops
  <2>2. QED  BY <1>0, <1>2, <2>1, GotoType, UsageIsSize
             DEF Return, TypeOK, registryVars, taskVars, Codes
<1>3. CASE Oops(t)
  <2>1. NoReq \in Request
    BY DEF NoReq, Request, Ops
  <2>2. QED  BY <1>0, <1>3, <2>1, GotoType DEF Oops, TypeOK, registryVars
<1>4. CASE AddReadUsage(t)
  <2>1. CASE Finish(t, "E100")
    BY <1>4, <2>1, FinishType DEF AddReadUsage, TypeOK, registryVars, taskVars, Codes
  <2>2. CASE ~Finish(t, "E100")
    BY <1>0, <1>4, <2>2, GotoType DEF AddReadUsage, TypeOK, registryVars, taskVars
  <2>3. QED  BY <2>1, <2>2
<1>5. CASE AddScan(t)
  <2>1. CASE Finish(t, "E101")
    BY <1>5, <2>1, FinishType DEF AddScan, Unlock, TypeOK, taskVars, Codes
  <2>2. CASE ~Finish(t, "E101")
    BY <1>0, <1>5, <2>2, GotoType DEF AddScan, TypeOK, taskVars
  <2>3. QED  BY <2>1, <2>2
<1>6. CASE AddAlloc(t)
  <2>1. CASE Finish(t, "ENOMEM")
    BY <1>6, <2>1, FinishType DEF AddAlloc, Unlock, TypeOK, taskVars, Codes
  <2>2. CASE ~Finish(t, "ENOMEM")
    BY <1>0, <1>6, <2>2, GotoType DEF AddAlloc, TypeOK, taskVars
  <2>3. QED  BY <2>1, <2>2
<1>7. CASE AddInsert(t)
  <2>1. [pid |-> req[t].pid, memory_limit |-> req[t].size] \in Entry
    BY <1>7 DEF AddInsert, ArgumentsChecked, AddPcs, Entry
  <2>2. memory_list' \in Seq(Entry)
    BY <1>7, <2>1, Prepended DEF AddInsert, TypeOK
  <2>3. QED  BY <1>7, <2>2, FinishType DEF AddInsert, Unlock, TypeOK, taskVars, Codes
<1>8. CASE UpdateScan(t)
  <2>1. memory_list' \in Seq(Entry)
    <3>1. CASE Listed(req[t].pid)
      <4> DEFINE i == IndexOf(req[t].pid)
                 e == [memory_list[i] EXCEPT !.memory_limit = req[t].size]
      <4>1. i \in 1..Len(memory_list)
        BY <3>1, IndexOfListed DEF TypeOK
      <4>2. memory_list[i] \in Entry
        BY <4>1, ElementOfSeq DEF TypeOK
      <4>3. req[t].size \in Sizes
        BY <1>8 DEF UpdateScan, ArgumentsChecked, UpdatePcs
      <4>4. e \in Entry
        BY <4>2, <4>3 DEF Entry
      <4>5. memory_list' = [memory_list EXCEPT ![i] = e]
        BY <1>8, <3>1 DEF UpdateScan
      <4> HIDE DEF i, e
      <4>6. QED  BY <4>1, <4>4, <4>5, ExceptSeq DEF TypeOK
    <3>2. CASE ~Listed(req[t].pid)
      BY <1>8, <3>2 DEF UpdateScan, TypeOK
    <3>3. QED  BY <3>1, <3>2
  <2>2. QED  BY <1>8, <2>1, FinishType DEF UpdateScan, Unlock, TypeOK, taskVars, Codes
<1>9. CASE RemoveScan(t)
  <2>1. memory_list' \in Seq(Entry)
    BY <1>9, IndexOfListed, Removed DEF RemoveScan, TypeOK
  <2>2. QED  BY <1>9, <2>1, FinishType DEF RemoveScan, Unlock, TypeOK, taskVars, Codes
<1>10. CASE GetScan(t)
  <2> DEFINE count == Min({req[t].size, Len(memory_list)})
  <2>1. req[t].size \in Nat /\ Len(memory_list) \in Nat
    BY LenProperties DEF TypeOK, Request
  <2>2. count \in Nat /\ count <= Len(memory_list)
    BY <2>1 DEF Min
  <2> HIDE DEF count
  <2>3. SubSeq(memory_list, 1, count) \in Seq(Entry)
    BY <2>1, <2>2, SubSeqProperties, ElementOfSeq DEF TypeOK
  <2>4. snapshot' \in [Tasks -> Seq(Entry)]
    BY <1>10, <2>3 DEF GetScan, TypeOK, count
  <2>5. QED  BY <1>0, <1>10, <2>4, GotoType DEF GetScan, Unlock, TypeOK, taskVars
<1>11. CASE GetCopy(t)
  <2>1. CASE Finish(t, "EFAULT")
    BY <1>11, <2>1, FinishType DEF GetCopy, TypeOK, registryVars, taskVars, Codes
  <2>2. CASE ~Finish(t, "EFAULT")
    BY <1>0, <1>11, <2>2, GotoType DEF GetCopy, TypeOK, registryVars, taskVars
  <2>3. QED  BY <2>1, <2>2
<1>12. CASE GetPut(t)
  BY <1>12, FinishType DEF GetPut, TypeOK, registryVars, taskVars, Codes
<1>13. CASE CheckReadUsage(t)
  BY <1>0, <1>13, GotoType DEF CheckReadUsage, TypeOK, registryVars, taskVars
<1>14. CASE CheckScan(t)
  <2>1. PICK code \in {"denied", "accepted"} : Finish(t, code)
    BY <1>14 DEF CheckScan
  <2>2. QED  BY <1>14, <2>1, FinishType DEF CheckScan, Unlock, TypeOK, taskVars, Codes
<1>15. QED
  BY <1>1, <1>2, <1>3, <1>4, <1>5, <1>6, <1>7, <1>8, <1>9, <1>10, <1>11, <1>12,
     <1>13, <1>14 DEF Step

LEMMA TypeOfEnvironment ==
  ASSUME TypeOK, Environment
  PROVE  TypeOK'
<1>1. ASSUME NEW t \in Tasks, Exit(t)  PROVE TypeOK'
  BY <1>1 DEF Exit, TypeOK, registryVars, callVars
<1>2. ASSUME NEW t \in Tasks, Reap(t)  PROVE TypeOK'
  BY <1>2 DEF Reap, TypeOK, registryVars
<1>3. ASSUME NEW t \in Tasks, NEW m \in Mms, Spawn(t, m)  PROVE TypeOK'
  BY <1>3 DEF Spawn, TypeOK, registryVars, callVars
<1>4. ASSUME NEW m \in Mms, Resize(m)  PROVE TypeOK'
  BY <1>4 DEF Resize, TypeOK, registryVars, taskVars, callVars
<1>5. QED  BY <1>1, <1>2, <1>3, <1>4 DEF Environment

-----------------------------------------------------------------------------
(* The mutex. *)

(* An action of t that leaves the mutex alone and moves t between control  *)
(* points on the same side of it keeps the discipline.                     *)
LEMMA MutexUntouched ==
  ASSUME TypeOK, MutexDiscipline, NEW t \in Tasks, UNCHANGED memory_list_mutex,
         NEW label, Goto(t, label), label \in CriticalPcs <=> pc[t] \in CriticalPcs
  PROVE  MutexDiscipline'
  BY DEF TypeOK, MutexDiscipline, Goto

LEMMA MutexReleased ==
  ASSUME TypeOK, MutexDiscipline, NEW t \in Tasks, Unlock(t), pc[t] \in CriticalPcs,
         NEW label, Goto(t, label), label \notin CriticalPcs
  PROVE  MutexDiscipline'
  BY TasksAssumption DEF TypeOK, MutexDiscipline, Goto, Unlock

LEMMA MutexOfEnter ==
  ASSUME TypeOK, MutexDiscipline, NEW t \in Tasks, Enter(t)
  PROVE  MutexDiscipline'
<1>1. /\ UNCHANGED memory_list_mutex
      /\ pc[t] = "idle"
      /\ \E label \in {"return", "add_usage", "update_lock", "remove_lock", "get_lock",
                       "check_usage"} : Goto(t, label)
  BY DEF Enter, AddEnter, UpdateEnter, RemoveEnter, GetEnter, CheckEnter, Idle, Finish,
         registryVars
<1>2. QED  BY <1>1, ControlPoints, MutexUntouched

LEMMA MutexOfStep ==
  ASSUME TypeOK, MutexDiscipline, NEW t \in Tasks, Step(t)
  PROVE  MutexDiscipline'
<1>1. CASE LockMutex(t)
  <2>1. AfterLock[pc[t]] \in CriticalPcs
    BY <1>1 DEF LockMutex, CriticalPcs
  <2>2. QED  BY <1>1, <2>1, TasksAssumption
             DEF LockMutex, Lock, Goto, TypeOK, MutexDiscipline
<1>2. CASE Return(t) \/ Oops(t) \/ AddReadUsage(t) \/ GetCopy(t) \/ GetPut(t)
             \/ CheckReadUsage(t)
  <2>1. /\ UNCHANGED memory_list_mutex
        /\ pc[t] \notin CriticalPcs
        /\ \E label \in {"idle", "return", "add_lock", "get_put", "check_lock"} :
             Goto(t, label)
    BY <1>2, ControlPoints
       DEF Return, Oops, AddReadUsage, GetCopy, GetPut, CheckReadUsage, Finish,
           registryVars, UsagePcs
  <2>2. QED  BY <2>1, ControlPoints, MutexUntouched
<1>3. CASE AddScan(t)
  BY <1>3, ControlPoints, MutexUntouched, MutexReleased DEF AddScan, Finish
<1>4. CASE AddAlloc(t)
  BY <1>4, ControlPoints, MutexUntouched, MutexReleased DEF AddAlloc, Finish
<1>5. CASE AddInsert(t) \/ UpdateScan(t) \/ RemoveScan(t) \/ CheckScan(t)
  BY <1>5, ControlPoints, MutexReleased
     DEF AddInsert, UpdateScan, RemoveScan, CheckScan, Finish
<1>6. CASE GetScan(t)
  BY <1>6, ControlPoints, MutexReleased DEF GetScan
<1>7. QED  BY <1>1, <1>2, <1>3, <1>4, <1>5, <1>6 DEF Step

-----------------------------------------------------------------------------
(* The arguments. *)

LEMMA ArgumentsOfEnter ==
  ASSUME TypeOK, ArgumentsChecked, NEW t \in Tasks, Enter(t)
  PROVE  ArgumentsChecked'
<1>1. CASE Goto(t, "return")
  BY <1>1 DEF Enter, AddEnter, UpdateEnter, RemoveEnter, GetEnter, CheckEnter, Accept,
              Goto, TypeOK, ArgumentsChecked, AddPcs, UpdatePcs, RemovePcs
<1>2. ASSUME NEW p \in PidArgs, NEW limit \in LimitArgs, AddEnter(t, p, limit),
             ~Goto(t, "return")
      PROVE  ArgumentsChecked'
  <2>1. /\ Goto(t, "add_usage") /\ t \in Admins
        /\ find_task_by_vpid(t, p) # NoTask /\ limit \in Sizes
    BY <1>2, SizesAssumption DEF AddEnter, Finish, Sizes
  <2>2. p \in Tasks
    BY <2>1 DEF find_task_by_vpid
  <2>3. req' = [req EXCEPT ![t] = [op |-> "add", pid |-> p, size |-> limit]]
    BY <1>2 DEF AddEnter, Accept
  <2>4. QED  BY <2>1, <2>2, <2>3
             DEF Goto, TypeOK, ArgumentsChecked, AddPcs, UpdatePcs, RemovePcs
<1>3. ASSUME NEW p \in PidArgs, NEW limit \in LimitArgs, UpdateEnter(t, p, limit),
             ~Goto(t, "return")
      PROVE  ArgumentsChecked'
  BY <1>3, SizesAssumption
     DEF UpdateEnter, Accept, Finish, Goto, TypeOK, ArgumentsChecked, PidArgs, Sizes,
         AddPcs, UpdatePcs, RemovePcs
<1>4. ASSUME NEW p \in PidArgs, RemoveEnter(t, p), ~Goto(t, "return")
      PROVE  ArgumentsChecked'
  BY <1>4 DEF RemoveEnter, Accept, Finish, Goto, TypeOK, ArgumentsChecked, PidArgs,
              AddPcs, UpdatePcs, RemovePcs
<1>5. ASSUME NEW n \in EntryArgs, GetEnter(t, n)
      PROVE  ArgumentsChecked'
  BY <1>5 DEF GetEnter, Accept, Finish, Goto, TypeOK, ArgumentsChecked,
              AddPcs, UpdatePcs, RemovePcs
<1>6. ASSUME NEW size \in SizeArgs, CheckEnter(t, size)
      PROVE  ArgumentsChecked'
  BY <1>6 DEF CheckEnter, Accept, Finish, Goto, TypeOK, ArgumentsChecked,
              AddPcs, UpdatePcs, RemovePcs
<1>7. QED  BY <1>1, <1>2, <1>3, <1>4, <1>5, <1>6 DEF Enter

(* A step of t stays in the call of t, or leaves it. *)
LEMMA StepStaysInCall ==
  ASSUME NEW t \in Tasks, Step(t), TypeOK
  PROVE  /\ pc'[t] \in AddPcs => pc[t] \in AddPcs
         /\ pc'[t] \in UpdatePcs => pc[t] \in UpdatePcs
         /\ pc'[t] \in RemovePcs => pc[t] \in RemovePcs
         /\ \A u \in Tasks \ {t} : pc'[u] = pc[u] /\ req'[u] = req[u]
         /\ pc'[t] # "idle" => req'[t] = req[t]
<1>1. CASE LockMutex(t)
  BY <1>1, ControlPoints
     DEF LockMutex, AfterLock, Goto, TypeOK, AddPcs, UpdatePcs, RemovePcs
<1>2. CASE Return(t) \/ Oops(t) \/ AddReadUsage(t) \/ GetCopy(t) \/ GetPut(t)
             \/ CheckReadUsage(t) \/ GetScan(t)
  BY <1>2 DEF Return, Oops, AddReadUsage, GetCopy, GetPut, CheckReadUsage, GetScan,
              Goto, Finish, TypeOK, AddPcs, UpdatePcs, RemovePcs
<1>3. CASE AddScan(t) \/ AddAlloc(t) \/ AddInsert(t) \/ UpdateScan(t) \/ RemoveScan(t)
             \/ CheckScan(t)
  BY <1>3 DEF AddScan, AddAlloc, AddInsert, UpdateScan, RemoveScan, CheckScan,
              Goto, Finish, TypeOK, AddPcs, UpdatePcs, RemovePcs
<1>4. QED  BY <1>1, <1>2, <1>3 DEF Step

LEMMA ArgumentsOfStep ==
  ASSUME TypeOK, ArgumentsChecked, NEW t \in Tasks, Step(t)
  PROVE  ArgumentsChecked'
<1> SUFFICES ASSUME NEW u \in Tasks
    PROVE  /\ pc'[u] \in AddPcs \cup UpdatePcs \cup RemovePcs =>
                u \in Admins /\ req'[u].pid \in Tasks
           /\ pc'[u] \in AddPcs \cup UpdatePcs => req'[u].size \in Sizes
  BY DEF ArgumentsChecked
<1>1. CASE u = t
  BY <1>1, StepStaysInCall DEF ArgumentsChecked, AddPcs, UpdatePcs, RemovePcs
<1>2. CASE u # t
  BY <1>2, StepStaysInCall DEF ArgumentsChecked
<1>3. QED  BY <1>1, <1>2

-----------------------------------------------------------------------------
(* The list. *)

(* Only list_add() makes a pid listed that was not, and it adds that of its *)
(* own call; only the holder of the mutex changes the list.                 *)
LEMMA WhoWrites ==
  ASSUME TypeOK, MutexDiscipline, ArgumentsChecked, UniquePids, NEW t \in Tasks, Step(t)
  PROVE  /\ memory_list' # memory_list => memory_list_mutex = t /\ t \in Admins
         /\ \A p : Listed(p)' => Listed(p) \/ (pc[t] = "add_insert" /\ p = req[t].pid)
<1>1. CASE LockMutex(t) \/ Return(t) \/ Oops(t) \/ AddReadUsage(t) \/ AddScan(t)
             \/ AddAlloc(t) \/ GetScan(t) \/ GetCopy(t) \/ GetPut(t)
             \/ CheckReadUsage(t) \/ CheckScan(t)
  <2>1. memory_list' = memory_list
    BY <1>1 DEF LockMutex, Return, Oops, AddReadUsage, AddScan, AddAlloc, GetScan,
                GetCopy, GetPut, CheckReadUsage, CheckScan, registryVars
  <2>2. QED  BY <2>1 DEF Listed
<1>2. CASE AddInsert(t)
  <2>1. memory_list_mutex = t /\ t \in Admins
    BY <1>2, ControlPoints DEF AddInsert, MutexDiscipline, ArgumentsChecked, AddPcs
  <2> DEFINE e == [pid |-> req[t].pid, memory_limit |-> req[t].size]
  <2>2. e \in Entry /\ memory_list' = <<e>> \o memory_list /\ pc[t] = "add_insert"
    BY <1>2 DEF AddInsert, ArgumentsChecked, AddPcs, Entry
  <2>3. e.pid = req[t].pid
    OBVIOUS
  <2> HIDE DEF e
  <2>4. memory_list \in Seq(Entry) /\ Len(memory_list) \in Nat
    BY LenProperties DEF TypeOK
  <2>5. ASSUME NEW p, Listed(p)', p # req[t].pid  PROVE Listed(p)
    <3>1. PICK i \in 1..(Len(memory_list) + 1) : memory_list'[i].pid = p
      BY <2>2, <2>4, <2>5, Prepended, LenProperties DEF Listed
    <3>2. i \in 2..(Len(memory_list) + 1)
      BY <2>2, <2>3, <2>4, <2>5, <3>1, Prepended
    <3>3. memory_list[i - 1].pid = p /\ i - 1 \in 1..Len(memory_list)
      BY <2>2, <2>4, <3>1, <3>2, Prepended
    <3>4. QED  BY <2>4, <3>3, LenProperties DEF Listed
  <2>6. QED  BY <2>1, <2>2, <2>5
<1>3. CASE UpdateScan(t)
  <2>1. memory_list_mutex = t /\ t \in Admins
    BY <1>3, ControlPoints DEF UpdateScan, MutexDiscipline, ArgumentsChecked, UpdatePcs
  <2>2. CASE memory_list' = memory_list
    BY <2>2 DEF Listed
  <2>3. CASE memory_list' # memory_list
    <3> DEFINE i == IndexOf(req[t].pid)
               e == [memory_list[i] EXCEPT !.memory_limit = req[t].size]
    <3>1. Listed(req[t].pid) /\ memory_list' = [memory_list EXCEPT ![i] = e]
      BY <1>3, <2>3 DEF UpdateScan
    <3>2. i \in 1..Len(memory_list) /\ DOMAIN memory_list = 1..Len(memory_list)
      BY <3>1, IndexOfListed, LenProperties DEF TypeOK
    <3>3. e.pid = memory_list[i].pid
      BY <3>2, ElementOfSeq DEF TypeOK, Entry
    <3> HIDE DEF i, e
    <3>4. QED  BY <2>1, <3>1, <3>2, <3>3 DEF Listed
  <2>4. QED  BY <2>2, <2>3
<1>4. CASE RemoveScan(t)
  <2>1. memory_list_mutex = t /\ t \in Admins
    BY <1>4, ControlPoints DEF RemoveScan, MutexDiscipline, ArgumentsChecked, RemovePcs
  <2>2. CASE memory_list' = memory_list
    BY <2>2 DEF Listed
  <2>3. CASE memory_list' # memory_list
    <3> DEFINE i == IndexOf(req[t].pid)
    <3>1. Listed(req[t].pid) /\ memory_list' = RemoveAt(memory_list, i)
      BY <1>4, <2>3 DEF RemoveScan
    <3>2. /\ i \in 1..Len(memory_list) /\ DOMAIN memory_list = 1..Len(memory_list)
          /\ memory_list \in Seq(Entry) /\ Len(memory_list) \in Nat
      BY <3>1, IndexOfListed, LenProperties DEF TypeOK
    <3> HIDE DEF i
    <3>3. /\ DOMAIN memory_list' = 1..(Len(memory_list) - 1)
          /\ \A j \in 1..(Len(memory_list) - 1) :
               memory_list'[j] = IF j < i THEN memory_list[j] ELSE memory_list[j + 1]
      BY <3>1, <3>2, Removed, LenProperties
    <3>4. QED  BY <2>1, <3>2, <3>3 DEF Listed
  <2>4. QED  BY <2>2, <2>3
<1>5. QED  BY <1>1, <1>2, <1>3, <1>4 DEF Step

(* No two tasks are in critical sections at once. *)
LEMMA MutualExclusion ==
  ASSUME MutexDiscipline, NEW t \in Tasks, NEW u \in Tasks,
         pc[t] \in CriticalPcs, pc[u] \in CriticalPcs
  PROVE  t = u
  BY DEF MutexDiscipline

LEMMA ScanOfStep ==
  ASSUME TypeOK, MutexDiscipline, ArgumentsChecked, ScanStillValid, UniquePids,
         NEW t \in Tasks, Step(t)
  PROVE  ScanStillValid'
<1> SUFFICES ASSUME NEW u \in Tasks, pc'[u] \in {"add_alloc", "add_insert"}
    PROVE  ~Listed(req[u].pid)'
  BY DEF ScanStillValid
<1>1. CASE u # t
  <2>1. pc[u] \in {"add_alloc", "add_insert"} /\ req'[u] = req[u]
    BY <1>1, StepStaysInCall
  <2>2. ~Listed(req[u].pid)
    BY <2>1 DEF ScanStillValid
  <2>3. pc[t] # "add_insert"
    BY <1>1, <2>1, MutualExclusion, ControlPoints
  <2>4. QED  BY <2>1, <2>2, <2>3, WhoWrites
<1>2. CASE u = t
  <2>1. AddScan(t) \/ AddAlloc(t)
    BY <1>2, ControlPoints
       DEF Step, LockMutex, AfterLock, Return, Oops, AddReadUsage, AddInsert, UpdateScan,
           RemoveScan, GetScan, GetCopy, GetPut, CheckReadUsage, CheckScan, Finish, Goto,
           TypeOK
  <2>2. ~Listed(req[t].pid) /\ req' = req /\ memory_list' = memory_list
    BY <1>2, <2>1 DEF AddScan, AddAlloc, ScanStillValid, Finish, Goto, TypeOK
  <2>3. QED  BY <1>2, <2>2 DEF Listed
<1>3. QED  BY <1>1, <1>2

LEMMA UniqueOfStep ==
  ASSUME TypeOK, ArgumentsChecked, ScanStillValid, UniquePids, NEW t \in Tasks, Step(t)
  PROVE  UniquePids'
<1>1. CASE memory_list' = memory_list
  BY <1>1 DEF UniquePids
<1>2. CASE AddInsert(t)
  <2> DEFINE e == [pid |-> req[t].pid, memory_limit |-> req[t].size]
  <2>1. e \in Entry /\ memory_list' = <<e>> \o memory_list /\ ~Listed(e.pid)
    BY <1>2 DEF AddInsert, ArgumentsChecked, ScanStillValid, AddPcs, Entry
  <2> HIDE DEF e
  <2>2. /\ memory_list \in Seq(Entry) /\ Len(memory_list) \in Nat
        /\ DOMAIN memory_list = 1..Len(memory_list)
    BY LenProperties DEF TypeOK
  <2>3. /\ DOMAIN memory_list' = 1..(Len(memory_list) + 1)
        /\ memory_list'[1] = e
        /\ \A i \in 2..(Len(memory_list) + 1) : memory_list'[i] = memory_list[i - 1]
    BY <2>1, <2>2, Prepended, LenProperties
  <2>4. \A i \in 1..Len(memory_list) : memory_list[i].pid # e.pid
    BY <2>1, <2>2 DEF Listed
  <2>5. SUFFICES ASSUME NEW i \in DOMAIN memory_list', NEW j \in DOMAIN memory_list',
                        memory_list'[i].pid = memory_list'[j].pid
                 PROVE  i = j
    BY DEF UniquePids
  <2>6. CASE i = 1 \/ j = 1
    <3>1. ASSUME NEW k \in DOMAIN memory_list', k # 1  PROVE memory_list'[k].pid # e.pid
      <4>1. k \in 2..(Len(memory_list) + 1) /\ k - 1 \in 1..Len(memory_list)
        BY <2>2, <2>3, <3>1
      <4>2. QED  BY <2>3, <2>4, <4>1
    <3>2. QED  BY <2>3, <2>5, <2>6, <3>1
  <2>7. CASE i # 1 /\ j # 1
    <3>1. /\ i \in 2..(Len(memory_list) + 1) /\ i - 1 \in DOMAIN memory_list
          /\ j \in 2..(Len(memory_list) + 1) /\ j - 1 \in DOMAIN memory_list
      BY <2>2, <2>3, <2>7
    <3>2. memory_list[i - 1].pid = memory_list[j - 1].pid
      BY <2>3, <2>5, <3>1
    <3>3. i - 1 = j - 1
      BY <3>1, <3>2 DEF UniquePids
    <3>4. QED  BY <3>1, <3>3
  <2>8. QED  BY <2>6, <2>7
<1>3. CASE UpdateScan(t) /\ memory_list' # memory_list
  <2> DEFINE i == IndexOf(req[t].pid)
             e == [memory_list[i] EXCEPT !.memory_limit = req[t].size]
  <2>1. Listed(req[t].pid) /\ memory_list' = [memory_list EXCEPT ![i] = e]
    BY <1>3 DEF UpdateScan
  <2>2. i \in 1..Len(memory_list) /\ DOMAIN memory_list = 1..Len(memory_list)
    BY <2>1, IndexOfListed, LenProperties DEF TypeOK
  <2>3. e.pid = memory_list[i].pid
    BY <2>2, ElementOfSeq DEF TypeOK, Entry
  <2> HIDE DEF i, e
  <2>4. QED  BY <2>1, <2>2, <2>3 DEF UniquePids
<1>4. CASE RemoveScan(t) /\ memory_list' # memory_list
  <2> DEFINE i == IndexOf(req[t].pid)
  <2>1. Listed(req[t].pid) /\ memory_list' = RemoveAt(memory_list, i)
    BY <1>4 DEF RemoveScan
  <2>2. /\ i \in 1..Len(memory_list) /\ DOMAIN memory_list = 1..Len(memory_list)
        /\ memory_list \in Seq(Entry) /\ Len(memory_list) \in Nat
    BY <2>1, IndexOfListed, LenProperties DEF TypeOK
  <2> HIDE DEF i
  <2>3. /\ DOMAIN memory_list' = 1..(Len(memory_list) - 1)
        /\ \A j \in 1..(Len(memory_list) - 1) :
             memory_list'[j] = IF j < i THEN memory_list[j] ELSE memory_list[j + 1]
    BY <2>1, <2>2, Removed, LenProperties
  <2>4. ASSUME NEW j \in 1..(Len(memory_list) - 1), NEW k \in 1..(Len(memory_list) - 1),
               memory_list'[j].pid = memory_list'[k].pid
        PROVE  j = k
    <3> DEFINE was(n) == IF n < i THEN n ELSE n + 1
    <3>1. /\ was(j) \in DOMAIN memory_list /\ memory_list'[j] = memory_list[was(j)]
          /\ was(k) \in DOMAIN memory_list /\ memory_list'[k] = memory_list[was(k)]
      BY <2>2, <2>3
    <3>2. was(j) = was(k)
      BY <2>4, <3>1 DEF UniquePids
    <3>3. QED  BY <2>2, <3>2
  <2>5. QED  BY <2>3, <2>4 DEF UniquePids
<1>5. QED
  BY <1>1, <1>2, <1>3, <1>4
     DEF Step, LockMutex, Return, Oops, AddReadUsage, AddScan, AddAlloc, GetScan,
         GetCopy, GetPut, CheckReadUsage, CheckScan, registryVars

-----------------------------------------------------------------------------
(* The invariant is inductive. *)

LEMMA InvInit == Init => IInv
<1> SUFFICES ASSUME Init  PROVE IInv
  OBVIOUS
<1>1. TypeOK
  BY TypeInit
<1>2. MutexDiscipline
  BY ControlPoints, TasksAssumption DEF Init, MutexDiscipline
<1>3. ArgumentsChecked /\ ScanStillValid
  BY DEF Init, ArgumentsChecked, ScanStillValid, AddPcs, UpdatePcs, RemovePcs
<1>4. UniquePids
  BY DEF Init, UniquePids
<1>5. QED  BY <1>1, <1>2, <1>3, <1>4 DEF IInv

LEMMA InvNext == IInv /\ [Next]_vars => IInv'
<1> SUFFICES ASSUME TypeOK, MutexDiscipline, ArgumentsChecked, ScanStillValid, UniquePids,
                    [Next]_vars
    PROVE  IInv'
  BY DEF IInv
<1>1. ASSUME NEW t \in Tasks, Enter(t)  PROVE IInv'
  <2>1. TypeOK' /\ MutexDiscipline' /\ ArgumentsChecked'
    BY <1>1, TypeEnter, MutexOfEnter, ArgumentsOfEnter
  <2>2. /\ UNCHANGED memory_list
        /\ \A u \in Tasks \ {t} : pc'[u] = pc[u] /\ req'[u] = req[u]
        /\ pc'[t] \notin {"add_alloc", "add_insert"}
    BY <1>1 DEF Enter, AddEnter, UpdateEnter, RemoveEnter, GetEnter, CheckEnter, Accept,
                Finish, Goto, TypeOK, registryVars
  <2>3. ScanStillValid' /\ UniquePids'
    BY <2>2 DEF ScanStillValid, Listed, UniquePids
  <2>4. QED  BY <2>1, <2>3 DEF IInv
<1>2. ASSUME NEW t \in Tasks, Step(t)  PROVE IInv'
  BY <1>2, TypeOfStep, MutexOfStep, ArgumentsOfStep, ScanOfStep, UniqueOfStep DEF IInv
<1>3. CASE Environment
  <2>1. UNCHANGED <<memory_list, memory_list_mutex, pc, req>>
    BY <1>3 DEF Environment, Exit, Reap, Spawn, Resize, registryVars, callVars
  <2>2. TypeOK'
    BY <1>3, TypeOfEnvironment
  <2>3. QED  BY <2>1, <2>2 DEF IInv, MutexDiscipline, ArgumentsChecked, ScanStillValid,
                               Listed, UniquePids
<1>4. CASE UNCHANGED vars
  BY <1>4 DEF vars, registryVars, taskVars, callVars, IInv, TypeOK, MutexDiscipline,
              ArgumentsChecked, ScanStillValid, Listed, UniquePids
<1>5. QED  BY <1>1, <1>2, <1>3, <1>4 DEF Next

LEMMA Invariance == Spec => []IInv
  BY InvInit, InvNext, PTL DEF Spec, SafetySpec

-----------------------------------------------------------------------------
(* The theorems. *)

(* Every variable of the registry keeps its type.                           *)
THEOREM TypeCorrect == Spec => []TypeOK
<1>1. IInv => TypeOK
  BY DEF IInv
<1>2. QED  BY <1>1, Invariance, PTL

(* main.c never lists a pid twice, however many adds race for it.           *)
THEOREM PidsAreUnique == Spec => []UniquePids
<1>1. IInv => UniquePids
  BY DEF IInv
<1>2. QED  BY <1>1, Invariance, PTL

(* memory_list_mutex is held by the one task inside a critical section of   *)
(* main.c, and by nobody when there is none.                                *)
THEOREM MutexIsDisciplined == Spec => []MutexDiscipline
<1>1. IInv => MutexDiscipline
  BY DEF IInv
<1>2. QED  BY <1>1, Invariance, PTL

(* The list changes only under the mutex, in a call of a task that passed   *)
(* capable(CAP_SYS_ADMIN).                                                  *)
THEOREM WritersAreAdmins == Spec => OnlyAdminsWrite
<1>1. IInv /\ [Next]_vars => [memory_list' # memory_list => memory_list_mutex \in Admins]_vars
  <2> SUFFICES ASSUME IInv, [Next]_vars, memory_list' # memory_list
      PROVE  memory_list_mutex \in Admins
    OBVIOUS
  <2>1. CASE \E t \in Tasks : Step(t)
    BY <2>1, WhoWrites DEF IInv
  <2>2. CASE ~ \E t \in Tasks : Step(t)
    BY <2>2 DEF Next, Enter, AddEnter, UpdateEnter, RemoveEnter, GetEnter, CheckEnter,
                Environment, Exit, Reap, Spawn, Resize, vars, registryVars
  <2>3. QED  BY <2>1, <2>2
<1>2. QED  BY <1>1, Invariance, PTL DEF Spec, SafetySpec, OnlyAdminsWrite

-----------------------------------------------------------------------------
(* MemoryLimits implements LimitLedger: every call of main.c takes effect   *)
(* at one instant between its invocation and its return.                    *)
(*                                                                          *)
(* The invariant is strengthened by what a call still knows of how it       *)
(* began: which of the five it is, that an add has a limit that is no       *)
(* negative long, and that what the gate is going to compare is a usage     *)
(* that some address space could have.                                      *)

GetPcs   == {"get_lock", "get_scan", "get_copy", "get_put"}
GatePcs  == {"check_lock", "check_scan"}
CheckPcs == {"check_usage"} \cup GatePcs

CallIsNamed(t) ==
  /\ pc[t] \in AddPcs => req[t].op = "add" /\ ~NegativeAsLong(req[t].size)
  /\ pc[t] \in UpdatePcs => req[t].op = "update"
  /\ pc[t] \in RemovePcs => req[t].op = "remove"
  /\ pc[t] \in GetPcs => req[t].op = "get"
  /\ pc[t] \in CheckPcs => req[t].op = "check"
  /\ pc[t] \in GatePcs => \E pages \in 0..MaxVm : usage[t] = Bytes(pages)

LInv == IInv /\ \A t \in Tasks : CallIsNamed(t)

-----------------------------------------------------------------------------
(* A call is what it was when it began. *)

LEMMA NamedOfEnter ==
  ASSUME TypeOK, NEW t \in Tasks, CallIsNamed(t), Enter(t)
  PROVE  CallIsNamed(t)'
<1>0. PICK r : req' = [req EXCEPT ![t] = r]
  BY DEF Enter, AddEnter, UpdateEnter, RemoveEnter, GetEnter, CheckEnter, Accept
<1>1. CASE Goto(t, "return")
  BY <1>1 DEF Goto, TypeOK, CallIsNamed, AddPcs, UpdatePcs, RemovePcs, GetPcs, CheckPcs,
              GatePcs
<1>2. ASSUME NEW op, NEW p, NEW size, Accept(t, op, p, size)
      PROVE  req'[t].op = op /\ req'[t].size = size
  <2> DEFINE q == [op |-> op, pid |-> p, size |-> size]
  <2>1. req' = [req EXCEPT ![t] = q] /\ q.op = op /\ q.size = size
    BY <1>2 DEF Accept
  <2> HIDE DEF q
  <2>2. QED  BY <2>1 DEF TypeOK
<1>3. ASSUME NEW p, NEW limit, AddEnter(t, p, limit), ~Goto(t, "return")
      PROVE  CallIsNamed(t)'
  <2>1. Goto(t, "add_usage") /\ ~NegativeAsLong(limit) /\ Accept(t, "add", p, limit)
    BY <1>3 DEF AddEnter, Finish
  <2>2. req'[t].op = "add" /\ req'[t].size = limit /\ pc'[t] = "add_usage"
    BY <1>2, <2>1 DEF Goto, TypeOK
  <2>3. QED  BY <2>1, <2>2 DEF CallIsNamed, NegativeAsLong, AddPcs, UpdatePcs, RemovePcs,
                               GetPcs, CheckPcs, GatePcs
<1>4. ASSUME NEW label, NEW op, NEW p, NEW size,
             <<op, label>> \in {<<"update", "update_lock">>, <<"remove", "remove_lock">>,
                                <<"get", "get_lock">>, <<"check", "check_usage">>},
             Accept(t, op, p, size), Goto(t, label)
      PROVE  CallIsNamed(t)'
  <2>1. req'[t].op = op /\ pc'[t] = label
    BY <1>2, <1>4 DEF Goto, TypeOK
  <2>2. QED  BY <1>4, <2>1 DEF CallIsNamed, AddPcs, UpdatePcs, RemovePcs, GetPcs,
                               CheckPcs, GatePcs
<1>5. ASSUME NEW p, NEW limit, UpdateEnter(t, p, limit), ~Goto(t, "return")
      PROVE  CallIsNamed(t)'
  BY <1>4, <1>5 DEF UpdateEnter, Finish
<1>6. ASSUME NEW p, RemoveEnter(t, p), ~Goto(t, "return")  PROVE CallIsNamed(t)'
  BY <1>4, <1>6 DEF RemoveEnter, Finish
<1>7. ASSUME NEW n, GetEnter(t, n), ~Goto(t, "return")  PROVE CallIsNamed(t)'
  BY <1>4, <1>7 DEF GetEnter, Finish
<1>8. ASSUME NEW size, CheckEnter(t, size), ~Goto(t, "return")  PROVE CallIsNamed(t)'
  BY <1>4, <1>8 DEF CheckEnter, Finish
<1>9. QED  BY <1>1, <1>3, <1>5, <1>6, <1>7, <1>8 DEF Enter

LEMMA NamedOfStep ==
  ASSUME TypeOK, NEW t \in Tasks, CallIsNamed(t), Step(t)
  PROVE  CallIsNamed(t)'
<1>1. CASE pc'[t] \in {"idle", "return"}
  BY <1>1 DEF CallIsNamed, AddPcs, UpdatePcs, RemovePcs, GetPcs, CheckPcs, GatePcs
<1>2. CASE CheckReadUsage(t)
  <2>1. PICK u \in Sizes : MayReadUsage(t, u) /\ usage' = [usage EXCEPT ![t] = u]
    BY <1>2 DEF CheckReadUsage
  <2>2. \E pages \in 0..MaxVm : u = Bytes(pages)
    BY <2>1 DEF MayReadUsage, TypeOK
  <2>3. /\ pc[t] = "check_usage" /\ pc'[t] = "check_lock" /\ req' = req
        /\ usage'[t] = u
    BY <1>2, <2>1 DEF CheckReadUsage, Goto, TypeOK
  <2>4. QED  BY <2>2, <2>3 DEF CallIsNamed, AddPcs, UpdatePcs, RemovePcs, GetPcs,
                               CheckPcs, GatePcs, Bytes
<1>3. CASE LockMutex(t)
  <2>1. pc[t] \in WaitingPcs /\ pc'[t] = AfterLock[pc[t]] /\ UNCHANGED <<req, usage>>
    BY <1>3 DEF LockMutex, Goto, TypeOK
  <2>2. pc'[t] = CASE pc[t] = "add_lock" -> "add_scan"
                   [] pc[t] = "update_lock" -> "update_scan"
                   [] pc[t] = "remove_lock" -> "remove_scan"
                   [] pc[t] = "get_lock" -> "get_scan"
                   [] pc[t] = "check_lock" -> "check_scan"
    BY <2>1, ControlPoints DEF AfterLock
  <2>3. QED  BY <2>1, <2>2, ControlPoints
             DEF CallIsNamed, AddPcs, UpdatePcs, RemovePcs, GetPcs, CheckPcs, GatePcs,
                 NegativeAsLong, Bytes
<1>4. CASE AddReadUsage(t) \/ AddScan(t) \/ AddAlloc(t) \/ AddInsert(t)
  BY <1>1, <1>4
     DEF AddReadUsage, AddScan, AddAlloc, AddInsert, Finish, Goto, TypeOK, CallIsNamed,
         AddPcs, UpdatePcs, RemovePcs, GetPcs, CheckPcs, GatePcs, NegativeAsLong
<1>5. CASE GetScan(t) \/ GetCopy(t) \/ GetPut(t)
  BY <1>1, <1>5
     DEF GetScan, GetCopy, GetPut, Finish, Goto, TypeOK, CallIsNamed,
         AddPcs, UpdatePcs, RemovePcs, GetPcs, CheckPcs, GatePcs
<1>6. CASE Return(t) \/ Oops(t) \/ UpdateScan(t) \/ RemoveScan(t) \/ CheckScan(t)
  BY <1>1, <1>6
     DEF Return, Oops, UpdateScan, RemoveScan, CheckScan, Finish, Goto, TypeOK
<1>7. QED  BY <1>2, <1>3, <1>4, <1>5, <1>6 DEF Step

LEMMA NamedKept ==
  ASSUME NEW t \in Tasks, CallIsNamed(t), pc'[t] = pc[t], req'[t] = req[t],
         usage'[t] = usage[t]
  PROVE  CallIsNamed(t)'
  BY DEF CallIsNamed, NegativeAsLong, Bytes

LEMMA OthersUntouched ==
  ASSUME TypeOK, NEW t \in Tasks, NEW u \in Tasks, u # t, Enter(t) \/ Step(t)
  PROVE  pc'[u] = pc[u] /\ req'[u] = req[u] /\ usage'[u] = usage[u] /\ ret'[u] = ret[u]
           /\ snapshot'[u] = snapshot[u]
<1>1. CASE Enter(t)
  BY <1>1 DEF Enter, AddEnter, UpdateEnter, RemoveEnter, GetEnter, CheckEnter, Accept,
              Finish, Goto, TypeOK
<1>2. CASE LockMutex(t) \/ Return(t) \/ Oops(t) \/ AddReadUsage(t) \/ AddScan(t)
             \/ AddAlloc(t) \/ AddInsert(t)
  BY <1>2 DEF LockMutex, Return, Oops, AddReadUsage, AddScan, AddAlloc, AddInsert,
              Finish, Goto, TypeOK
<1>3. CASE UpdateScan(t) \/ RemoveScan(t) \/ GetScan(t) \/ GetCopy(t) \/ GetPut(t)
             \/ CheckReadUsage(t) \/ CheckScan(t)
  BY <1>3 DEF UpdateScan, RemoveScan, GetScan, GetCopy, GetPut, CheckReadUsage, CheckScan,
              Finish, Goto, TypeOK
<1>4. QED  BY <1>1, <1>2, <1>3 DEF Step

LEMMA LInvInit == Init => LInv
<1>1. Init => \A t \in Tasks : CallIsNamed(t)
  BY DEF Init, CallIsNamed, AddPcs, UpdatePcs, RemovePcs, GetPcs, CheckPcs, GatePcs
<1>2. QED  BY <1>1, InvInit DEF LInv

LEMMA LInvNext == LInv /\ [Next]_vars => LInv'
<1> SUFFICES ASSUME LInv, [Next]_vars, NEW u \in Tasks  PROVE CallIsNamed(u)'
  BY InvNext DEF LInv
<1>0. TypeOK /\ CallIsNamed(u)
  BY DEF LInv, IInv
<1>1. ASSUME NEW t \in Tasks, Enter(t) \/ Step(t)  PROVE CallIsNamed(u)'
  <2>1. CASE u = t
    BY <1>0, <1>1, <2>1, NamedOfEnter, NamedOfStep
  <2>2. CASE u # t
    BY <1>0, <1>1, <2>2, OthersUntouched, NamedKept
  <2>3. QED  BY <2>1, <2>2
<1>2. CASE Environment \/ UNCHANGED vars
  <2>1. UNCHANGED <<pc, req, usage>>
    BY <1>2 DEF Environment, Exit, Reap, Spawn, Resize, callVars, vars
  <2>2. QED  BY <1>0, <2>1, NamedKept
<1>3. QED  BY <1>1, <1>2 DEF Next

-----------------------------------------------------------------------------
(* What the ledger sees. *)

Shape(label) ==
  IF label = "idle" THEN "idle"
  ELSE IF label \in CopyPcs \cup {"return"} THEN "done" ELSE "pending"

LEMMA Seen ==
  ASSUME NEW t \in Tasks
  PROVE  /\ Phase[t] = Shape(pc[t]) /\ Phase'[t] = Shape(pc'[t])
         /\ Answer[t] = IF pc[t] \in CopyPcs THEN "0" ELSE ret[t]
         /\ Answer'[t] = IF pc'[t] \in CopyPcs THEN "0" ELSE ret'[t]
  BY DEF Phase, Answer, Shape, CopyPcs

LEMMA SeenMoves ==
  ASSUME NEW t \in Tasks, \A u \in Tasks \ {t} : pc'[u] = pc[u] /\ ret'[u] = ret[u]
  PROVE  /\ Phase' = [Phase EXCEPT ![t] = Shape(pc'[t])]
         /\ Answer' = [Answer EXCEPT ![t] = IF pc'[t] \in CopyPcs THEN "0" ELSE ret'[t]]
<1>1. /\ Phase = [u \in Tasks |-> Phase[u]] /\ Phase' = [u \in Tasks |-> Phase'[u]]
      /\ Answer = [u \in Tasks |-> Answer[u]] /\ Answer' = [u \in Tasks |-> Answer'[u]]
  BY DEF Phase, Answer
<1>2. \A u \in Tasks \ {t} : Phase'[u] = Phase[u] /\ Answer'[u] = Answer[u]
  BY Seen
<1>3. /\ Phase'[t] = Shape(pc'[t])
      /\ Answer'[t] = IF pc'[t] \in CopyPcs THEN "0" ELSE ret'[t]
  BY Seen
<1>4. QED  BY <1>1, <1>2, <1>3

(* The list as a function. *)
LimitsOfList ==
  /\ Limits = [p \in ListedPids |-> Limits[p]]
  /\ \A p : p \in ListedPids <=> Listed(p)
  /\ \A i \in DOMAIN memory_list :
       Limits[memory_list[i].pid] = memory_list[i].memory_limit
  /\ \A p \in ListedPids :
       IndexOf(p) \in DOMAIN memory_list /\ memory_list[IndexOf(p)].pid = p

LEMMA ListIsFunction == UniquePids /\ TypeOK => LimitsOfList
<1> SUFFICES ASSUME UniquePids, memory_list \in Seq(Entry)  PROVE LimitsOfList
  BY DEF TypeOK
<1>1. Limits = [p \in ListedPids |-> Limits[p]]
  BY DEF Limits
<1>2. \A p : p \in ListedPids <=> Listed(p)
  BY DEF ListedPids, Listed
<1>3. DOMAIN memory_list = 1..Len(memory_list) /\ Len(memory_list) \in Nat
  BY LenProperties
<1>4. ASSUME NEW i \in DOMAIN memory_list
      PROVE  Limits[memory_list[i].pid] = memory_list[i].memory_limit
  <2> DEFINE p == memory_list[i].pid
  <2>1. Listed(p) /\ p \in ListedPids
    BY DEF Listed, ListedPids
  <2>2. IndexOf(p) \in 1..Len(memory_list) /\ memory_list[IndexOf(p)].pid = p
    BY <2>1, IndexOfListed
  <2>3. IndexOf(p) = i
    BY <1>3, <2>2 DEF UniquePids
  <2>4. QED  BY <2>1, <2>3 DEF Limits
<1>5. \A p \in ListedPids :
        IndexOf(p) \in DOMAIN memory_list /\ memory_list[IndexOf(p)].pid = p
  BY <1>2, <1>3, IndexOfListed
<1>6. QED  BY <1>1, <1>2, <1>4, <1>5 DEF LimitsOfList

LEMMA ListIsFunctionNext == (UniquePids /\ TypeOK => LimitsOfList)'
  BY ListIsFunction, PTL

LEMMA LimitsKept ==
  ASSUME memory_list' = memory_list
  PROVE  Limits' = Limits
<1>1. ListedPids' = ListedPids
  BY DEF ListedPids
<1>2. \A p : IndexOf(p)' = IndexOf(p)
  BY DEF IndexOf
<1>3. QED  BY <1>1, <1>2 DEF Limits

(* list_add(): one more pid with the limit of its entry. *)
LEMMA LimitsAdd ==
  ASSUME LInv, LInv', NEW e \in Entry, memory_list' = <<e>> \o memory_list,
         ~Listed(e.pid)
  PROVE  Limits' = [p \in DOMAIN Limits \cup {e.pid} |->
                      IF p = e.pid THEN e.memory_limit ELSE Limits[p]]
<1>1. LimitsOfList /\ LimitsOfList'
  BY ListIsFunction, ListIsFunctionNext DEF LInv, IInv
<1>2. /\ memory_list \in Seq(Entry) /\ Len(memory_list) \in Nat
      /\ DOMAIN memory_list = 1..Len(memory_list)
  BY LenProperties DEF LInv, IInv, TypeOK
<1>3. /\ DOMAIN memory_list' = 1..(Len(memory_list) + 1) /\ memory_list'[1] = e
      /\ \A i \in 1..Len(memory_list) : memory_list'[i + 1] = memory_list[i]
  <2>1. \A i \in 2..(Len(memory_list) + 1) : memory_list'[i] = memory_list[i - 1]
    BY <1>2, Prepended
  <2>2. \A i \in 1..Len(memory_list) :
          i + 1 \in 2..(Len(memory_list) + 1) /\ (i + 1) - 1 = i
    BY <1>2
  <2>3. memory_list' \in Seq(Entry) /\ Len(memory_list') = Len(memory_list) + 1
          /\ memory_list'[1] = e
    BY <1>2, Prepended
  <2>4. QED  BY <2>1, <2>2, <2>3, LenProperties
<1>4. Limits'[e.pid] = e.memory_limit /\ e.pid \in ListedPids'
  <2>1. 1 \in DOMAIN memory_list'
    BY <1>2, <1>3
  <2>2. QED  BY <1>1, <1>3, <2>1 DEF LimitsOfList, Listed
<1>5. ASSUME NEW p \in ListedPids  PROVE p \in ListedPids' /\ Limits'[p] = Limits[p]
  <2>1. PICK i \in 1..Len(memory_list) : memory_list[i].pid = p
    BY <1>1, <1>2 DEF LimitsOfList
  <2>2. memory_list'[i + 1] = memory_list[i] /\ i + 1 \in DOMAIN memory_list'
    BY <1>2, <1>3
  <2>3. p \in ListedPids'
    BY <1>1, <2>1, <2>2 DEF LimitsOfList, Listed
  <2>4. Limits'[p] = memory_list[i].memory_limit
    BY <1>1, <2>1, <2>2 DEF LimitsOfList
  <2>5. Limits[p] = memory_list[i].memory_limit
    BY <1>1, <1>2, <2>1 DEF LimitsOfList
  <2>6. QED  BY <2>3, <2>4, <2>5
<1>6. ASSUME NEW p \in ListedPids', p # e.pid  PROVE p \in ListedPids
  <2>1. PICK i \in 1..(Len(memory_list) + 1) : memory_list'[i].pid = p
    BY <1>1, <1>3 DEF LimitsOfList
  <2>2. i - 1 \in 1..Len(memory_list) /\ memory_list'[(i - 1) + 1] = memory_list[i - 1]
    BY <1>2, <1>3, <1>6, <2>1
  <2>3. memory_list[i - 1].pid = p
    BY <1>2, <2>1, <2>2
  <2>4. QED  BY <1>1, <1>2, <2>2, <2>3 DEF LimitsOfList, Listed
<1>7. e.pid \notin ListedPids
  BY <1>1 DEF LimitsOfList
<1>8. ListedPids' = ListedPids \cup {e.pid}
  BY <1>4, <1>5, <1>6
<1>9. DOMAIN Limits = ListedPids
  BY DEF Limits
<1>10. Limits' = [p \in ListedPids' |-> Limits'[p]]
  BY <1>1 DEF LimitsOfList
<1>11. QED  BY <1>4, <1>5, <1>7, <1>8, <1>9, <1>10

(* The entry of a listed pid changes its limit and nothing else. *)
LEMMA LimitsUpdate ==
  ASSUME LInv, LInv', NEW p, Listed(p), NEW size \in Sizes,
         memory_list' = [memory_list EXCEPT ![IndexOf(p)].memory_limit = size]
  PROVE  Limits' = [Limits EXCEPT ![p] = size]
<1> DEFINE k == IndexOf(p)
           e == [memory_list[k] EXCEPT !.memory_limit = size]
<1>1. LimitsOfList /\ LimitsOfList'
  BY ListIsFunction, ListIsFunctionNext DEF LInv, IInv
<1>2. p \in ListedPids /\ k \in DOMAIN memory_list /\ memory_list[k].pid = p
  BY <1>1 DEF LimitsOfList
<1>3. UniquePids /\ memory_list \in Seq(Entry)
  BY DEF LInv, IInv, TypeOK
<1>4. memory_list[k] \in Entry
  BY <1>2, <1>3, ElementOfSeq, LenProperties
<1>5. e.pid = p /\ e.memory_limit = size
  BY <1>2, <1>4 DEF Entry
<1>6. memory_list' = [memory_list EXCEPT ![k] = e]
  OBVIOUS
<1> HIDE DEF k, e
<1>7. /\ DOMAIN memory_list' = DOMAIN memory_list
      /\ memory_list'[k] = e
      /\ \A i \in DOMAIN memory_list \ {k} : memory_list'[i] = memory_list[i]
  BY <1>2, <1>6
<1>8. \A i \in DOMAIN memory_list : memory_list'[i].pid = memory_list[i].pid
  BY <1>2, <1>5, <1>7
<1>9. ListedPids' = ListedPids
  BY <1>7, <1>8 DEF ListedPids
<1>10. Limits'[p] = size
  <2>1. memory_list'[k].pid = p /\ memory_list'[k].memory_limit = size
          /\ k \in DOMAIN memory_list'
    BY <1>2, <1>5, <1>7
  <2>2. QED  BY <1>1, <2>1 DEF LimitsOfList
<1>11. ASSUME NEW q \in ListedPids, q # p  PROVE Limits'[q] = Limits[q]
  <2>1. PICK i \in DOMAIN memory_list : memory_list[i].pid = q
    BY <1>1 DEF LimitsOfList
  <2>2. memory_list'[i] = memory_list[i] /\ i \in DOMAIN memory_list'
    BY <1>2, <1>7, <1>11, <2>1
  <2>3. Limits'[q] = memory_list[i].memory_limit
    <3>1. Limits'[memory_list'[i].pid] = memory_list'[i].memory_limit
      BY <1>1, <2>2 DEF LimitsOfList
    <3>2. QED  BY <2>1, <2>2, <3>1
  <2>4. Limits[q] = memory_list[i].memory_limit
    BY <1>1, <2>1 DEF LimitsOfList
  <2>5. QED  BY <2>3, <2>4
<1>12. /\ Limits' = [q \in ListedPids' |-> Limits'[q]]
       /\ Limits = [q \in ListedPids |-> Limits[q]]
  BY <1>1 DEF LimitsOfList
<1>13. QED  BY <1>2, <1>9, <1>10, <1>11, <1>12

(* list_del(): one pid less. *)
LEMMA LimitsRemove ==
  ASSUME LInv, LInv', NEW p, Listed(p), memory_list' = RemoveAt(memory_list, IndexOf(p))
  PROVE  Limits' = [q \in DOMAIN Limits \ {p} |-> Limits[q]]
<1> DEFINE k == IndexOf(p)
<1>1. LimitsOfList /\ LimitsOfList'
  BY ListIsFunction, ListIsFunctionNext DEF LInv, IInv
<1>2. p \in ListedPids /\ k \in DOMAIN memory_list /\ memory_list[k].pid = p
  BY <1>1 DEF LimitsOfList
<1>3. /\ UniquePids /\ memory_list \in Seq(Entry) /\ Len(memory_list) \in Nat
      /\ DOMAIN memory_list = 1..Len(memory_list)
  BY LenProperties DEF LInv, IInv, TypeOK
<1>4. memory_list' = RemoveAt(memory_list, k)
  OBVIOUS
<1> HIDE DEF k
<1>5. /\ DOMAIN memory_list' = 1..(Len(memory_list) - 1)
      /\ \A j \in 1..(Len(memory_list) - 1) :
           memory_list'[j] = IF j < k THEN memory_list[j] ELSE memory_list[j + 1]
  BY <1>2, <1>3, <1>4, Removed, LenProperties
<1>6. ASSUME NEW q \in ListedPids'  PROVE q \in ListedPids \ {p}
  <2>1. PICK j \in 1..(Len(memory_list) - 1) : memory_list'[j].pid = q
    BY <1>1, <1>5 DEF LimitsOfList, Listed
  <2>2. PICK i \in 1..Len(memory_list) : i # k /\ memory_list[i].pid = q
    BY <1>2, <1>3, <1>5, <2>1
  <2>3. q \in ListedPids
    BY <1>1, <1>3, <2>2 DEF LimitsOfList, Listed
  <2>4. q # p
    BY <1>2, <1>3, <2>2 DEF UniquePids
  <2>5. QED  BY <2>3, <2>4
<1>7. ASSUME NEW q \in ListedPids \ {p}
      PROVE  q \in ListedPids' /\ Limits'[q] = Limits[q]
  <2>1. PICK i \in 1..Len(memory_list) : memory_list[i].pid = q
    BY <1>1, <1>3 DEF LimitsOfList, Listed
  <2>2. i # k
    BY <1>2, <2>1
  <2>3. PICK j \in DOMAIN memory_list' : memory_list'[j] = memory_list[i]
    <3>1. CASE i < k
      BY <1>2, <1>3, <1>5, <3>1
    <3>2. CASE i > k
      <4>1. i - 1 \in 1..(Len(memory_list) - 1) /\ ~(i - 1 < k) /\ (i - 1) + 1 = i
        BY <1>2, <1>3, <3>2
      <4>2. QED  BY <1>5, <4>1
    <3>3. QED  BY <1>2, <1>3, <2>2, <3>1, <3>2
  <2>4. q \in ListedPids'
    BY <1>1, <2>1, <2>3 DEF LimitsOfList, Listed
  <2>5. Limits'[q] = memory_list[i].memory_limit
    BY <1>1, <2>1, <2>3 DEF LimitsOfList
  <2>6. Limits[q] = memory_list[i].memory_limit
    BY <1>1, <1>3, <2>1 DEF LimitsOfList
  <2>7. QED  BY <2>4, <2>5, <2>6
<1>8. ListedPids' = ListedPids \ {p}
  BY <1>6, <1>7
<1>9. Limits' = [q \in ListedPids' |-> Limits'[q]] /\ DOMAIN Limits = ListedPids
  BY <1>1 DEF LimitsOfList, Limits
<1>10. QED  BY <1>7, <1>8, <1>9

(* What the copy loop has gone through is a view of the ledger. *)
LEMMA CopiedIsView ==
  ASSUME LInv, NEW room \in Nat
  PROVE  Ledger!IsView(SubSeq(memory_list, 1, Min({room, Len(memory_list)})), room)
<1> DEFINE count == Min({room, Len(memory_list)})
           s     == SubSeq(memory_list, 1, count)
<1>1. LimitsOfList
  BY ListIsFunction DEF LInv, IInv
<1>2. /\ UniquePids /\ memory_list \in Seq(Entry) /\ Len(memory_list) \in Nat
      /\ DOMAIN memory_list = 1..Len(memory_list)
  BY LenProperties DEF LInv, IInv, TypeOK
<1>3. count \in Nat /\ count <= Len(memory_list) /\ count <= room
        /\ (count = room \/ count = Len(memory_list))
  <2> DEFINE both == {room, Len(memory_list)}
  <2>1. \E x \in both : \A y \in both : x <= y
    BY <1>2
  <2>2. count \in both /\ \A y \in both : count <= y
    BY <2>1 DEF Min
  <2>3. QED  BY <1>2, <2>2
<1> HIDE DEF count
<1>4. \A i \in 1..count : i \in 1..Len(memory_list)
  <2>1. Len(memory_list) \in Nat
    BY <1>2
  <2>2. count \in Nat /\ count <= Len(memory_list)
    BY <1>3
  <2>3. QED  BY <2>1, <2>2
<1>5. /\ s \in Seq(Entry) /\ Len(s) = count
      /\ \A i \in 1..count : s[i] = memory_list[i]
  <2>1. \A i \in 1..count : memory_list[i] \in Entry
    BY <1>2, <1>4, ElementOfSeq
  <2>2. /\ s \in Seq(Entry) /\ Len(s) = IF 1 <= count THEN count - 1 + 1 ELSE 0
        /\ \A i \in 1..(count - 1 + 1) : s[i] = memory_list[1 + i - 1]
    BY <1>3, <2>1, SubSeqProperties
  <2>3. \A i \in 1..count : i \in 1..(count - 1 + 1) /\ 1 + i - 1 = i
    BY <1>3
  <2> HIDE DEF s
  <2>4. \A i \in 1..count : s[i] = memory_list[i]
    BY <2>2, <2>3
  <2>5. QED  BY <1>3, <2>2, <2>4
<1> HIDE DEF s
<1>6. DOMAIN s = 1..count
  BY <1>5, LenProperties
<1>7. \A i \in DOMAIN s : /\ s[i].pid \in DOMAIN Limits
                          /\ s[i].memory_limit = Limits[s[i].pid]
  <2>1. DOMAIN Limits = ListedPids
    BY DEF Limits
  <2>2. QED  BY <1>1, <1>2, <1>3, <1>5, <1>6, <2>1 DEF LimitsOfList, Listed
<1>8. \A i, j \in DOMAIN s : s[i].pid = s[j].pid => i = j
  <2>1. \A i \in DOMAIN s : i \in DOMAIN memory_list /\ s[i] = memory_list[i]
    BY <1>2, <1>4, <1>5, <1>6
  <2>2. QED  BY <1>2, <2>1 DEF UniquePids
<1>9. Len(s) < room => \A p \in DOMAIN Limits : \E i \in DOMAIN s : s[i].pid = p
  <2>1. DOMAIN Limits = ListedPids
    BY DEF Limits
  <2>2. QED  BY <1>1, <1>2, <1>3, <1>5, <1>6, <2>1 DEF LimitsOfList, Listed
<1>10. Len(s) <= room
  BY <1>3, <1>5
<1>11. QED  BY <1>7, <1>8, <1>9, <1>10 DEF s, count, Ledger!IsView

-----------------------------------------------------------------------------
(* The steps of a call, as the ledger sees them. *)

PendingPcs == UsagePcs \cup WaitingPcs \cup CriticalPcs

LEMMA PendingSeen ==
  ASSUME NEW t \in Tasks, pc[t] \in PendingPcs
  PROVE  /\ Phase[t] = "pending" /\ pc[t] # "idle" /\ pc[t] \notin CopyPcs
         /\ Shape(pc[t]) = "pending"
<1>1. pc[t] \notin CopyPcs \cup {"idle", "return"}
  BY ControlPoints DEF PendingPcs, UsagePcs, CopyPcs
<1>2. Shape(pc[t]) = "pending"
  BY <1>1 DEF Shape
<1>3. QED  BY <1>1, <1>2, Seen

(* A call that has its result answers. *)
LEMMA FinishAnswers ==
  ASSUME TypeOK, NEW t \in Tasks, NEW code, Finish(t, code), UNCHANGED req
  PROVE  Ledger!Answer(t, code)
<1>1. pc'[t] = "return" /\ ret'[t] = code
        /\ \A u \in Tasks \ {t} : pc'[u] = pc[u] /\ ret'[u] = ret[u]
  BY DEF Finish, Goto, TypeOK
<1>2. Shape("return") = "done" /\ "return" \notin CopyPcs
  BY DEF Shape, CopyPcs
<1>3. QED  BY <1>1, <1>2, SeenMoves DEF Ledger!Answer

(* A call that goes on shows nothing. *)
LEMMA GoesOnUnseen ==
  ASSUME TypeOK, NEW t \in Tasks, NEW label, Goto(t, label),
         UNCHANGED <<memory_list, req, ret, snapshot>>,
         pc[t] \in PendingPcs, label \in PendingPcs
  PROVE  UNCHANGED Ledger!vars
<1>1. pc'[t] = label /\ \A u \in Tasks \ {t} : pc'[u] = pc[u] /\ ret'[u] = ret[u]
  BY DEF Goto, TypeOK
<1>2. label \notin CopyPcs /\ Shape(label) = "pending"
  BY ControlPoints DEF PendingPcs, UsagePcs, CopyPcs, Shape
<1>3. Phase[t] = "pending" /\ Answer[t] = ret[t]
  BY PendingSeen, Seen
<1>4. /\ Phase' = [Phase EXCEPT ![t] = "pending"]
      /\ Answer' = [Answer EXCEPT ![t] = ret[t]]
  BY <1>1, <1>2, SeenMoves
<1>5. /\ Phase = [u \in Tasks |-> Phase[u]] /\ Answer = [u \in Tasks |-> Answer[u]]
  BY DEF Phase, Answer
<1>6. Phase' = Phase /\ Answer' = Answer
  BY <1>3, <1>4, <1>5
<1>7. QED  BY <1>6, LimitsKept DEF Ledger!vars

(* A call begins: it is invoked, or it is refused at once. *)
LEMMA BeginIsLedger ==
  ASSUME TypeOK, NEW t \in Tasks, NEW request, pc[t] = "idle",
         req' = [req EXCEPT ![t] = request], UNCHANGED <<memory_list, snapshot>>,
         \/ \E label \in PendingPcs : Goto(t, label) /\ UNCHANGED ret
         \/ \E code : /\ Finish(t, code)
                      /\ \/ code \in Ledger!Refusals
                         \/ code = "denied" /\ request.op = "check"
  PROVE  Ledger!Next
<1>1. Phase[t] = "idle" /\ Answer[t] = ret[t] /\ Limits' = Limits
  BY Seen, LimitsKept DEF Shape, CopyPcs
<1>2. req'[t] = request /\ req' = [req EXCEPT ![t] = req'[t]]
  BY DEF TypeOK
<1>3. CASE \E label \in PendingPcs : Goto(t, label) /\ UNCHANGED ret
  <2>1. PICK label \in PendingPcs : Goto(t, label)
    BY <1>3
  <2>2. pc'[t] = label /\ \A u \in Tasks \ {t} : pc'[u] = pc[u] /\ ret'[u] = ret[u]
    BY <1>3, <2>1 DEF Goto, TypeOK
  <2>3. label \notin CopyPcs /\ Shape(label) = "pending"
    BY ControlPoints DEF PendingPcs, UsagePcs, CopyPcs, Shape
  <2>4. /\ Phase' = [Phase EXCEPT ![t] = "pending"]
        /\ Answer' = [Answer EXCEPT ![t] = ret[t]]
    BY <1>3, <2>2, <2>3, SeenMoves
  <2>5. Answer = [u \in Tasks |-> Answer[u]]
    BY DEF Answer
  <2>6. Answer' = Answer
    BY <1>1, <2>4, <2>5
  <2>7. Ledger!Invoke(t, req'[t])
    BY <1>1, <1>2, <2>4, <2>6 DEF Ledger!Invoke
  <2>8. QED  BY <2>7 DEF Ledger!Next
<1>4. ASSUME NEW code, Finish(t, code),
             code \in Ledger!Refusals \/ (code = "denied" /\ request.op = "check")
      PROVE  Ledger!Next
  <2>1. pc'[t] = "return" /\ ret'[t] = code
          /\ \A u \in Tasks \ {t} : pc'[u] = pc[u] /\ ret'[u] = ret[u]
    BY <1>4 DEF Finish, Goto, TypeOK
  <2>2. Shape("return") = "done" /\ "return" \notin CopyPcs
    BY DEF Shape, CopyPcs
  <2>3. /\ Phase' = [Phase EXCEPT ![t] = "done"]
        /\ Answer' = [Answer EXCEPT ![t] = code] /\ Answer'[t] = code
    BY <2>1, <2>2, SeenMoves, Seen
  <2>4. Ledger!RefuseAtOnce(t, req'[t], Answer'[t])
    BY <1>1, <1>2, <1>4, <2>3 DEF Ledger!RefuseAtOnce
  <2>5. QED  BY <2>4 DEF Ledger!Next
<1>5. QED  BY <1>3, <1>4

LEMMA EnterIsLedger ==
  ASSUME TypeOK, NEW t \in Tasks, Enter(t)
  PROVE  Ledger!Next
<1>1. {"add_usage", "update_lock", "remove_lock", "get_lock", "check_usage"}
        \subseteq PendingPcs
  BY ControlPoints DEF PendingPcs, UsagePcs
<1>2. ASSUME NEW p, NEW limit, AddEnter(t, p, limit)  PROVE Ledger!Next
  <2>1. /\ pc[t] = "idle" /\ UNCHANGED <<memory_list, snapshot>>
        /\ req' = [req EXCEPT ![t] = [op |-> "add", pid |-> p, size |-> limit]]
    BY <1>2 DEF AddEnter, Idle, Accept, registryVars
  <2>2. \/ Goto(t, "add_usage") /\ UNCHANGED ret
        \/ \E code \in Ledger!Refusals : Finish(t, code)
    BY <1>2 DEF AddEnter, Ledger!Refusals
  <2>3. QED  BY <1>1, <2>1, <2>2, BeginIsLedger
<1>3. ASSUME NEW p, NEW limit, UpdateEnter(t, p, limit)  PROVE Ledger!Next
  <2>1. /\ pc[t] = "idle" /\ UNCHANGED <<memory_list, snapshot>>
        /\ req' = [req EXCEPT ![t] = [op |-> "update", pid |-> p, size |-> limit]]
    BY <1>3 DEF UpdateEnter, Idle, Accept, registryVars
  <2>2. \/ Goto(t, "update_lock") /\ UNCHANGED ret
        \/ \E code \in Ledger!Refusals : Finish(t, code)
    BY <1>3 DEF UpdateEnter, Ledger!Refusals
  <2>3. QED  BY <1>1, <2>1, <2>2, BeginIsLedger
<1>4. ASSUME NEW p, RemoveEnter(t, p)  PROVE Ledger!Next
  <2>1. /\ pc[t] = "idle" /\ UNCHANGED <<memory_list, snapshot>>
        /\ req' = [req EXCEPT ![t] = [op |-> "remove", pid |-> p, size |-> 0]]
    BY <1>4 DEF RemoveEnter, Idle, Accept, registryVars
  <2>2. \/ Goto(t, "remove_lock") /\ UNCHANGED ret
        \/ \E code \in Ledger!Refusals : Finish(t, code)
    BY <1>4 DEF RemoveEnter, Ledger!Refusals
  <2>3. QED  BY <1>1, <2>1, <2>2, BeginIsLedger
<1>5. ASSUME NEW n, GetEnter(t, n)  PROVE Ledger!Next
  <2>1. /\ pc[t] = "idle" /\ UNCHANGED <<memory_list, snapshot>>
        /\ req' = [req EXCEPT ![t] = [op |-> "get", pid |-> NoTask, size |-> n]]
    BY <1>5 DEF GetEnter, Idle, Accept, registryVars
  <2>2. \/ Goto(t, "get_lock") /\ UNCHANGED ret
        \/ \E code \in Ledger!Refusals : Finish(t, code)
    BY <1>5 DEF GetEnter, Ledger!Refusals
  <2>3. QED  BY <1>1, <2>1, <2>2, BeginIsLedger
<1>6. ASSUME NEW size, CheckEnter(t, size)  PROVE Ledger!Next
  <2> DEFINE request == [op |-> "check", pid |-> t, size |-> size]
  <2>1. /\ pc[t] = "idle" /\ UNCHANGED <<memory_list, snapshot>>
        /\ req' = [req EXCEPT ![t] = request] /\ request.op = "check"
    BY <1>6 DEF CheckEnter, Idle, Accept, registryVars
  <2> HIDE DEF request
  <2>2. \/ Goto(t, "check_usage") /\ UNCHANGED ret
        \/ Finish(t, "denied")
    BY <1>6 DEF CheckEnter
  <2>3. QED  BY <1>1, <2>1, <2>2, BeginIsLedger
<1>7. QED  BY <1>2, <1>3, <1>4, <1>5, <1>6 DEF Enter

(* A call returns, or dies of an oops. *)
LEMMA LeaveIsLedger ==
  ASSUME TypeOK, NEW t \in Tasks, Return(t) \/ Oops(t)
  PROVE  Ledger!Next
<1>1. /\ Shape("idle") = "idle" /\ Shape("return") = "done" /\ "idle" \notin CopyPcs
      /\ Limits' = Limits /\ NoReq = Ledger!NoCall
  <2>1. memory_list' = memory_list
    BY DEF Return, Oops, registryVars
  <2>2. QED  BY <2>1, LimitsKept DEF Shape, CopyPcs, NoReq, Ledger!NoCall
<1>2. /\ pc'[t] = "idle"
      /\ \A u \in Tasks \ {t} : pc'[u] = pc[u] /\ ret'[u] = ret[u]
  BY DEF Return, Oops, Goto, TypeOK
<1>3. /\ Phase' = [Phase EXCEPT ![t] = "idle"]
      /\ Answer' = [Answer EXCEPT ![t] = ret'[t]]
  BY <1>1, <1>2, SeenMoves
<1>4. CASE Return(t)
  <2>1. /\ pc[t] = "return" /\ ret'[t] = "none" /\ req' = [req EXCEPT ![t] = NoReq]
        /\ snapshot' = [snapshot EXCEPT ![t] = <<>>]
    BY <1>4 DEF Return, TypeOK
  <2>2. Phase[t] = "done"
    BY <1>1, <2>1, Seen
  <2>3. Ledger!Return(t)
    BY <1>1, <1>3, <2>1, <2>2 DEF Ledger!Return
  <2>4. QED  BY <2>3 DEF Ledger!Next
<1>5. CASE Oops(t)
  <2>1. /\ pc[t] \in UsagePcs /\ UNCHANGED <<ret, snapshot>>
        /\ req' = [req EXCEPT ![t] = NoReq]
    BY <1>5 DEF Oops
  <2>2. Phase[t] = "pending" /\ Answer[t] = ret[t]
    BY <2>1, PendingSeen, Seen DEF PendingPcs
  <2>3. Answer = [u \in Tasks |-> Answer[u]]
    BY DEF Answer
  <2>4. Answer' = Answer
    BY <1>3, <2>1, <2>2, <2>3
  <2>5. Ledger!Die(t)
    BY <1>1, <1>3, <2>1, <2>2, <2>4 DEF Ledger!Die
  <2>6. QED  BY <2>5 DEF Ledger!Next
<1>6. QED  BY <1>4, <1>5

LEMMA ReadIsLedger ==
  ASSUME LInv, NEW t \in Tasks, LockMutex(t) \/ AddReadUsage(t) \/ CheckReadUsage(t)
  PROVE  Ledger!Next \/ UNCHANGED Ledger!vars
<1>1. TypeOK /\ CallIsNamed(t)
  BY DEF LInv, IInv
<1>2. CASE LockMutex(t)
  <2>1. pc[t] \in WaitingPcs /\ AfterLock[pc[t]] \in CriticalPcs
    BY <1>2 DEF LockMutex, CriticalPcs
  <2>2. pc[t] \in PendingPcs /\ AfterLock[pc[t]] \in PendingPcs
    BY <2>1 DEF PendingPcs
  <2>3. Goto(t, AfterLock[pc[t]]) /\ UNCHANGED <<memory_list, req, ret, snapshot>>
    BY <1>2 DEF LockMutex
  <2>4. QED  BY <1>1, <2>2, <2>3, GoesOnUnseen
<1>3. CASE CheckReadUsage(t)
  <2>1. pc[t] = "check_usage" /\ Goto(t, "check_lock")
          /\ UNCHANGED <<memory_list, req, ret, snapshot>>
    BY <1>3 DEF CheckReadUsage, registryVars
  <2>2. pc[t] \in PendingPcs /\ "check_lock" \in PendingPcs
    BY <2>1, ControlPoints DEF PendingPcs, UsagePcs
  <2>3. QED  BY <1>1, <2>1, <2>2, GoesOnUnseen
<1>4. CASE AddReadUsage(t)
  <2>1. pc[t] = "add_usage" /\ UNCHANGED <<memory_list, req, snapshot>>
    BY <1>4 DEF AddReadUsage, registryVars
  <2>2. pc[t] \in PendingPcs /\ "add_lock" \in PendingPcs
    BY <2>1, ControlPoints DEF PendingPcs, UsagePcs
  <2>3. CASE Goto(t, "add_lock") /\ UNCHANGED ret
    BY <1>1, <2>1, <2>2, <2>3, GoesOnUnseen
  <2>4. CASE Finish(t, "E100")
    <3>1. Ledger!Answer(t, "E100")
      BY <1>1, <2>1, <2>4, FinishAnswers
    <3>2. Ledger!Pending(t, "add")
      BY <1>1, <2>1, <2>2, PendingSeen DEF CallIsNamed, AddPcs, Ledger!Pending
    <3>3. Ledger!RefuseAdd(t)
      BY <2>1, <3>1, <3>2, LimitsKept DEF Ledger!RefuseAdd
    <3>4. QED  BY <3>3 DEF Ledger!Next, Ledger!Effect
  <2>5. QED  BY <1>4, <2>3, <2>4 DEF AddReadUsage
<1>5. QED  BY <1>2, <1>3, <1>4

LEMMA AddIsLedger ==
  ASSUME LInv, LInv', NEW t \in Tasks, AddScan(t) \/ AddAlloc(t) \/ AddInsert(t)
  PROVE  Ledger!Next \/ UNCHANGED Ledger!vars
<1>1. /\ TypeOK /\ CallIsNamed(t) /\ ArgumentsChecked /\ ScanStillValid /\ LimitsOfList
      /\ pc[t] \in {"add_scan", "add_alloc", "add_insert"}
      /\ UNCHANGED <<req, snapshot>>
  BY ListIsFunction DEF LInv, IInv, AddScan, AddAlloc, AddInsert
<1>2. /\ pc[t] \in PendingPcs /\ pc[t] \in AddPcs
      /\ "add_alloc" \in PendingPcs /\ "add_insert" \in PendingPcs
  BY <1>1, ControlPoints DEF PendingPcs, AddPcs
<1>3. /\ Ledger!Pending(t, "add") /\ t \in Admins /\ req[t].pid \in Tasks
      /\ req[t].size \in Sizes /\ ~NegativeAsLong(req[t].size)
  <2>1. req[t].op = "add" /\ ~NegativeAsLong(req[t].size)
    BY <1>1, <1>2 DEF CallIsNamed
  <2>2. Phase[t] = "pending"
    BY <1>2, PendingSeen
  <2>3. t \in Admins /\ req[t].pid \in Tasks /\ req[t].size \in Sizes
    BY <1>1, <1>2 DEF ArgumentsChecked
  <2>4. QED  BY <2>1, <2>2, <2>3 DEF Ledger!Pending
<1>4. DOMAIN Limits = ListedPids /\ \A p : p \in ListedPids <=> Listed(p)
  BY <1>1 DEF Limits, LimitsOfList
<1>5. CASE memory_list' = memory_list /\ UNCHANGED ret
             /\ (Goto(t, "add_alloc") \/ Goto(t, "add_insert"))
  BY <1>1, <1>2, <1>5, GoesOnUnseen
<1>6. CASE AddScan(t) /\ Finish(t, "E101") /\ Listed(req[t].pid)
  <2>1. Ledger!Answer(t, "E101") /\ Limits' = Limits
    BY <1>1, <1>6, FinishAnswers, LimitsKept DEF AddScan
  <2>2. Ledger!Add(t)
    BY <1>1, <1>3, <1>4, <1>6, <2>1 DEF Ledger!Add
  <2>3. QED  BY <2>2 DEF Ledger!Next, Ledger!Effect
<1>7. CASE AddAlloc(t) /\ Finish(t, "ENOMEM")
  <2>1. Ledger!Answer(t, "ENOMEM") /\ Limits' = Limits
    BY <1>1, <1>7, FinishAnswers, LimitsKept DEF AddAlloc
  <2>2. Ledger!RefuseAdd(t)
    BY <1>1, <1>3, <2>1 DEF Ledger!RefuseAdd
  <2>3. QED  BY <2>2 DEF Ledger!Next, Ledger!Effect
<1>8. CASE AddInsert(t)
  <2> DEFINE e == [pid |-> req[t].pid, memory_limit |-> req[t].size]
  <2>1. /\ e \in Entry /\ e.pid = req[t].pid /\ e.memory_limit = req[t].size
        /\ memory_list' = <<e>> \o memory_list
    BY <1>3, <1>8 DEF AddInsert, Entry
  <2>2. ~Listed(req[t].pid)
    BY <1>1, <1>8 DEF AddInsert, ScanStillValid
  <2> HIDE DEF e
  <2>3. Limits' = [p \in DOMAIN Limits \cup {e.pid} |->
                     IF p = e.pid THEN e.memory_limit ELSE Limits[p]]
    BY <2>1, <2>2, LimitsAdd
  <2>4. Limits' = [p \in DOMAIN Limits \cup {req[t].pid} |->
                     IF p = req[t].pid THEN req[t].size ELSE Limits[p]]
    BY <2>1, <2>3
  <2>5. Ledger!Answer(t, "0")
    BY <1>1, <1>8, FinishAnswers DEF AddInsert
  <2>6. 2 * req[t].size < SizeMod
    BY <1>3, SizesAssumption DEF NegativeAsLong, Sizes
  <2>7. req[t].pid \notin DOMAIN Limits
    BY <1>4, <2>2
  <2>8. snapshot' = snapshot
    BY <1>1
  <2>9. Ledger!Add(t)
    BY <1>3, <2>4, <2>5, <2>6, <2>7, <2>8 DEF Ledger!Add
  <2>10. QED  BY <2>9 DEF Ledger!Next, Ledger!Effect
<1>9. QED  BY <1>5, <1>6, <1>7, <1>8 DEF AddScan, AddAlloc

LEMMA UpdateIsLedger ==
  ASSUME LInv, LInv', NEW t \in Tasks, UpdateScan(t)
  PROVE  Ledger!Next
<1>1. /\ TypeOK /\ CallIsNamed(t) /\ ArgumentsChecked /\ LimitsOfList
      /\ pc[t] = "update_scan" /\ UNCHANGED <<req, snapshot>>
  BY ListIsFunction DEF LInv, IInv, UpdateScan
<1>2. pc[t] \in PendingPcs /\ pc[t] \in UpdatePcs
  BY <1>1, ControlPoints DEF PendingPcs, UpdatePcs
<1>3. Ledger!Pending(t, "update") /\ t \in Admins /\ req[t].size \in Sizes
  BY <1>1, <1>2, PendingSeen DEF CallIsNamed, ArgumentsChecked, Ledger!Pending
<1>4. DOMAIN Limits = ListedPids /\ \A p : p \in ListedPids <=> Listed(p)
  BY <1>1 DEF Limits, LimitsOfList
<1>5. CASE /\ Listed(req[t].pid) /\ Finish(t, "0")
           /\ memory_list' = [memory_list EXCEPT
                                ![IndexOf(req[t].pid)].memory_limit = req[t].size]
  <2>1. Limits' = [Limits EXCEPT ![req[t].pid] = req[t].size]
    BY <1>3, <1>5, LimitsUpdate
  <2>2. Ledger!Answer(t, "0")
    BY <1>1, <1>5, FinishAnswers
  <2>3. QED  BY <1>1, <1>3, <1>4, <1>5, <2>1, <2>2
             DEF Ledger!Update, Ledger!Next, Ledger!Effect
<1>6. CASE ~Listed(req[t].pid) /\ Finish(t, "E102") /\ UNCHANGED memory_list
  <2>1. Ledger!Answer(t, "E102") /\ Limits' = Limits
    BY <1>1, <1>6, FinishAnswers, LimitsKept
  <2>2. QED  BY <1>1, <1>3, <1>4, <1>6, <2>1
             DEF Ledger!Update, Ledger!Next, Ledger!Effect
<1>7. QED  BY <1>5, <1>6 DEF UpdateScan

LEMMA RemoveIsLedger ==
  ASSUME LInv, LInv', NEW t \in Tasks, RemoveScan(t)
  PROVE  Ledger!Next
<1>1. /\ TypeOK /\ CallIsNamed(t) /\ ArgumentsChecked /\ LimitsOfList
      /\ pc[t] = "remove_scan" /\ UNCHANGED <<req, snapshot>>
  BY ListIsFunction DEF LInv, IInv, RemoveScan
<1>2. pc[t] \in PendingPcs /\ pc[t] \in RemovePcs
  BY <1>1, ControlPoints DEF PendingPcs, RemovePcs
<1>3. Ledger!Pending(t, "remove") /\ t \in Admins
  BY <1>1, <1>2, PendingSeen DEF CallIsNamed, ArgumentsChecked, Ledger!Pending
<1>4. DOMAIN Limits = ListedPids /\ \A p : p \in ListedPids <=> Listed(p)
  BY <1>1 DEF Limits, LimitsOfList
<1>5. CASE /\ Listed(req[t].pid) /\ Finish(t, "0")
           /\ memory_list' = RemoveAt(memory_list, IndexOf(req[t].pid))
  <2>1. Limits' = [p \in DOMAIN Limits \ {req[t].pid} |-> Limits[p]]
    BY <1>5, LimitsRemove
  <2>2. Ledger!Answer(t, "0")
    BY <1>1, <1>5, FinishAnswers
  <2>3. QED  BY <1>1, <1>3, <1>4, <1>5, <2>1, <2>2
             DEF Ledger!Remove, Ledger!Next, Ledger!Effect
<1>6. CASE ~Listed(req[t].pid) /\ Finish(t, "E102") /\ UNCHANGED memory_list
  <2>1. Ledger!Answer(t, "E102") /\ Limits' = Limits
    BY <1>1, <1>6, FinishAnswers, LimitsKept
  <2>2. QED  BY <1>1, <1>3, <1>4, <1>6, <2>1
             DEF Ledger!Remove, Ledger!Next, Ledger!Effect
<1>7. QED  BY <1>5, <1>6 DEF RemoveScan

(* The view is taken under the mutex; what copy_to_user() and put_user() do *)
(* with it comes after the instant of the call.                             *)
LEMMA GetIsLedger ==
  ASSUME LInv, NEW t \in Tasks, GetScan(t) \/ GetCopy(t) \/ GetPut(t)
  PROVE  Ledger!Next \/ UNCHANGED Ledger!vars
<1>1. /\ TypeOK /\ CallIsNamed(t) /\ UNCHANGED <<memory_list, req>> /\ Limits' = Limits
      /\ pc[t] \in {"get_scan", "get_copy", "get_put"}
  BY LimitsKept DEF LInv, IInv, GetScan, GetCopy, GetPut, registryVars
<1>2. req[t].op = "get" /\ req[t].size \in Nat
  BY <1>1 DEF CallIsNamed, GetPcs, TypeOK, Request
<1>3. {"get_copy", "get_put"} = CopyPcs /\ Shape("get_copy") = "done"
        /\ Shape("get_put") = "done" /\ Shape("return") = "done"
        /\ "return" \notin CopyPcs
  BY DEF CopyPcs, Shape
<1>4. CASE GetScan(t)
  <2> DEFINE s == SubSeq(memory_list, 1, Min({req[t].size, Len(memory_list)}))
  <2>1. pc[t] = "get_scan" /\ snapshot' = [snapshot EXCEPT ![t] = s]
    BY <1>4 DEF GetScan
  <2>2. Ledger!IsView(s, req[t].size)
    BY <1>2, CopiedIsView
  <2> HIDE DEF s
  <2>3. snapshot'[t] = s
    BY <1>1, <2>1 DEF TypeOK
  <2>4. Ledger!IsView(snapshot'[t], req[t].size)
          /\ snapshot' = [snapshot EXCEPT ![t] = snapshot'[t]]
    BY <2>1, <2>2, <2>3
  <2>5. pc'[t] = "get_copy" /\ \A u \in Tasks \ {t} : pc'[u] = pc[u] /\ ret'[u] = ret[u]
    BY <1>1, <1>4 DEF GetScan, Goto, TypeOK
  <2>6. Ledger!Answer(t, "0")
    BY <1>1, <1>3, <2>5, SeenMoves DEF Ledger!Answer
  <2>7. Ledger!Pending(t, "get")
    BY <1>2, <2>1, PendingSeen, ControlPoints DEF PendingPcs, Ledger!Pending
  <2>8. Ledger!Get(t)
    BY <1>1, <2>4, <2>6, <2>7 DEF Ledger!Get
  <2>9. QED  BY <2>8 DEF Ledger!Next, Ledger!Effect
<1>5. CASE GetCopy(t) \/ GetPut(t)
  <2>1. /\ pc[t] \in CopyPcs /\ UNCHANGED snapshot
        /\ \A u \in Tasks \ {t} : pc'[u] = pc[u] /\ ret'[u] = ret[u]
        /\ \/ pc'[t] = "get_put" \/ (pc'[t] = "return" /\ ret'[t] = "0")
           \/ (pc'[t] = "return" /\ ret'[t] = "EFAULT")
    BY <1>1, <1>3, <1>5 DEF GetCopy, GetPut, Finish, Goto, TypeOK
  <2>2. Phase[t] = "done" /\ Answer[t] = "0"
    BY <1>3, <2>1, Seen
  <2>3. /\ Phase = [u \in Tasks |-> Phase[u]] /\ Answer = [u \in Tasks |-> Answer[u]]
    BY DEF Phase, Answer
  <2>4. Phase' = [Phase EXCEPT ![t] = "done"]
    BY <1>3, <2>1, SeenMoves
  <2>5. Phase' = Phase
    BY <2>2, <2>3, <2>4
  <2>6. CASE pc'[t] = "return" /\ ret'[t] = "EFAULT"
    <3>1. Answer' = [Answer EXCEPT ![t] = "EFAULT"]
      BY <1>3, <2>1, <2>6, SeenMoves
    <3>2. Ledger!Fault(t)
      BY <1>1, <1>2, <2>1, <2>2, <2>5, <3>1 DEF Ledger!Fault
    <3>3. QED  BY <3>2 DEF Ledger!Next
  <2>7. CASE pc'[t] = "get_put" \/ (pc'[t] = "return" /\ ret'[t] = "0")
    <3>1. Answer' = [Answer EXCEPT ![t] = "0"]
      BY <1>3, <2>1, <2>7, SeenMoves
    <3>2. Answer' = Answer
      BY <2>2, <2>3, <3>1
    <3>3. QED  BY <1>1, <2>1, <2>5, <3>2 DEF Ledger!vars
  <2>8. QED  BY <2>1, <2>6, <2>7
<1>6. QED  BY <1>4, <1>5

(* The gate answers for the list as it is under the mutex, and for a usage  *)
(* that the task had when it was read.                                      *)
LEMMA CheckIsLedger ==
  ASSUME LInv, NEW t \in Tasks, CheckScan(t)
  PROVE  Ledger!Next
<1> DEFINE p == req[t].pid
           denied == /\ Listed(p)
                     /\ Exceeds(usage[t], req[t].size, memory_list[IndexOf(p)].memory_limit)
<1>1. /\ TypeOK /\ CallIsNamed(t) /\ LimitsOfList /\ pc[t] = "check_scan"
      /\ UNCHANGED <<memory_list, req, snapshot>>
      /\ Finish(t, IF denied THEN "denied" ELSE "accepted")
  BY ListIsFunction DEF LInv, IInv, CheckScan
<1>2. Limits' = Limits /\ Ledger!Answer(t, IF denied THEN "denied" ELSE "accepted")
  BY <1>1, LimitsKept, FinishAnswers
<1>3. req[t].op = "check" /\ \E pages \in 0..MaxVm : usage[t] = Bytes(pages)
  BY <1>1 DEF CallIsNamed, CheckPcs, GatePcs
<1>4. Ledger!Pending(t, "check")
  BY <1>1, <1>3, PendingSeen, ControlPoints DEF PendingPcs, Ledger!Pending
<1>5. DOMAIN Limits = ListedPids /\ (p \in ListedPids <=> Listed(p))
  BY <1>1 DEF Limits, LimitsOfList
<1>6. CASE ~Listed(p)
  <2>1. Ledger!Answer(t, "accepted")
    BY <1>2, <1>6
  <2>2. QED  BY <1>1, <1>2, <1>4, <1>5, <1>6, <2>1
             DEF Ledger!Check, Ledger!Next, Ledger!Effect
<1>7. CASE Listed(p)
  <2>1. PICK pages \in 0..MaxVm : usage[t] = Bytes(pages)
    BY <1>3
  <2>2. Limits[p] = memory_list[IndexOf(p)].memory_limit
    BY <1>5, <1>7 DEF Limits
  <2>3. denied <=> (((pages * PageSize) % SizeMod) + req[t].size) % SizeMod > Limits[p]
    BY <1>7, <2>1, <2>2 DEF Exceeds, Bytes
  <2> HIDE DEF denied
  <2>4. Ledger!Answer(t, IF (((pages * PageSize) % SizeMod) + req[t].size) % SizeMod
                              > Limits[p] THEN "denied" ELSE "accepted")
    BY <1>2, <2>3
  <2>5. Ledger!Check(t)
    BY <1>1, <1>2, <1>4, <1>5, <1>7, <2>4 DEF Ledger!Check
  <2>6. QED  BY <2>5 DEF Ledger!Next, Ledger!Effect
<1>8. QED  BY <1>6, <1>7

-----------------------------------------------------------------------------
(* The refinement. *)

LEMMA LedgerInit == Init => Ledger!Init
<1> SUFFICES ASSUME Init  PROVE Ledger!Init
  OBVIOUS
<1>1. Phase = [t \in Tasks |-> "idle"] /\ Answer = [t \in Tasks |-> "none"]
  BY DEF Init, Phase, Answer, CopyPcs
<1>2. Limits = <<>>
  <2>1. memory_list = <<>> /\ DOMAIN memory_list = {}
    BY DEF Init
  <2>2. ListedPids = {}
    BY <2>1 DEF ListedPids
  <2>3. Limits = [p \in 1..0 |-> memory_list[IndexOf(p)].memory_limit] /\ 1..0 = {}
    BY <2>2 DEF Limits
  <2>4. Limits \in [1..0 -> Sizes]
    BY <2>3
  <2>5. Limits \in Seq(Sizes) /\ DOMAIN Limits = {}
    BY <2>3, <2>4, SeqDef
  <2>6. Len(Limits) = 0
    BY <2>5, LenProperties
  <2>7. QED  BY <2>5, <2>6, EmptySeq
<1>3. NoReq = Ledger!NoCall
  BY DEF NoReq, Ledger!NoCall
<1>4. QED  BY <1>1, <1>2, <1>3 DEF Init, Ledger!Init

LEMMA LedgerNext == LInv /\ LInv' /\ [Next]_vars => [Ledger!Next]_(Ledger!vars)
<1> SUFFICES ASSUME LInv, LInv', [Next]_vars
             PROVE  Ledger!Next \/ UNCHANGED Ledger!vars
  OBVIOUS
<1>1. ASSUME NEW t \in Tasks, Enter(t)  PROVE Ledger!Next
  BY <1>1, EnterIsLedger DEF LInv, IInv
<1>2. ASSUME NEW t \in Tasks, Step(t)  PROVE Ledger!Next \/ UNCHANGED Ledger!vars
  <2>1. TypeOK
    BY DEF LInv, IInv
  <2>2. QED  BY <1>2, <2>1, LeaveIsLedger, ReadIsLedger, AddIsLedger, UpdateIsLedger,
                RemoveIsLedger, GetIsLedger, CheckIsLedger DEF Step
<1>3. CASE Environment \/ UNCHANGED vars
  <2>1. UNCHANGED <<memory_list, pc, req, snapshot, ret>>
    BY <1>3 DEF Environment, Exit, Reap, Spawn, Resize, registryVars, callVars, vars
  <2>2. Phase' = Phase /\ Answer' = Answer
    BY <2>1 DEF Phase, Answer
  <2>3. QED  BY <2>1, <2>2, LimitsKept DEF Ledger!vars
<1>4. QED  BY <1>1, <1>2, <1>3 DEF Next

(* Every behaviour of the registry, its fairness left aside, is one of the  *)
(* ledger: the four system calls of main.c and the gate are linearizable.   *)
THEOREM RegistryIsLedger == SafetySpec => ActsAsLedger
<1>1. SafetySpec => []LInv
  BY LInvInit, LInvNext, PTL DEF SafetySpec
<1>2. QED  BY <1>1, LedgerInit, LedgerNext, PTL DEF SafetySpec, ActsAsLedger, Ledger!Spec
=============================================================================
