---------------------------- MODULE MemoryLimits ----------------------------
(***************************************************************************)
(* The memory-limit registry of kernel/usac/project3/main.c: the list      *)
(* `memory_list', the mutex that guards it, the four system calls that     *)
(* read and write it, and is_request_accepted(), the gate that mm/mmap.c   *)
(* asks before it lets a task grow.                                        *)
(*                                                                         *)
(* Every task runs at most one system call at a time; a call is a sequence *)
(* of steps between which any other task may run.  The steps are cut where *)
(* the code reads state that others write: the lookup of a task, the read  *)
(* of task->mm->total_vm, mutex_lock(), the scan of the list, kmalloc()    *)
(* (which may sleep), list_add(), copy_to_user() and put_user().           *)
(***************************************************************************)
EXTENDS Naturals, Sequences, SequencesExt

CONSTANTS
  Tasks,        \* global task numbers; a task is also the pid others name it by
  Mms,          \* address spaces (struct mm_struct)
  Admins,       \* the tasks that have CAP_SYS_ADMIN
  VPid,         \* VPid[t][p]: the task that pid p denotes in t's pid namespace
  NegativePid,  \* stands for every pid_t below zero
  NoTask,       \* a NULL task pointer
  Freed,        \* a pointer to a task that was released in the meantime
  NoMM,         \* a NULL task->mm: an exiting task or a kernel thread
  SizeMod,      \* 2^w for a size_t of w bits
  PageSize,     \* bytes in a page
  LimitArgs,    \* memory_limit arguments, as size_t
  SizeArgs,     \* requested_memory arguments, as size_t
  EntryArgs,    \* max_entries arguments
  MaxVm         \* bound on the pages of an address space

ASSUME TasksAssumption ==
  /\ Admins \subseteq Tasks
  /\ VPid \in [Tasks -> [Tasks -> Tasks \cup {NoTask}]]
  /\ NoTask \notin Tasks /\ Freed \notin Tasks /\ Freed # NoTask
  /\ NegativePid \notin Tasks
  /\ NoMM \notin Mms

ASSUME SizesAssumption ==
  /\ SizeMod \in Nat \ {0} /\ PageSize \in Nat \ {0} /\ MaxVm \in Nat
  /\ LimitArgs \subseteq 0..(SizeMod - 1)
  /\ SizeArgs \subseteq 0..(SizeMod - 1)
  /\ EntryArgs \subseteq Nat

VARIABLES
  memory_list,        \* the list, its head first: a sequence of entries
  memory_list_mutex,  \* the task that holds the mutex, or NoTask
  exists,             \* the tasks find_task_by_vpid() can still find
  mm,                 \* task->mm
  total_vm,           \* mm->total_vm, in pages
  pc,                 \* where each task is in its system call
  req,                \* the arguments of that call
  task,               \* its local `task' pointer, while it is still to be read
  usage,              \* its local `current_usage'
  snapshot,           \* its local `k_processes_buffer'
  ret                 \* its result

registryVars == <<memory_list, memory_list_mutex>>
taskVars     == <<exists, mm>>
callVars     == <<pc, req, task, usage, snapshot, ret>>
vars         == <<registryVars, taskVars, total_vm, callVars>>

-----------------------------------------------------------------------------
(* Data *)

Sizes   == 0..(SizeMod - 1)
PidArgs == Tasks \cup {NegativePid}
Entry   == [pid : Tasks, memory_limit : Sizes]

NoReq   == [op |-> "none", pid |-> NoTask, size |-> 0]
Ops     == {"none", "add", "update", "remove", "get", "check"}
Request == [op : Ops, pid : PidArgs \cup {NoTask}, size : Nat]

Codes   == {"none", "0", "EINVAL", "ESRCH", "EPERM", "ENOMEM", "EFAULT",
            "E100", "E101", "E102", "accepted", "denied"}

(* mm->total_vm << PAGE_SHIFT, in a size_t *)
Bytes(pages) == (pages * PageSize) % SizeMod

(* (long)memory_limit < 0 *)
NegativeAsLong(size) == 2 * size >= SizeMod

Listed(p) == \E i \in DOMAIN memory_list : memory_list[i].pid = p

(* The entry list_for_each_entry() reaches first whose pid is p. *)
IndexOf(p) ==
  CHOOSE i \in DOMAIN memory_list :
    /\ memory_list[i].pid = p
    /\ \A j \in 1..(i - 1) : memory_list[j].pid # p

(* find_task_by_vpid(p) in a call of t *)
find_task_by_vpid(t, p) ==
  IF p \in Tasks /\ VPid[t][p] \in exists THEN VPid[t][p] ELSE NoTask

-----------------------------------------------------------------------------
(* Control: the points where a call waits for the mutex, and what follows. *)

AfterLock ==
  [ add_lock |-> "add_scan", update_lock |-> "update_scan",
    remove_lock |-> "remove_scan", get_lock |-> "get_scan",
    check_lock |-> "check_scan" ]
WaitingPcs  == DOMAIN AfterLock
CriticalPcs == {AfterLock[w] : w \in WaitingPcs} \cup {"add_alloc", "add_insert"}
UsagePcs    == {"add_usage", "check_usage"}
Pcs == {"idle", "get_copy", "get_put", "return"}
         \cup UsagePcs \cup WaitingPcs \cup CriticalPcs

Running(t) == t \in exists /\ mm[t] # NoMM
Idle(t)    == pc[t] = "idle" /\ Running(t)

Goto(t, label) == pc' = [pc EXCEPT ![t] = label]

(* The call of t has its result; its task pointer is not used again. *)
Finish(t, code) ==
  /\ Goto(t, "return")
  /\ ret' = [ret EXCEPT ![t] = code]
  /\ task' = [task EXCEPT ![t] = NoTask]
  /\ UNCHANGED usage

Lock(t)   == memory_list_mutex = NoTask /\ memory_list_mutex' = t
Unlock(t) == memory_list_mutex' = NoTask

Accept(t, op, p, size) ==
  req' = [req EXCEPT ![t] = [op |-> op, pid |-> p, size |-> size]]

(* mutex_lock(&memory_list_mutex) in any of the five functions *)
LockMutex(t) ==
  /\ pc[t] \in WaitingPcs
  /\ Lock(t)
  /\ Goto(t, AfterLock[pc[t]])
  /\ UNCHANGED <<memory_list, taskVars, total_vm, req, task, usage, snapshot, ret>>

(* The call returns, to user space or to the allocator that asked. *)
Return(t) ==
  /\ pc[t] = "return"
  /\ Goto(t, "idle")
  /\ req' = [req EXCEPT ![t] = NoReq]
  /\ ret' = [ret EXCEPT ![t] = "none"]
  /\ snapshot' = [snapshot EXCEPT ![t] = <<>>]
  /\ usage' = [usage EXCEPT ![t] = 0]
  /\ UNCHANGED <<registryVars, taskVars, total_vm, task>>

(* task->mm->total_vm << PAGE_SHIFT may read as u.  Nothing pins the task: *)
(* once it is released the read may give anything.                         *)
MayReadUsage(t, u) ==
  \/ /\ task[t] \in Tasks /\ mm[task[t]] # NoMM
     /\ u = Bytes(total_vm[mm[task[t]]])
  \/ task[t] = Freed /\ \E garbage \in 0..MaxVm : u = Bytes(garbage)

(* The same read through a NULL mm: an oops, which kills the caller. *)
Oops(t) ==
  /\ pc[t] \in UsagePcs
  /\ task[t] \in Tasks => mm[task[t]] = NoMM
  /\ Goto(t, "idle")
  /\ mm' = [mm EXCEPT ![t] = NoMM]
  /\ req' = [req EXCEPT ![t] = NoReq]
  /\ task' = [task EXCEPT ![t] = NoTask]
  /\ UNCHANGED <<registryVars, exists, total_vm, usage, snapshot, ret>>

-----------------------------------------------------------------------------
(* matus_add_memory_limit(process_pid, memory_limit) *)

(* The checks up to the one that reads the target's usage, in their order. *)
AddEnter(t, p, limit) ==
  LET target == find_task_by_vpid(t, p) IN
  /\ Idle(t)
  /\ Accept(t, "add", p, limit)
  /\ \/ p = NegativePid /\ Finish(t, "EINVAL")
     \/ p # NegativePid /\ target = NoTask /\ Finish(t, "ESRCH")
     \/ target # NoTask /\ t \notin Admins /\ Finish(t, "EPERM")
     \/ /\ target # NoTask /\ t \in Admins /\ NegativeAsLong(limit)
        /\ Finish(t, "EINVAL")
     \/ /\ target # NoTask /\ t \in Admins /\ ~NegativeAsLong(limit)
        /\ Goto(t, "add_usage")
        /\ task' = [task EXCEPT ![t] = target]
        /\ UNCHANGED <<usage, ret>>
  /\ UNCHANGED <<registryVars, taskVars, total_vm, snapshot>>

(* `memory_limit < current_usage' is decided before the mutex is taken. *)
AddReadUsage(t) ==
  /\ pc[t] = "add_usage"
  /\ \E current_usage \in Sizes :
       /\ MayReadUsage(t, current_usage)
       /\ \/ req[t].size < current_usage /\ Finish(t, "E100")
          \/ /\ req[t].size >= current_usage
             /\ Goto(t, "add_lock")
             /\ task' = [task EXCEPT ![t] = NoTask]
             /\ UNCHANGED <<usage, ret>>
  /\ UNCHANGED <<registryVars, taskVars, total_vm, req, snapshot>>

(* Faulty variant: the mutex is dropped for the allocation that follows. *)
AddScan_DropsMutex(t) ==
  /\ pc[t] = "add_scan"
  /\ Unlock(t)
  /\ \/ Listed(req[t].pid) /\ Finish(t, "E101")
     \/ ~Listed(req[t].pid) /\ Goto(t, "add_alloc") /\ UNCHANGED <<task, usage, ret>>
  /\ UNCHANGED <<memory_list, taskVars, total_vm, req, snapshot>>

(* Faulty variant: the return of E101 forgets mutex_unlock(). *)
AddScan_KeepsMutex(t) ==
  /\ pc[t] = "add_scan"
  /\ \/ Listed(req[t].pid) /\ Finish(t, "E101")
     \/ ~Listed(req[t].pid) /\ Goto(t, "add_alloc") /\ UNCHANGED <<task, usage, ret>>
  /\ UNCHANGED <<registryVars, taskVars, total_vm, req, snapshot>>

AddScan(t) ==
  /\ pc[t] = "add_scan"
  /\ \/ /\ Listed(req[t].pid)
        /\ Unlock(t) /\ Finish(t, "E101")
     \/ /\ ~Listed(req[t].pid)
        /\ Goto(t, "add_alloc")
        /\ UNCHANGED <<memory_list_mutex, task, usage, ret>>
  /\ UNCHANGED <<memory_list, taskVars, total_vm, req, snapshot>>

(* Faulty variant: the return of ENOMEM forgets mutex_unlock(). *)
AddAlloc_KeepsMutex(t) ==
  /\ pc[t] = "add_alloc"
  /\ \/ Goto(t, "add_insert") /\ UNCHANGED <<task, usage, ret>>
     \/ Finish(t, "ENOMEM")
  /\ UNCHANGED <<registryVars, taskVars, total_vm, req, snapshot>>

(* kmalloc(GFP_KERNEL) under the mutex: it may sleep, and it may fail. *)
AddAlloc(t) ==
  /\ pc[t] = "add_alloc"
  /\ \/ /\ Goto(t, "add_insert")
        /\ UNCHANGED <<memory_list_mutex, task, usage, ret>>
     \/ Unlock(t) /\ Finish(t, "ENOMEM")
  /\ UNCHANGED <<memory_list, taskVars, total_vm, req, snapshot>>

(* list_add() puts the new entry at the head. *)
AddInsert(t) ==
  /\ pc[t] = "add_insert"
  /\ memory_list' =
       <<[pid |-> req[t].pid, memory_limit |-> req[t].size]>> \o memory_list
  /\ Unlock(t) /\ Finish(t, "0")
  /\ UNCHANGED <<taskVars, total_vm, req, snapshot>>

-----------------------------------------------------------------------------
(* matus_update_memory_limit(process_pid, memory_limit).  The third check, *)
(* `memory_limit < 0', is on an unsigned size_t and never fires.           *)

(* Faulty variant: no capable(CAP_SYS_ADMIN). *)
UpdateEnter_Unprivileged(t, p, limit) ==
  /\ Idle(t)
  /\ Accept(t, "update", p, limit)
  /\ \/ p = NegativePid /\ Finish(t, "EINVAL")
     \/ p # NegativePid /\ Goto(t, "update_lock") /\ UNCHANGED <<task, usage, ret>>
  /\ UNCHANGED <<registryVars, taskVars, total_vm, snapshot>>

UpdateEnter(t, p, limit) ==
  /\ Idle(t)
  /\ Accept(t, "update", p, limit)
  /\ \/ t \notin Admins /\ Finish(t, "EPERM")
     \/ t \in Admins /\ p = NegativePid /\ Finish(t, "EINVAL")
     \/ /\ t \in Admins /\ p # NegativePid
        /\ Goto(t, "update_lock")
        /\ UNCHANGED <<task, usage, ret>>
  /\ UNCHANGED <<registryVars, taskVars, total_vm, snapshot>>

UpdateScan(t) ==
  LET p == req[t].pid IN
  /\ pc[t] = "update_scan"
  /\ Unlock(t)
  /\ \/ /\ Listed(p)
        /\ memory_list' =
             [memory_list EXCEPT ![IndexOf(p)].memory_limit = req[t].size]
        /\ Finish(t, "0")
     \/ ~Listed(p) /\ Finish(t, "E102") /\ UNCHANGED memory_list
  /\ UNCHANGED <<taskVars, total_vm, req, snapshot>>

-----------------------------------------------------------------------------
(* matus_remove_memory_limit(process_pid) *)

RemoveEnter(t, p) ==
  /\ Idle(t)
  /\ Accept(t, "remove", p, 0)
  /\ \/ t \notin Admins /\ Finish(t, "EPERM")
     \/ t \in Admins /\ p = NegativePid /\ Finish(t, "EINVAL")
     \/ /\ t \in Admins /\ p # NegativePid
        /\ Goto(t, "remove_lock")
        /\ UNCHANGED <<task, usage, ret>>
  /\ UNCHANGED <<registryVars, taskVars, total_vm, snapshot>>

RemoveScan(t) ==
  LET p == req[t].pid IN
  /\ pc[t] = "remove_scan"
  /\ Unlock(t)
  /\ \/ /\ Listed(p)
        /\ memory_list' = RemoveAt(memory_list, IndexOf(p))
        /\ Finish(t, "0")
     \/ ~Listed(p) /\ Finish(t, "E102") /\ UNCHANGED memory_list
  /\ UNCHANGED <<taskVars, total_vm, req, snapshot>>

-----------------------------------------------------------------------------
(* matus_get_memory_limits(u_processes_buffer, max_entries, &returned).    *)
(* Nothing here asks for a capability.                                     *)

(* The checks may fail on a NULL pointer, a zero max_entries or no memory. *)
GetEnter(t, max_entries) ==
  /\ Idle(t)
  /\ Accept(t, "get", NoTask, max_entries)
  /\ \/ Finish(t, "EINVAL")
     \/ max_entries # 0 /\ Finish(t, "ENOMEM")
     \/ max_entries # 0 /\ Goto(t, "get_lock") /\ UNCHANGED <<task, usage, ret>>
  /\ UNCHANGED <<registryVars, taskVars, total_vm, snapshot>>

(* Faulty variant: `count > max_entries' lets the loop run once too often. *)
GetScan_OneTooMany(t) ==
  /\ pc[t] = "get_scan"
  /\ snapshot' = [snapshot EXCEPT ![t] =
       SubSeq(memory_list, 1, Min({req[t].size + 1, Len(memory_list)}))]
  /\ Unlock(t)
  /\ Goto(t, "get_copy")
  /\ UNCHANGED <<memory_list, taskVars, total_vm, req, task, usage, ret>>

(* Faulty variant: the mutex is kept over copy_to_user(). *)
GetScan_KeepsMutex(t) ==
  /\ pc[t] = "get_scan"
  /\ snapshot' = [snapshot EXCEPT ![t] =
       SubSeq(memory_list, 1, Min({req[t].size, Len(memory_list)}))]
  /\ Goto(t, "get_copy")
  /\ UNCHANGED <<registryVars, taskVars, total_vm, req, task, usage, ret>>

(* The copy loop stops at max_entries or at the end of the list. *)
GetScan(t) ==
  LET count == Min({req[t].size, Len(memory_list)}) IN
  /\ pc[t] = "get_scan"
  /\ snapshot' = [snapshot EXCEPT ![t] = SubSeq(memory_list, 1, count)]
  /\ Unlock(t)
  /\ Goto(t, "get_copy")
  /\ UNCHANGED <<memory_list, taskVars, total_vm, req, task, usage, ret>>

(* copy_to_user() fails on a bad user pointer, after the mutex is free. *)
GetCopy(t) ==
  /\ pc[t] = "get_copy"
  /\ \/ Goto(t, "get_put") /\ UNCHANGED <<task, usage, ret>>
     \/ Finish(t, "EFAULT")
  /\ UNCHANGED <<registryVars, taskVars, total_vm, req, snapshot>>

(* put_user(): the buffer is already copied when this one fails. *)
GetPut(t) ==
  /\ pc[t] = "get_put"
  /\ Finish(t, "0") \/ Finish(t, "EFAULT")
  /\ UNCHANGED <<registryVars, taskVars, total_vm, req, snapshot>>

-----------------------------------------------------------------------------
(* is_request_accepted(current->pid, requested_memory), called by brk() and *)
(* mmap() of task t.                                                        *)

(* The two refusals the code marks "Should not happen?". *)
CheckEnter(t, requested_memory) ==
  LET target == find_task_by_vpid(t, t) IN
  /\ Idle(t)
  /\ Accept(t, "check", t, requested_memory)
  /\ \/ target = NoTask /\ Finish(t, "denied")
     \/ target # NoTask /\ mm[target] = NoMM /\ Finish(t, "denied")
     \/ /\ target # NoTask /\ mm[target] # NoMM
        /\ Goto(t, "check_usage")
        /\ task' = [task EXCEPT ![t] = target]
        /\ UNCHANGED <<usage, ret>>
  /\ UNCHANGED <<registryVars, taskVars, total_vm, snapshot>>

(* Faulty variant: the request is added here, in a wider type, as well. *)
CheckReadUsage_AddsRequest(t) ==
  /\ pc[t] = "check_usage"
  /\ \E current_usage \in Sizes :
       /\ MayReadUsage(t, current_usage)
       /\ usage' = [usage EXCEPT ![t] = current_usage + req[t].size]
  /\ Goto(t, "check_lock")
  /\ task' = [task EXCEPT ![t] = NoTask]
  /\ UNCHANGED <<registryVars, taskVars, total_vm, req, snapshot, ret>>

CheckReadUsage(t) ==
  /\ pc[t] = "check_usage"
  /\ \E current_usage \in Sizes :
       /\ MayReadUsage(t, current_usage)
       /\ usage' = [usage EXCEPT ![t] = current_usage]
  /\ Goto(t, "check_lock")
  /\ task' = [task EXCEPT ![t] = NoTask]
  /\ UNCHANGED <<registryVars, taskVars, total_vm, req, snapshot, ret>>

(* current_usage + requested_memory > entry->data.memory_limit, in size_t *)
Exceeds(current_usage, requested_memory, limit) ==
  (current_usage + requested_memory) % SizeMod > limit

CheckScan(t) ==
  LET p == req[t].pid
      denied == /\ Listed(p)
                /\ Exceeds(usage[t], req[t].size, memory_list[IndexOf(p)].memory_limit)
  IN
  /\ pc[t] = "check_scan"
  /\ Unlock(t)
  /\ Finish(t, IF denied THEN "denied" ELSE "accepted")
  /\ UNCHANGED <<memory_list, taskVars, total_vm, req, snapshot>>

-----------------------------------------------------------------------------
(* What the rest of the kernel does to tasks and address spaces. *)

(* fork() or clone(): a pid comes into use, possibly not for the first time. *)
Spawn(t, m) ==
  /\ t \notin exists
  /\ exists' = exists \cup {t}
  /\ mm' = [mm EXCEPT ![t] = m]
  /\ UNCHANGED <<registryVars, total_vm, callVars>>

(* exit_mm() sets task->mm to NULL. *)
Exit(t) ==
  /\ Idle(t)
  /\ mm' = [mm EXCEPT ![t] = NoMM]
  /\ UNCHANGED <<registryVars, exists, total_vm, callVars>>

(* release_task(): the pid no longer leads to the task, whose memory goes. *)
Reap(t) ==
  /\ t \in exists /\ mm[t] = NoMM
  /\ exists' = exists \ {t}
  /\ task' = [u \in Tasks |-> IF task[u] = t THEN Freed ELSE task[u]]
  /\ UNCHANGED <<registryVars, mm, total_vm, pc, req, usage, snapshot, ret>>

(* An address space grows or shrinks: under its tasks, while fork() or      *)
(* exec() builds it, or while exit_mmap() tears it down.                     *)
Resize(m) ==
  /\ \E pages \in 0..MaxVm :
       /\ pages # total_vm[m]
       /\ total_vm' = [total_vm EXCEPT ![m] = pages]
  /\ UNCHANGED <<registryVars, taskVars, callVars>>

-----------------------------------------------------------------------------
Init ==
  /\ memory_list = <<>>
  /\ memory_list_mutex = NoTask
  /\ exists \in SUBSET Tasks
  /\ mm \in [Tasks -> Mms \cup {NoMM}]
  /\ \A t \in Tasks : t \notin exists => mm[t] = NoMM
  /\ total_vm \in [Mms -> 0..MaxVm]
  /\ pc = [t \in Tasks |-> "idle"]
  /\ req = [t \in Tasks |-> NoReq]
  /\ task = [t \in Tasks |-> NoTask]
  /\ usage = [t \in Tasks |-> 0]
  /\ snapshot = [t \in Tasks |-> <<>>]
  /\ ret = [t \in Tasks |-> "none"]

(* A call of t begins. *)
Enter(t) ==
  \/ \E p \in PidArgs, limit \in LimitArgs :
       AddEnter(t, p, limit) \/ UpdateEnter(t, p, limit)
  \/ \E p \in PidArgs : RemoveEnter(t, p)
  \/ \E n \in EntryArgs : GetEnter(t, n)
  \/ \E size \in SizeArgs : CheckEnter(t, size)

(* A call of t that has begun goes on. *)
Step(t) ==
  \/ LockMutex(t) \/ Return(t) \/ Oops(t)
  \/ AddReadUsage(t) \/ AddScan(t) \/ AddAlloc(t) \/ AddInsert(t)
  \/ UpdateScan(t) \/ RemoveScan(t)
  \/ GetScan(t) \/ GetCopy(t) \/ GetPut(t)
  \/ CheckReadUsage(t) \/ CheckScan(t)

Environment ==
  \/ \E t \in Tasks : Exit(t) \/ Reap(t)
  \/ \E t \in Tasks, m \in Mms : Spawn(t, m)
  \/ \E m \in Mms : Resize(m)

Next == (\E t \in Tasks : Enter(t) \/ Step(t)) \/ Environment

(* The scheduler runs every task that can run, and a kernel mutex is handed *)
(* to a waiter that keeps losing the race for it (MUTEX_FLAG_HANDOFF).      *)
Fairness ==
  \A t \in Tasks : WF_vars(Step(t)) /\ SF_vars(LockMutex(t))

SafetySpec == Init /\ [][Next]_vars
Spec       == SafetySpec /\ Fairness

-----------------------------------------------------------------------------
(* Properties *)

(* Every variable keeps its type; a usage is a size_t. *)
TypeOK ==
  /\ memory_list \in Seq(Entry)
  /\ memory_list_mutex \in Tasks \cup {NoTask}
  /\ exists \subseteq Tasks
  /\ mm \in [Tasks -> Mms \cup {NoMM}]
  /\ total_vm \in [Mms -> 0..MaxVm]
  /\ pc \in [Tasks -> Pcs]
  /\ req \in [Tasks -> Request]
  /\ task \in [Tasks -> Tasks \cup {NoTask, Freed}]
  /\ usage \in [Tasks -> Sizes]
  /\ snapshot \in [Tasks -> Seq(Entry)]
  /\ ret \in [Tasks -> Codes]

(* The list never holds two entries for one pid, whatever adds race: the    *)
(* duplicate scan and list_add() are one critical section, across a         *)
(* kmalloc() that sleeps.  update, remove and the gate rely on it: each of  *)
(* them acts on the first match alone.                                      *)
UniquePids ==
  \A i, j \in DOMAIN memory_list :
    memory_list[i].pid = memory_list[j].pid => i = j

(* memory_list_mutex is held by exactly the task that is inside a critical  *)
(* section: every return path of the five functions releases it once, and   *)
(* no task that oopsed or left the kernel still holds it.                   *)
MutexDiscipline ==
  \A t \in Tasks : memory_list_mutex = t <=> pc[t] \in CriticalPcs

(* Only a task with CAP_SYS_ADMIN changes the list, and only while it holds *)
(* the mutex, whatever the others are doing.                                *)
OnlyAdminsWrite ==
  [][memory_list' # memory_list => memory_list_mutex \in Admins]_vars

(* Every system call and every question to the gate comes to an end.        *)
CallsReturn == \A t \in Tasks : pc[t] # "idle" ~> pc[t] = "idle"

(* add refuses a limit below what the process uses ("Error: el nuevo        *)
(* limite es menor al consumo actual"): when the entry goes into the list,  *)
(* the limit covers the usage of the process it is for.                     *)
AddedLimitCoversUsage ==
  [][\A t \in Tasks :
       LET target == find_task_by_vpid(t, req[t].pid) IN
       AddInsert(t) /\ target # NoTask /\ mm[target] # NoMM
         => req[t].size >= Bytes(total_vm[mm[target]])]_vars

(* What the abstract ledger sees of the registry: the list as a function,   *)
(* a call as done from the moment it had its effect, and nothing of the     *)
(* mutex or the pointers.                                                   *)
ListedPids == {memory_list[i].pid : i \in DOMAIN memory_list}
Limits     == [p \in ListedPids |-> memory_list[IndexOf(p)].memory_limit]
CopyPcs    == {"get_copy", "get_put"}
Phase      == [t \in Tasks |-> CASE pc[t] = "idle" -> "idle"
                                 [] pc[t] \in CopyPcs \cup {"return"} -> "done"
                                 [] OTHER -> "pending"]
Answer     == [t \in Tasks |-> IF pc[t] \in CopyPcs THEN "0" ELSE ret[t]]

Ledger == INSTANCE LimitLedger
  WITH limits <- Limits, call <- req, phase <- Phase,
       answer <- Answer, view <- snapshot

(* Every call takes effect at one instant between its invocation and its    *)
(* return: what adds, updates, removes, gets and the gate answer is what    *)
(* they would have answered one at a time, in that order, on a ledger.      *)
ActsAsLedger == Ledger!Spec

====
