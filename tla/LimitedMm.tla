------------------------------ MODULE LimitedMm ------------------------------
(***************************************************************************)
(* The allocators of mm/mmap.c under the memory limits: brk() and mmap(),  *)
(* which ask is_request_accepted() before they grow an address space;      *)
(* munmap(), matus_tamalloc() and the growth of the stack, which do not    *)
(* ask; and the registry calls of MemoryLimits, all run by the tasks of    *)
(* one or more address spaces.                                             *)
(*                                                                         *)
(* brk() asks while it holds the mmap_lock of the address space; mmap()    *)
(* asks before it takes it.  Virtual memory areas are abstracted to page   *)
(* counts: pages of the heap, of mappings and of the stack.  A mapping     *)
(* never lies below the break or over the stack (MAP_FIXED could put it    *)
(* there).  mm->total_vm is the variable the registry reads.               *)
(***************************************************************************)
EXTENDS Naturals, FiniteSets, Sequences

CONSTANTS
  Tasks, Mms, Admins, VPid, NegativePid, NoTask, Freed, NoMM,
  SizeMod, PageSize, LimitArgs, SizeArgs, EntryArgs,
  MaxVm,       \* RLIMIT_AS, in pages
  MaxStack,    \* RLIMIT_STACK, in pages
  BrkArgs,     \* brk() arguments, in bytes above mm->start_brk
  MmapLens,    \* mmap() and matus_tamalloc() lengths, in bytes
  CallTasks    \* the tasks that make registry calls; every task allocates

(* What MemoryLimits assumes of the constants it shares. *)
ASSUME RegistryAssumption ==
  /\ Admins \subseteq Tasks
  /\ VPid \in [Tasks -> [Tasks -> Tasks \cup {NoTask}]]
  /\ NoTask \notin Tasks /\ Freed \notin Tasks /\ Freed # NoTask
  /\ NegativePid \notin Tasks
  /\ NoMM \notin Mms
  /\ SizeMod \in Nat \ {0} /\ PageSize \in Nat \ {0} /\ MaxVm \in Nat
  /\ LimitArgs \subseteq 0..(SizeMod - 1)
  /\ EntryArgs \subseteq Nat

(* requested_memory is any size_t; an address space is smaller than what a  *)
(* size_t can count; a task finds itself under its own pid.                 *)
ASSUME BrkAssumption ==
  /\ SizeArgs = 0..(SizeMod - 1)
  /\ MaxVm * PageSize < SizeMod
  /\ BrkArgs \subseteq 0..(SizeMod - PageSize)
  /\ MmapLens \subseteq 0..(SizeMod - 1)
  /\ MaxStack \in Nat \ {0} /\ MaxStack <= MaxVm
  /\ CallTasks \subseteq Tasks
  /\ \A t \in Tasks, p \in Tasks : VPid[t][p] = p

VARIABLES
  memory_list, memory_list_mutex, exists, mm, total_vm,
  pc, req, task, usage, snapshot, ret,
  mmap_lock,   \* mmap_lock[m]: the task that holds it for writing, or NoTask
  brk,         \* brk[m]: mm->brk, in bytes above mm->start_brk
  heap,        \* heap[m]: pages of m below the break
  mapped,      \* mapped[m]: pages of m's mappings
  stack,       \* stack[m]: pages of m's stack
  apc,         \* where each task is in brk() or mmap()
  arg,         \* arg[t]: the argument of that call
  origbrk,     \* origbrk[t]: brk()'s local of that name
  checked      \* checked[t]: history, the size_t the gate compared for t

registryVars == <<memory_list, memory_list_mutex>>
callVars     == <<pc, req, task, usage, snapshot, ret>>
gateVars     == <<registryVars, exists, mm, total_vm, callVars>>
mmVars       == <<mmap_lock, brk, heap, mapped, stack>>
allocVars    == <<apc, arg, origbrk, checked>>
vars         == <<gateVars, mmVars, allocVars>>

Registry == INSTANCE MemoryLimits

-----------------------------------------------------------------------------
(* Sizes *)

Pages(bytes)    == bytes \div PageSize
PAGE_ALIGN(len) == (((len + PageSize - 1) \div PageSize) * PageSize) % SizeMod

(* newbrk - oldbrk of two page-aligned breaks, in an unsigned long *)
BrkRequest(old, new) == (PAGE_ALIGN(new) + SizeMod - PAGE_ALIGN(old)) % SizeMod

(* Faulty variant: off by one page. *)
MayExpand_OffByOne(m, pages) == total_vm[m] + pages <= MaxVm + 1

(* may_expand_vm(): RLIMIT_AS, which the memory limits do not replace *)
MayExpand(m, pages) == total_vm[m] + pages <= MaxVm

-----------------------------------------------------------------------------
(* Control *)

Apcs == {"none", "brk_lock", "brk_ask", "brk_gate", "brk_apply", "brk_unmap",
         "mmap_gate", "mmap_lock", "mmap_map", "mmap_account"}

Allocating(t) == apc[t] # "none"
UserMode(t)   == ~Allocating(t) /\ Registry!Idle(t)

Go(t, label)  == apc' = [apc EXCEPT ![t] = label]

TakeLock(t) ==
  /\ mmap_lock[mm[t]] = NoTask
  /\ mmap_lock' = [mmap_lock EXCEPT ![mm[t]] = t]
DropLock(t) == mmap_lock' = [mmap_lock EXCEPT ![mm[t]] = NoTask]

(* The allocator call of t returns. *)
Leave(t) ==
  /\ Go(t, "none")
  /\ arg' = [arg EXCEPT ![t] = 0]
  /\ origbrk' = [origbrk EXCEPT ![t] = 0]
  /\ checked' = [checked EXCEPT ![t] = 0]

(* t's address space gains and loses pages; nothing else the gate reads moves. *)
Account(t, gained, lost) ==
  /\ total_vm' = [total_vm EXCEPT ![mm[t]] = (@ + gained) - lost]
  /\ UNCHANGED <<registryVars, exists, mm, callVars>>

(* is_request_accepted() has answered. *)
Answered(t) == pc[t] = "return" /\ req[t].op = "check"
Remember(t) ==
  checked' = [checked EXCEPT ![t] = (usage[t] + req[t].size) % SizeMod]

-----------------------------------------------------------------------------
(* brk(newbrk) *)

BrkEnter(t, newbrk) ==
  /\ UserMode(t)
  /\ Go(t, "brk_lock")
  /\ arg' = [arg EXCEPT ![t] = newbrk]
  /\ UNCHANGED <<gateVars, mmVars, origbrk, checked>>

(* mmap_write_lock_killable() *)
BrkLock(t) ==
  /\ apc[t] = "brk_lock"
  /\ TakeLock(t)
  /\ Go(t, "brk_ask")
  /\ origbrk' = [origbrk EXCEPT ![t] = brk[mm[t]]]
  /\ UNCHANGED <<gateVars, brk, heap, mapped, stack, arg, checked>>

(* EINTR, in brk() and in mmap(): a fatal signal ends the wait. *)
Interrupted(t) ==
  /\ apc[t] \in {"brk_lock", "mmap_lock"}
  /\ Leave(t)
  /\ UNCHANGED <<gateVars, mmVars>>

(* `goto out' before the gate: a break below min_brk or beyond RLIMIT_DATA *)
BrkRefused(t) ==
  /\ apc[t] = "brk_ask"
  /\ DropLock(t) /\ Leave(t)
  /\ UNCHANGED <<gateVars, brk, heap, mapped, stack>>

(* Faulty variant: the lock is not held across the gate, which may sleep. *)
BrkAsk_DropsLock(t) ==
  /\ apc[t] = "brk_ask"
  /\ Registry!CheckEnter(t, BrkRequest(brk[mm[t]], arg[t]))
  /\ DropLock(t)
  /\ Go(t, "brk_gate")
  /\ UNCHANGED <<brk, heap, mapped, stack, arg, origbrk, checked>>

BrkAsk(t) ==
  /\ apc[t] = "brk_ask"
  /\ Registry!CheckEnter(t, BrkRequest(brk[mm[t]], arg[t]))
  /\ Go(t, "brk_gate")
  /\ UNCHANGED <<mmVars, arg, origbrk, checked>>

(* Faulty variant: a denied brk() returns with the lock held. *)
BrkDenied_KeepsLock(t) ==
  /\ apc[t] = "brk_gate" /\ Answered(t) /\ ret[t] = "denied"
  /\ Registry!Return(t)
  /\ Leave(t)
  /\ UNCHANGED mmVars

BrkDenied(t) ==
  /\ apc[t] = "brk_gate" /\ Answered(t) /\ ret[t] = "denied"
  /\ Registry!Return(t)
  /\ DropLock(t) /\ Leave(t)
  /\ UNCHANGED <<brk, heap, mapped, stack>>

BrkAccepted(t) ==
  /\ apc[t] = "brk_gate" /\ Answered(t) /\ ret[t] = "accepted"
  /\ Registry!Return(t)
  /\ Go(t, "brk_apply")
  /\ Remember(t)
  /\ UNCHANGED <<mmVars, arg, origbrk>>

(* oldbrk == newbrk: the break moves inside its page. *)
BrkSamePage(t) ==
  /\ apc[t] = "brk_apply"
  /\ PAGE_ALIGN(arg[t]) = PAGE_ALIGN(origbrk[t])
  /\ brk' = [brk EXCEPT ![mm[t]] = arg[t]]
  /\ DropLock(t) /\ Leave(t)
  /\ UNCHANGED <<gateVars, heap, mapped, stack>>

(* The break moves down first, and the pages go afterwards; vma_find() has  *)
(* found pages to give back.                                                *)
BrkShrink(t) ==
  /\ apc[t] = "brk_apply"
  /\ heap[mm[t]] > 0
  /\ PAGE_ALIGN(arg[t]) < PAGE_ALIGN(origbrk[t])
  /\ brk' = [brk EXCEPT ![mm[t]] = arg[t]]
  /\ Go(t, "brk_unmap")
  /\ UNCHANGED <<gateVars, mmap_lock, heap, mapped, stack, arg, origbrk, checked>>

(* do_vma_munmap() drops the lock when it succeeds.  Of the pages between   *)
(* the two breaks munmap() may have taken some already.                     *)
BrkUnmap(t, pages) ==
  LET new == Pages(PAGE_ALIGN(arg[t]))
      old == Pages(PAGE_ALIGN(origbrk[t])) IN
  /\ apc[t] = "brk_unmap"
  /\ pages <= heap[mm[t]] /\ pages <= old - new
  /\ heap[mm[t]] - pages <= new
  /\ heap' = [heap EXCEPT ![mm[t]] = @ - pages]
  /\ Account(t, 0, pages)
  /\ DropLock(t) /\ Leave(t)
  /\ UNCHANGED <<brk, mapped, stack>>

(* Faulty variant: `out' does not restore mm->brk. *)
BrkUnmapFails_KeepsBreak(t) ==
  /\ apc[t] = "brk_unmap"
  /\ DropLock(t) /\ Leave(t)
  /\ UNCHANGED <<gateVars, brk, heap, mapped, stack>>

(* `out': do_vma_munmap() failed, and the break goes back. *)
BrkUnmapFails(t) ==
  /\ apc[t] = "brk_unmap"
  /\ brk' = [brk EXCEPT ![mm[t]] = origbrk[t]]
  /\ DropLock(t) /\ Leave(t)
  /\ UNCHANGED <<gateVars, heap, mapped, stack>>

(* do_brk_flags() *)
BrkGrow(t) ==
  LET pages == Pages(PAGE_ALIGN(arg[t])) - Pages(PAGE_ALIGN(origbrk[t])) IN
  /\ apc[t] = "brk_apply"
  /\ PAGE_ALIGN(arg[t]) > PAGE_ALIGN(origbrk[t])
  /\ MayExpand(mm[t], pages)
  /\ heap' = [heap EXCEPT ![mm[t]] = @ + pages]
  /\ Account(t, pages, 0)
  /\ brk' = [brk EXCEPT ![mm[t]] = arg[t]]
  /\ DropLock(t) /\ Leave(t)
  /\ UNCHANGED <<mapped, stack>>

(* mlock, map_count, overcommit, a neighbour in the way, RLIMIT_AS, no memory *)
BrkGrowFails(t) ==
  /\ apc[t] = "brk_apply"
  /\ PAGE_ALIGN(arg[t]) # PAGE_ALIGN(origbrk[t])
  /\ DropLock(t) /\ Leave(t)
  /\ UNCHANGED <<gateVars, brk, heap, mapped, stack>>

-----------------------------------------------------------------------------
(* mmap(len), with MAP_FIXED over pages of older mappings or without        *)

(* ksys_mmap_pgoff() asks for the length as given, and holds no lock. *)
MmapAsk(t, len) ==
  /\ ~Allocating(t)
  /\ Registry!CheckEnter(t, len)
  /\ Go(t, "mmap_gate")
  /\ arg' = [arg EXCEPT ![t] = len]
  /\ UNCHANGED <<mmVars, origbrk, checked>>

MmapDenied(t) ==
  /\ apc[t] = "mmap_gate" /\ Answered(t) /\ ret[t] = "denied"
  /\ Registry!Return(t)
  /\ Leave(t)
  /\ UNCHANGED mmVars

MmapAccepted(t) ==
  /\ apc[t] = "mmap_gate" /\ Answered(t) /\ ret[t] = "accepted"
  /\ Registry!Return(t)
  /\ Go(t, "mmap_lock")
  /\ Remember(t)
  /\ UNCHANGED <<mmVars, arg, origbrk>>

MmapLock(t) ==
  /\ apc[t] = "mmap_lock"
  /\ TakeLock(t)
  /\ Go(t, "mmap_map")
  /\ UNCHANGED <<gateVars, brk, heap, mapped, stack, arg, origbrk, checked>>

(* Any error of do_mmap() and of mmap_region() before it unmaps: len 0, a   *)
(* len that PAGE_ALIGN() wraps, no address, RLIMIT_AS, ...                  *)
MmapFails(t) ==
  /\ apc[t] = "mmap_map"
  /\ DropLock(t) /\ Leave(t)
  /\ UNCHANGED <<gateVars, brk, heap, mapped, stack>>

(* mmap_region() unmaps what MAP_FIXED covers and counts those pages off. *)
MmapUnmapOld(t, covered) ==
  LET pages == Pages(PAGE_ALIGN(arg[t])) IN
  /\ apc[t] = "mmap_map"
  /\ pages > 0
  /\ covered <= pages /\ covered <= mapped[mm[t]]
  /\ total_vm[mm[t]] + pages - covered <= MaxVm
  /\ mapped' = [mapped EXCEPT ![mm[t]] = @ - covered]
  /\ Account(t, 0, covered)
  /\ Go(t, "mmap_account")
  /\ UNCHANGED <<mmap_lock, brk, heap, stack, arg, origbrk, checked>>

(* vm_stat_account() *)
MmapAccount(t) ==
  LET pages == Pages(PAGE_ALIGN(arg[t])) IN
  /\ apc[t] = "mmap_account"
  /\ mapped' = [mapped EXCEPT ![mm[t]] = @ + pages]
  /\ Account(t, pages, 0)
  /\ DropLock(t) /\ Leave(t)
  /\ UNCHANGED <<brk, heap, stack>>

(* An error after the unmap: the covered pages are gone all the same. *)
MmapFailsLate(t) ==
  /\ apc[t] = "mmap_account"
  /\ DropLock(t) /\ Leave(t)
  /\ UNCHANGED <<gateVars, brk, heap, mapped, stack>>

-----------------------------------------------------------------------------
(* What grows or shrinks an address space without asking.  Each runs under  *)
(* the mmap_lock from end to end and changes total_vm once: one step.       *)

LockFree(t) == UserMode(t) /\ mmap_lock[mm[t]] = NoTask

(* A range over several areas comes to the same as several calls. *)
munmap(t, pages) ==
  /\ LockFree(t)
  /\ \/ /\ pages <= heap[mm[t]]
        /\ heap' = [heap EXCEPT ![mm[t]] = @ - pages]
        /\ UNCHANGED <<mapped, stack>>
     \/ /\ pages <= mapped[mm[t]]
        /\ mapped' = [mapped EXCEPT ![mm[t]] = @ - pages]
        /\ UNCHANGED <<heap, stack>>
     \/ /\ pages <= stack[mm[t]]
        /\ stack' = [stack EXCEPT ![mm[t]] = @ - pages]
        /\ UNCHANGED <<heap, mapped>>
  /\ Account(t, 0, pages)
  /\ UNCHANGED <<mmap_lock, brk, allocVars>>

(* vm_mmap() goes to vm_mmap_pgoff(), past ksys_mmap_pgoff() and the gate. *)
matus_tamalloc(t, size) ==
  LET pages == Pages(PAGE_ALIGN(size)) IN
  /\ LockFree(t)
  /\ pages > 0 /\ MayExpand(mm[t], pages)
  /\ mapped' = [mapped EXCEPT ![mm[t]] = @ + pages]
  /\ Account(t, pages, 0)
  /\ UNCHANGED <<mmap_lock, brk, heap, stack, allocVars>>

(* expand_stack() on a page fault, one page at a time *)
expand_stack(t) ==
  /\ LockFree(t)
  /\ stack[mm[t]] \in 1..(MaxStack - 1) /\ MayExpand(mm[t], 1)
  /\ stack' = [stack EXCEPT ![mm[t]] = @ + 1]
  /\ Account(t, 1, 0)
  /\ UNCHANGED <<mmap_lock, brk, heap, mapped, allocVars>>

-----------------------------------------------------------------------------
(* The registry calls, and the life of tasks *)

RegistryEnter(t) ==
  /\ t \in CallTasks /\ ~Allocating(t)
  /\ \/ \E p \in Tasks, limit \in LimitArgs :
          Registry!AddEnter(t, p, limit) \/ Registry!UpdateEnter(t, p, limit)
     \/ \E p \in Tasks : Registry!RemoveEnter(t, p)
     \/ \E n \in EntryArgs : Registry!GetEnter(t, n)
  /\ UNCHANGED <<mmVars, allocVars>>

(* copy_to_user() and put_user() may fault, and the fault handler takes the *)
(* mmap_lock; an oops ends the allocator call too, and leaves it locked.    *)
RegistryStep(t) ==
  /\ ~Answered(t)
  /\ pc[t] \in {"get_copy", "get_put"} => mmap_lock[mm[t]] = NoTask
  /\ Registry!Step(t)
  /\ apc' = IF mm'[t] = NoMM THEN [apc EXCEPT ![t] = "none"] ELSE apc
  /\ UNCHANGED <<mmVars, arg, origbrk, checked>>

(* Faulty variant: a task that exits takes its entry away, without the mutex. *)
Exit_DropsLimit(t) ==
  /\ UserMode(t) /\ t \in exists /\ mm[t] \in Mms
  /\ mm' = [mm EXCEPT ![t] = NoMM]
  /\ memory_list' = SelectSeq(memory_list, LAMBDA e : e.pid # t)
  /\ UNCHANGED <<memory_list_mutex, exists, total_vm, callVars, mmVars, allocVars>>

Exit(t) ==
  /\ ~Allocating(t)
  /\ Registry!Exit(t)
  /\ UNCHANGED <<mmVars, allocVars>>

Reap(t) == Registry!Reap(t) /\ UNCHANGED <<mmVars, allocVars>>

Unused(m) == \A t \in Tasks : mm[t] # m
Fresh(m)  ==
  total_vm[m] = 1 /\ brk[m] = 0 /\ heap[m] = 0 /\ mapped[m] = 0 /\ stack[m] = 1

(* clone(): a pid comes into use for a thread of m, or for a new process.   *)
Spawn(t, m) ==
  /\ Unused(m) => Fresh(m)
  /\ Registry!Spawn(t, m)
  /\ UNCHANGED <<mmVars, allocVars>>

(* exit_mmap() when the last task has left, and execve() for the next one:  *)
(* an address space with one page of stack.                                 *)
exit_mmap(m) ==
  /\ Unused(m) /\ ~Fresh(m)
  /\ total_vm' = [total_vm EXCEPT ![m] = 1]
  /\ brk' = [brk EXCEPT ![m] = 0]
  /\ heap' = [heap EXCEPT ![m] = 0]
  /\ mapped' = [mapped EXCEPT ![m] = 0]
  /\ stack' = [stack EXCEPT ![m] = 1]
  /\ UNCHANGED <<registryVars, exists, mm, callVars, mmap_lock, allocVars>>

-----------------------------------------------------------------------------
Init ==
  /\ memory_list = <<>> /\ memory_list_mutex = NoTask
  /\ exists = Tasks
  /\ mm \in [Tasks -> Mms]
  /\ total_vm = [m \in Mms |-> 1]
  /\ pc = [t \in Tasks |-> "idle"]
  /\ req = [t \in Tasks |-> Registry!NoReq]
  /\ task = [t \in Tasks |-> NoTask]
  /\ usage = [t \in Tasks |-> 0]
  /\ snapshot = [t \in Tasks |-> <<>>]
  /\ ret = [t \in Tasks |-> "none"]
  /\ mmap_lock = [m \in Mms |-> NoTask]
  /\ brk = [m \in Mms |-> 0]
  /\ heap = [m \in Mms |-> 0]
  /\ mapped = [m \in Mms |-> 0]
  /\ stack = [m \in Mms |-> 1]
  /\ apc = [t \in Tasks |-> "none"]
  /\ arg = [t \in Tasks |-> 0]
  /\ origbrk = [t \in Tasks |-> 0]
  /\ checked = [t \in Tasks |-> 0]

BrkStep(t) ==
  \/ BrkLock(t) \/ BrkRefused(t) \/ BrkAsk(t) \/ BrkDenied(t)
  \/ BrkAccepted(t) \/ BrkSamePage(t) \/ BrkShrink(t) \/ BrkUnmapFails(t)
  \/ (\E pages \in 1..MaxVm : BrkUnmap(t, pages))
  \/ BrkGrow(t) \/ BrkGrowFails(t)

MmapStep(t) ==
  \/ MmapDenied(t) \/ MmapAccepted(t) \/ MmapLock(t) \/ MmapFails(t)
  \/ (\E covered \in 0..MaxVm : MmapUnmapOld(t, covered))
  \/ MmapAccount(t) \/ MmapFailsLate(t)

Step(t) == RegistryStep(t) \/ BrkStep(t) \/ MmapStep(t)

Enter(t) ==
  \/ RegistryEnter(t)
  \/ \E newbrk \in BrkArgs : BrkEnter(t, newbrk)
  \/ \E len \in MmapLens : MmapAsk(t, len) \/ matus_tamalloc(t, len)
  \/ \E pages \in 1..MaxVm : munmap(t, pages)
  \/ expand_stack(t)

Next ==
  \/ \E t \in Tasks : Enter(t) \/ Step(t) \/ Interrupted(t) \/ Exit(t) \/ Reap(t)
  \/ \E t \in Tasks, m \in Mms : Spawn(t, m)
  \/ \E m \in Mms : exit_mmap(m)

(* The scheduler runs every task that can run; the mutex and the mmap_lock  *)
(* are handed to a waiter that keeps losing the race for them; no signal    *)
(* has to come.                                                             *)
Fairness == \A t \in Tasks : SF_vars(Step(t))

SafetySpec == Init /\ [][Next]_vars
Spec       == SafetySpec /\ Fairness

-----------------------------------------------------------------------------
(* Properties *)

(* Every variable of the allocators keeps its type, and an address space    *)
(* never grows past RLIMIT_AS.                                              *)
TypeOK ==
  /\ total_vm \in [Mms -> 0..MaxVm]
  /\ mmap_lock \in [Mms -> Tasks \cup {NoTask}]
  /\ brk \in [Mms -> BrkArgs \cup {0}]
  /\ heap \in [Mms -> 0..MaxVm]
  /\ mapped \in [Mms -> 0..MaxVm]
  /\ stack \in [Mms -> 0..MaxStack]
  /\ apc \in [Tasks -> Apcs]
  /\ arg \in [Tasks -> 0..(SizeMod - 1)]
  /\ origbrk \in [Tasks -> BrkArgs \cup {0}]
  /\ checked \in [Tasks -> 0..(SizeMod - 1)]

(* mm->total_vm, which the limits are about, counts exactly the pages that  *)
(* are there, and no heap page lies above the break, whenever nobody is     *)
(* changing the address space: no failure of brk() or of mmap() loses or    *)
(* invents a page, or moves the break without the pages.                    *)
AccountingConsistent ==
  \A m \in Mms : mmap_lock[m] = NoTask =>
    /\ total_vm[m] = heap[m] + mapped[m] + stack[m]
    /\ heap[m] <= Pages(PAGE_ALIGN(brk[m]))

(* A brk() that grows leaves the address space at exactly the size the gate *)
(* compared with the limit: between the gate's read of total_vm and the     *)
(* commit, mmap_lock keeps every other allocator out.                       *)
BrkCommitsWhatWasChecked ==
  [][\A t \in Tasks :
       BrkGrow(t) => total_vm'[mm[t]] * PageSize = checked[t]]_vars

(* No task that holds memory_list_mutex waits for an mmap_lock: brk() takes *)
(* the two in the opposite order.                                           *)
NoLockInversion ==
  \A t \in Tasks :
    ~ /\ memory_list_mutex = t
      /\ apc[t] \in {"brk_lock", "mmap_lock"} \/ pc[t] \in {"get_copy", "get_put"}

(* Every brk() and every mmap() ends, and so does every registry call.      *)
AllocationsReturn ==
  \A t \in Tasks :
    (Allocating(t) \/ pc[t] # "idle") ~> (~Allocating(t) /\ pc[t] = "idle")

(* The allocators drive the registry only as its specification allows:      *)
(* every proof about MemoryLimits holds of the composed system.             *)
DrivesRegistry == Registry!SafetySpec

(* "Always allow shrinking brk.": the gate denies no brk() that shrinks.    *)
ShrinkAllowed ==
  [][\A t \in Tasks : BrkDenied(t) => PAGE_ALIGN(arg[t]) >= PAGE_ALIGN(origbrk[t])]_vars
=============================================================================
