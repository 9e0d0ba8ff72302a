----------------------------- MODULE StackGrowth -----------------------------
(***************************************************************************)
(* Stacks that grow, and who may look while they do (mm/mmap.c).  A page   *)
(* fault looks for its area under the mmap_lock for reading; below a stack *)
(* expand_stack() lets go of the lock, takes it for writing, looks again   *)
(* and grows the area.  find_extend_vma_locked() does the same for callers *)
(* that hold it for writing.  A fault in an area that is mapped takes only *)
(* the lock of the area.  munmap() removes its areas under the lock for    *)
(* writing and frees their page tables under the lock for reading.         *)
(*                                                                         *)
(* Threads share one address space.  An allocation the code handles may    *)
(* fail whenever it is made.  Areas that could be one stay apart here.     *)
(***************************************************************************)
EXTENDS FreeRange, FiniteSets

CONSTANTS
  Threads,
  NoThread,
  RLIMIT_STACK, RLIMIT_AS,  \* in pages
  Stack,                    \* the area execve() has made for the stack
  FaultAddrs,               \* bound: pages that are touched
  Lens                      \* bound: lengths that are mapped

ASSUME StackAssumption ==
  /\ IsFiniteSet(Threads) /\ NoThread \notin Threads
  /\ RLIMIT_STACK \in Nat /\ RLIMIT_AS \in Nat
  /\ Stack \in [start : mmap_min_addr..(NPages - 1), end : 1..NPages,
                growsdown : {TRUE}, accessible : {TRUE}]
  /\ Stack.start < Stack.end /\ Stack.end - Stack.start <= RLIMIT_AS
  /\ FaultAddrs \subseteq mmap_min_addr..(NPages - 1)
  /\ Lens \subseteq 1..NPages

VARIABLES
  areas,      \* mm_mt
  total_vm,
  mmap_lock,  \* its writer and its readers
  pc,         \* what each thread is doing
  call        \* the page it looks for, or what it unmaps

vars == <<areas, total_vm, mmap_lock, pc, call>>

NoCall == [addr |-> 0, start |-> 0, end |-> 0, pages |-> 0]
PCs    == {"idle",
           "vma_use",                   \* holds the lock of an area
           "use",                       \* holds an area under mmap_lock
           "expand", "grow", "extend",  \* expand_stack(), find_extend_vma_locked()
           "munmap", "unmap_region"}

vma_pages(v)  == v.end - v.start
Covers(v, p)  == v.start <= p /\ p < v.end
Covering(p)   == {v \in areas : Covers(v, p)}

-----------------------------------------------------------------------------
(* mmap_lock, and the locks of the areas *)

WriteLockFree == mmap_lock.writer = NoThread /\ mmap_lock.readers = {}
ReadLock(t)   == mmap_lock.writer = NoThread
                 /\ mmap_lock' = [mmap_lock EXCEPT !.readers = @ \cup {t}]
WriteLock(t)  == WriteLockFree /\ mmap_lock' = [mmap_lock EXCEPT !.writer = t]
Downgrade(t)  == mmap_lock' = [writer |-> NoThread, readers |-> {t}]
Unlock(t)     == mmap_lock' = [writer  |-> IF mmap_lock.writer = t THEN NoThread
                                           ELSE mmap_lock.writer,
                               readers |-> mmap_lock.readers \ {t}]

(* Faulty variant: nobody waits for the faults in the area. *)
vma_start_write_NoWait(v) == TRUE

(* The writer waits for the faults that hold the area. *)
vma_start_write(v) == \A t \in Threads : pc[t] = "vma_use" => ~Covers(v, call[t].addr)

(* Outcomes of a step: where the thread goes, and with what. *)
Goto(t, where, what) == pc' = [pc EXCEPT ![t] = where] /\ call' = [call EXCEPT ![t] = what]
Done(t)              == Goto(t, "idle", NoCall)
At(addr)             == [NoCall EXCEPT !.addr = addr]

-----------------------------------------------------------------------------
(* Growing *)

(* Faulty variant: no gap to what is mapped below. *)
GapIsKept_Any(v, addr) == TRUE

(* The first test of expand_downwards(): only what is accessible and no     *)
(* stack itself keeps a stack away.                                         *)
GapIsKept(v, addr) ==
  \A p \in vma_prev(areas, v.start) :
    ~p.growsdown /\ p.accessible => addr - p.end >= stack_guard_gap

(* Faulty variant: the address space is not limited. *)
acct_stack_growth_StackOnly(v, addr) == v.end - addr <= RLIMIT_STACK

(* Without the tests of locked and committed memory, which may always fail. *)
acct_stack_growth(v, addr) ==
  total_vm + (v.start - addr) <= RLIMIT_AS /\ v.end - addr <= RLIMIT_STACK

(* The offset of anonymous memory is where it was mapped, so that it does   *)
(* not underflow.                                                           *)
CanGrow(v, addr) ==
  v.growsdown /\ addr >= mmap_min_addr /\ GapIsKept(v, addr) /\ acct_stack_growth(v, addr)

(* Faulty variant: total_vm is left alone. *)
expand_downwards_Uncounted(v, addr) ==
  /\ CanGrow(v, addr) /\ vma_start_write(v)
  /\ areas' = (areas \ {v}) \cup {[v EXCEPT !.start = addr]}
  /\ UNCHANGED total_vm

expand_downwards(v, addr) ==
  /\ CanGrow(v, addr) /\ vma_start_write(v)
  /\ areas' = (areas \ {v}) \cup {[v EXCEPT !.start = addr]}
  /\ total_vm' = total_vm + (v.start - addr)

-----------------------------------------------------------------------------
(* Page faults *)

(* A fault takes the lock of its area alone.  One that starts while another *)
(* holds mmap_lock for writing, but has not come to that area, does so here *)
(* before the lock is taken.                                                *)
FaultUnderVmaLock(t, addr) ==
  /\ pc[t] = "idle" /\ Covering(addr) # {} /\ mmap_lock.writer = NoThread
  /\ Goto(t, "vma_use", At(addr)) /\ UNCHANGED <<areas, total_vm, mmap_lock>>

VmaUnlock(t) ==
  /\ pc[t] = "vma_use" /\ Done(t) /\ UNCHANGED <<areas, total_vm, mmap_lock>>

Fault(t, addr) ==
  /\ pc[t] = "idle" /\ Covering(addr) # {}
  /\ ReadLock(t) /\ Goto(t, "use", At(addr)) /\ UNCHANGED <<areas, total_vm>>

(* It is in no area: expand_stack() lets go of the lock. *)
FaultBelow(t, addr) ==
  /\ pc[t] = "idle" /\ Covering(addr) = {} /\ mmap_lock.writer = NoThread
  /\ Goto(t, "expand", At(addr)) /\ UNCHANGED <<areas, total_vm, mmap_lock>>

(* Faulty variant: the lock is taken for reading, and growing shares it. *)
ExpandLock_Shared(t) ==
  /\ pc[t] = "expand" /\ ReadLock(t)
  /\ Goto(t, "grow", call[t]) /\ UNCHANGED <<areas, total_vm>>

ExpandLock(t) ==
  /\ pc[t] = "expand" /\ WriteLock(t)
  /\ Goto(t, "grow", call[t]) /\ UNCHANGED <<areas, total_vm>>

(* mmap_write_lock_killable(), of a task that is killed *)
ExpandKilled(t) ==
  /\ pc[t] = "expand" /\ Done(t) /\ UNCHANGED <<areas, total_vm, mmap_lock>>

(* Somebody else has grown or mapped it. *)
ExpandFound(t) ==
  /\ pc[t] = "grow" /\ Covering(call[t].addr) # {} /\ Downgrade(t)
  /\ Goto(t, "use", call[t]) /\ UNCHANGED <<areas, total_vm>>

Expand(t) ==
  /\ pc[t] = "grow" /\ Covering(call[t].addr) = {} /\ Downgrade(t)
  /\ \E v \in find_vma(areas, call[t].addr) : expand_downwards(v, call[t].addr)
  /\ Goto(t, "use", call[t])

(* Faulty variant: what has failed for now is tried again. *)
ExpandRefused_Retries(t) ==
  /\ pc[t] = "grow" /\ Covering(call[t].addr) = {} /\ Unlock(t)
  /\ Goto(t, "expand", call[t]) /\ UNCHANGED <<areas, total_vm>>

(* No area above, one that does not grow or may not, or no memory. *)
ExpandRefused(t) ==
  /\ pc[t] = "grow" /\ Covering(call[t].addr) = {} /\ Unlock(t)
  /\ Done(t) /\ UNCHANGED <<areas, total_vm>>

(* The fault is handled, and the lock is dropped. *)
Release(t) ==
  /\ pc[t] = "use" /\ Unlock(t) /\ Done(t) /\ UNCHANGED <<areas, total_vm>>

(* find_extend_vma_locked(), of a caller that holds the lock for writing *)
ExtendLock(t, addr) ==
  /\ pc[t] = "idle" /\ WriteLock(t)
  /\ Goto(t, "extend", At(addr)) /\ UNCHANGED <<areas, total_vm>>

ExtendFound(t) ==
  /\ pc[t] = "extend" /\ Covering(call[t].addr) # {}
  /\ Goto(t, "use", call[t]) /\ UNCHANGED <<areas, total_vm, mmap_lock>>

Extend(t) ==
  /\ pc[t] = "extend" /\ Covering(call[t].addr) = {}
  /\ \E v \in find_vma(areas, call[t].addr) : expand_downwards(v, call[t].addr)
  /\ Goto(t, "use", call[t]) /\ UNCHANGED mmap_lock

ExtendRefused(t) ==
  /\ pc[t] = "extend" /\ Covering(call[t].addr) = {} /\ Unlock(t)
  /\ Done(t) /\ UNCHANGED <<areas, total_vm>>

-----------------------------------------------------------------------------
(* Mapping and unmapping *)

(* mmap() of an address the kernel chooses near a hint, under the lock for  *)
(* writing from the search to the new area.                                 *)
Mmap(t, hint, len, accessible) ==
  LET addr == get_unmapped_area(areas, hint, len) IN
  /\ pc[t] = "idle" /\ WriteLockFree /\ addr # NoRoom
  /\ total_vm + len <= RLIMIT_AS
  /\ areas' = areas \cup {[start |-> addr, end |-> addr + len, growsdown |-> FALSE,
                           accessible |-> accessible]}
  /\ total_vm' = total_vm + len
  /\ UNCHANGED <<mmap_lock, pc, call>>

Within(start, end) == {v \in areas : ~Disjoint(v, start, end)}

(* What is left of an area when [start, end) is cut out. *)
Rest(v, start, end) ==
  {u \in {[v EXCEPT !.end = start], [v EXCEPT !.start = end]} :
     u.start < u.end /\ u.start >= v.start /\ u.end <= v.end}

(* A program that keeps memory it may not access as a guard does not unmap it. *)
MunmapLock(t, start, end) ==
  /\ pc[t] = "idle" /\ start < end
  /\ Within(start, end) # {} /\ \A v \in Within(start, end) : v.accessible
  /\ WriteLock(t) /\ Goto(t, "munmap", [NoCall EXCEPT !.start = start, !.end = end])
  /\ UNCHANGED <<areas, total_vm>>

(* Past the point of no return: the areas are gone, the lock is downgraded. *)
MunmapRemove(t) ==
  LET start == call[t].start  end == call[t].end
      gone  == Within(start, end)
      rest  == UNION {Rest(v, start, end) : v \in gone}
      left  == (areas \ gone) \cup rest
      prev  == vma_prev(left, start)
      next  == find_vma(left, start) IN
  /\ pc[t] = "munmap" /\ \A v \in gone : vma_start_write(v)
  /\ areas' = left /\ UNCHANGED total_vm
  /\ Downgrade(t)
  /\ Goto(t, "unmap_region",
          [addr  |-> 0,
           start |-> IF prev = {} THEN 0 ELSE The(prev).end,
           end   |-> IF next = {} THEN NPages ELSE The(next).start,
           pages |-> MapThenSumSet(vma_pages, gone) - MapThenSumSet(vma_pages, rest)])

(* A split has failed; what was split before covers the same pages. *)
MunmapFails(t) ==
  /\ pc[t] = "munmap" /\ Unlock(t) /\ Done(t) /\ UNCHANGED <<areas, total_vm>>

(* unmap_region() frees the page tables between the areas that are left,    *)
(* remove_mt() uncounts the pages, and the lock is dropped.                 *)
MunmapReturn(t) ==
  /\ pc[t] = "unmap_region" /\ total_vm' = total_vm - call[t].pages
  /\ Unlock(t) /\ Done(t) /\ UNCHANGED areas

-----------------------------------------------------------------------------
Init ==
  /\ areas = {Stack} /\ total_vm = vma_pages(Stack)
  /\ mmap_lock = [writer |-> NoThread, readers |-> {}]
  /\ pc = [t \in Threads |-> "idle"] /\ call = [t \in Threads |-> NoCall]

Use(t)    == \E addr \in FaultAddrs :
               FaultUnderVmaLock(t, addr) \/ Fault(t, addr) \/ FaultBelow(t, addr)
                 \/ ExtendLock(t, addr)
Map(t)    == \E hint \in 0..(NPages - 1), len \in Lens, accessible \in BOOLEAN :
               Mmap(t, hint, len, accessible)
Unmap(t)  == \E start, end \in 1..NPages : MunmapLock(t, start, end)
InLock(t) == ExpandFound(t) \/ Expand(t) \/ ExpandRefused(t) \/ ExtendFound(t)
               \/ Extend(t) \/ ExtendRefused(t) \/ MunmapRemove(t) \/ MunmapFails(t)
               \/ MunmapReturn(t)
Finish(t) == VmaUnlock(t) \/ Release(t)

Next == \E t \in Threads :
  Use(t) \/ Map(t) \/ Unmap(t) \/ ExpandLock(t) \/ ExpandKilled(t) \/ InLock(t) \/ Finish(t)

Spec == Init /\ [][Next]_vars

(* A rwsem hands the lock to who waits longest, so that ExpandLock is not   *)
(* passed over for ever; who has a lock goes on to drop it.                 *)
Fairness == \A t \in Threads :
  SF_vars(ExpandLock(t)) /\ SF_vars(InLock(t)) /\ WF_vars(Finish(t))

FairSpec == Spec /\ Fairness

-----------------------------------------------------------------------------
(* Properties *)

(* Every variable keeps its type, and the lock has a writer or readers.     *)
TypeOK ==
  /\ areas \subseteq [start : mmap_min_addr..(NPages - 1), end : 1..NPages,
                      growsdown : BOOLEAN, accessible : BOOLEAN]
  /\ \A v \in areas : v.start < v.end
  /\ total_vm \in 0..RLIMIT_AS
  /\ mmap_lock \in [writer : Threads \cup {NoThread}, readers : SUBSET Threads]
  /\ mmap_lock.writer # NoThread => mmap_lock.readers = {}
  /\ pc \in [Threads -> PCs]
  /\ call \in [Threads -> [addr : 0..NPages, start : 0..NPages, end : 0..NPages,
                           pages : 0..NPages]]

(* Whatever is mapped, unmapped and grown in whatever order, no two areas   *)
(* share a page, and between a stack and accessible memory directly below   *)
(* it the guard gap stays free: the search of mmap() leaves out what the    *)
(* stack may grow into, and the stack stops before what mmap() has placed.  *)
StackIsGuarded ==
  \A v \in areas :
    /\ \A u \in areas \ {v} : Disjoint(u, v.start, v.end)
    /\ v.growsdown => \A p \in vma_prev(areas, v.start) :
         ~p.growsdown /\ p.accessible => v.start - p.end >= stack_guard_gap

(* total_vm, which the gate of the memory limits reads without a lock, is   *)
(* never less than what is mapped, and what munmap() has yet to take off is *)
(* all it is more by.                                                       *)
UsageNeverUnderstated ==
  total_vm = MapThenSumSet(vma_pages, areas)
               + MapThenSumSet(LAMBDA t : IF pc[t] = "unmap_region" THEN call[t].pages ELSE 0,
                               Threads)

(* Who has found an area for its page, under whichever lock and through     *)
(* whichever of the ways, has it until it lets go.                          *)
FoundAreaCoversPage ==
  \A t \in Threads : pc[t] \in {"use", "vma_use"} => Covering(call[t].addr) # {}

(* "We can free page tables without write-locking mmap_lock because VMAs    *)
(* were isolated before we downgraded": no stack grows, and nothing is      *)
(* mapped, between the areas munmap() has found on either side until it has *)
(* freed the page tables there.                                             *)
UnmappedRangeStaysFree ==
  \A t \in Threads : pc[t] = "unmap_region" => Within(call[t].start, call[t].end) = {}

(* Of every layout that growing, mapping and unmapping reach, a search      *)
(* returns a free range below the guard gap of the next stack, with the     *)
(* alignment asked for.  It finds one below mmap_base, no lower than any    *)
(* that is clear of all the gaps, if there is such a one; else one above    *)
(* where the search upwards begins, no higher than any that is clear.  That *)
(* may fail where a stack is less than the gap above address zero, so that  *)
(* the limit wraps.  A hint is taken if the range it names would do.        *)
SearchIsRight ==
  \A len \in Lens :
    LET down == Fitting(areas, mmap_min_addr, mmap_base, len)
        up   == Fitting(areas, TASK_UNMAPPED_BASE, NPages, len)
        any  == get_unmapped_area(areas, 0, len) IN
    /\ any # NoRoom => any \in down \cup up
    /\ \A p \in FittingWell(areas, mmap_min_addr, mmap_base, len) : any \in down /\ any >= p
    /\ (\A v \in areas : vm_start_gap(v) # 0) =>
         \A p \in FittingWell(areas, TASK_UNMAPPED_BASE, NPages, len) :
           any # NoRoom /\ (any <= p \/ any \in down)
    /\ \A hint \in mmap_min_addr..(NPages - 1) :
         LET near == get_unmapped_area(areas, hint, len) IN
         near = IF hint \in Fitting(areas, mmap_min_addr, NPages, len) THEN hint ELSE any
    /\ \A offset \in {0, 1} :
         LET high == unmapped_area_topdown(areas, len, mmap_min_addr, mmap_base, 1, offset)
             low  == unmapped_area(areas, len, TASK_UNMAPPED_BASE, NPages, 1, offset) IN
         /\ high \in 0..(NPages - 1) => high \in down /\ high % 2 = offset
         /\ low # NoRoom => low \in up /\ low % 2 = offset

(* A fault below a stack ends, however the other threads grow, map, unmap   *)
(* and fault: expand_stack() gets its lock, and leaves none behind.         *)
FaultsEnd == \A t \in Threads : pc[t] = "expand" ~> pc[t] = "idle"
=============================================================================
