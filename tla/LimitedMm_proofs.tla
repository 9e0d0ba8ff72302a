--------------------------- MODULE LimitedMm_proofs ---------------------------
(***************************************************************************)
(* Proofs about LimitedMm, for every set of tasks and address spaces, every *)
(* page size and every width of a size_t.                                  *)
(*                                                                         *)
(* The inductive invariant says, of each task, how far its allocator call  *)
(* and the question it put to the gate have come together, and what its    *)
(* locals still say about its address space; and, of each address space,   *)
(* who holds its mmap_lock and that its pages add up.                      *)
(***************************************************************************)
EXTENDS LimitedMm, TLAPS

BrkApcs     == {"brk_lock", "brk_ask", "brk_gate", "brk_apply", "brk_unmap"}
GateApcs    == {"brk_gate", "mmap_gate"}
HoldingApcs == {"brk_ask", "brk_gate", "brk_apply", "brk_unmap", "mmap_map",
                "mmap_account"}

(* The parts of the registry that the allocators look at. *)
RegistryTypes ==
  /\ exists \subseteq Tasks
  /\ mm \in [Tasks -> Mms \cup {NoMM}]
  /\ pc \in [Tasks -> Registry!Pcs]
  /\ req \in [Tasks -> Registry!Request]
  /\ task \in [Tasks -> Tasks \cup {NoTask, Freed}]
  /\ usage \in [Tasks -> Registry!Sizes]
  /\ ret \in [Tasks -> Registry!Codes]

(* memory_list_mutex is held inside critical sections only. *)
MutexInSection ==
  \A t \in Tasks : memory_list_mutex = t => pc[t] \in Registry!CriticalPcs

(* A task in a call has an address space, and its allocator call and its    *)
(* question to the gate go together.                                        *)
CallsMatch(t) ==
  /\ pc[t] # "idle" \/ apc[t] # "none" => t \in exists /\ mm[t] \in Mms
  /\ apc[t] \in GateApcs =>
       /\ pc[t] \in {"check_usage", "check_lock", "check_scan", "return"}
       /\ req[t].op = "check"
       /\ pc[t] = "check_usage" => task[t] = t
  /\ apc[t] = "none" => pc[t] = "idle" \/ req[t].op # "check"
  /\ apc[t] \notin GateApcs /\ apc[t] # "none" => pc[t] = "idle"

(* brk() and mmap() hold the mmap_lock where they look at the address space *)
(* or change it, and what they remember of it is still so.                  *)
LocalsHold(t) ==
  /\ apc[t] \in HoldingApcs => mmap_lock[mm[t]] = t
  /\ apc[t] \in BrkApcs => arg[t] \in BrkArgs
  /\ apc[t] \in {"brk_ask", "brk_gate", "brk_apply"} => origbrk[t] = brk[mm[t]]
  /\ apc[t] = "brk_gate" => req[t].size = BrkRequest(origbrk[t], arg[t])
  /\ apc[t] = "brk_gate" /\ (pc[t] = "return" => ret[t] = "accepted")
                         /\ pc[t] # "check_usage"
       => usage[t] = Registry!Bytes(total_vm[mm[t]])
  /\ apc[t] = "brk_apply" =>
       checked[t] = (Registry!Bytes(total_vm[mm[t]]) + BrkRequest(origbrk[t], arg[t]))
                      % SizeMod
  /\ apc[t] = "brk_unmap" => heap[mm[t]] <= Pages(PAGE_ALIGN(origbrk[t]))
  /\ apc[t] = "brk_unmap" => brk[mm[t]] = arg[t]
  /\ apc[t] = "mmap_account" => total_vm[mm[t]] + Pages(PAGE_ALIGN(arg[t])) <= MaxVm

(* The pages of an address space add up, its heap lies below its break but  *)
(* for a brk() that has moved the break and has pages to give back, and its *)
(* mmap_lock is held by a task of its own that is in brk() or mmap().       *)
MmHolds(m) ==
  /\ total_vm[m] = heap[m] + mapped[m] + stack[m]
  /\ \/ heap[m] <= Pages(PAGE_ALIGN(brk[m]))
     \/ mmap_lock[m] \in Tasks /\ apc[mmap_lock[m]] = "brk_unmap"
  /\ mmap_lock[m] \in Tasks =>
       apc[mmap_lock[m]] \in HoldingApcs /\ mm[mmap_lock[m]] = m

IInv ==
  /\ TypeOK /\ RegistryTypes /\ MutexInSection
  /\ \A t \in Tasks : CallsMatch(t) /\ LocalsHold(t)
  /\ \A m \in Mms : MmHolds(m)

(* Division by the page size, as far as the sizes need it. *)
LEMMA PagesOfBytes ==
  ASSUME NEW x \in Nat
  PROVE  /\ x \div PageSize \in Nat
         /\ (x \div PageSize) * PageSize \in Nat
         /\ (x \div PageSize) * PageSize <= x
         /\ ((x \div PageSize) * PageSize) \div PageSize = x \div PageSize
  BY RegistryAssumption

LEMMA ModBelow ==
  ASSUME NEW x \in 0..(SizeMod - 1)
  PROVE  x % SizeMod = x
  BY RegistryAssumption

LEMMA ModOnce ==
  ASSUME NEW x \in 0..(SizeMod - 1)
  PROVE  (x + SizeMod) % SizeMod = x
  BY RegistryAssumption

LEMMA ModIsSize ==
  ASSUME NEW x \in Nat
  PROVE  x % SizeMod \in 0..(SizeMod - 1)
  BY RegistryAssumption

LEMMA ProductGrows ==
  ASSUME NEW a \in Nat, NEW b \in Nat, a <= b
  PROVE  a * PageSize <= b * PageSize
<1>1. PICK d \in Nat : b = a + d
  <2>1. b - a \in Nat /\ b = a + (b - a)
    OBVIOUS
  <2>2. QED  BY <2>1
<1>2. (a + d) * PageSize = a * PageSize + d * PageSize
  BY RegistryAssumption
<1>3. d * PageSize \in Nat /\ a * PageSize \in Nat
  BY RegistryAssumption
<1>4. QED  BY <1>1, <1>2, <1>3

(* A break never wraps when it is aligned. *)
LEMMA BreakPages ==
  ASSUME NEW x \in BrkArgs \cup {0}
  PROVE  /\ Pages(PAGE_ALIGN(x)) \in Nat
         /\ PAGE_ALIGN(x) = Pages(PAGE_ALIGN(x)) * PageSize
         /\ PAGE_ALIGN(x) \in 0..(SizeMod - 1)
<1>1. x \in Nat /\ x + PageSize - 1 \in 0..(SizeMod - 1)
  BY RegistryAssumption, BrkAssumption
<1>2. PICK k \in Nat : /\ k = (x + PageSize - 1) \div PageSize
                       /\ k * PageSize \in 0..(SizeMod - 1)
                       /\ (k * PageSize) \div PageSize = k
  BY <1>1, PagesOfBytes, RegistryAssumption
<1>3. PAGE_ALIGN(x) = k * PageSize
  BY <1>2, ModBelow DEF PAGE_ALIGN
<1>4. QED  BY <1>2, <1>3 DEF Pages

(* brk() asks for exactly the pages that it will add. *)
LEMMA RequestIsGrowth ==
  ASSUME NEW old \in BrkArgs \cup {0}, NEW new \in BrkArgs \cup {0},
         PAGE_ALIGN(new) > PAGE_ALIGN(old), NEW total \in Nat,
         total + (Pages(PAGE_ALIGN(new)) - Pages(PAGE_ALIGN(old))) <= MaxVm
  PROVE  /\ Pages(PAGE_ALIGN(new)) - Pages(PAGE_ALIGN(old)) \in Nat
         /\ (Registry!Bytes(total) + BrkRequest(old, new)) % SizeMod =
              (total + (Pages(PAGE_ALIGN(new)) - Pages(PAGE_ALIGN(old)))) * PageSize
<1> DEFINE n == Pages(PAGE_ALIGN(new))
           o == Pages(PAGE_ALIGN(old))
<1>1. /\ n \in Nat /\ PAGE_ALIGN(new) = n * PageSize /\ n * PageSize \in 0..(SizeMod - 1)
      /\ o \in Nat /\ PAGE_ALIGN(old) = o * PageSize /\ o * PageSize \in 0..(SizeMod - 1)
  BY BreakPages
<1> HIDE DEF n, o
<1>2. n - o \in Nat /\ (n - o) * PageSize \in 0..(SizeMod - 1)
  <2>1. n \in Nat /\ o \in Nat /\ n * PageSize \in 0..(SizeMod - 1)
          /\ o * PageSize \in 0..(SizeMod - 1) /\ n * PageSize > o * PageSize
    BY <1>1
  <2>2. n <= o => n * PageSize <= o * PageSize
    BY <2>1, ProductGrows
  <2>3. n > o
    BY <2>1, <2>2
  <2>4. PICK d \in Nat : n - o = d
    BY <2>1, <2>3
  <2>5. d * PageSize = n * PageSize - o * PageSize
    <3>1. n = o + d
      BY <2>1, <2>4
    <3>2. (o + d) * PageSize = o * PageSize + d * PageSize /\ d * PageSize \in Nat
      BY <2>1, RegistryAssumption
    <3>3. QED  BY <2>1, <3>1, <3>2
  <2>6. d * PageSize \in 0..(SizeMod - 1)
    BY <2>1, <2>5, RegistryAssumption
  <2>7. QED  BY <2>4, <2>6
<1>3. BrkRequest(old, new) = (n - o) * PageSize
  <2>1. BrkRequest(old, new) = ((n - o) * PageSize + SizeMod) % SizeMod
    <3>1. n * PageSize + SizeMod - o * PageSize = (n - o) * PageSize + SizeMod
      BY <1>1, RegistryAssumption
    <3>2. QED  BY <1>1, <3>1 DEF BrkRequest
  <2>2. QED  BY <1>2, <2>1, ModOnce
<1>4. total + (n - o) \in Nat /\ total + (n - o) <= MaxVm
  BY <1>2 DEF n, o
<1>5. /\ (total + (n - o)) * PageSize \in 0..(SizeMod - 1)
      /\ total * PageSize \in 0..(SizeMod - 1)
      /\ (total + (n - o)) * PageSize = total * PageSize + (n - o) * PageSize
  <2>1. /\ (total + (n - o)) * PageSize \in Nat
        /\ (total + (n - o)) * PageSize <= MaxVm * PageSize
    BY <1>4, RegistryAssumption
  <2>2. (total + (n - o)) * PageSize = total * PageSize + (n - o) * PageSize
    BY <1>1, RegistryAssumption
  <2>3. total * PageSize \in Nat
    BY RegistryAssumption
  <2>4. QED  BY <1>2, <2>1, <2>2, <2>3, RegistryAssumption, BrkAssumption
<1>6. Registry!Bytes(total) = total * PageSize
  BY <1>5, ModBelow DEF Registry!Bytes
<1>7. QED  BY <1>2, <1>3, <1>5, <1>6, ModBelow DEF n, o

(* What brk() asks the gate for is a size_t. *)
LEMMA RequestIsSize ==
  ASSUME NEW old \in BrkArgs \cup {0}, NEW new \in BrkArgs \cup {0}
  PROVE  BrkRequest(old, new) \in 0..(SizeMod - 1)
<1>1. PAGE_ALIGN(new) + SizeMod - PAGE_ALIGN(old) \in Nat
  BY BreakPages, RegistryAssumption
<1>2. QED  BY <1>1, ModIsSize DEF BrkRequest

LEMMA MappingPages ==
  ASSUME NEW x \in Nat
  PROVE  Pages(PAGE_ALIGN(x)) \in Nat
<1>1. x + PageSize - 1 \in Nat
  BY RegistryAssumption
<1>2. PAGE_ALIGN(x) \in Nat
  BY <1>1, PagesOfBytes, ModIsSize DEF PAGE_ALIGN
<1>3. QED  BY <1>2, PagesOfBytes DEF Pages

-----------------------------------------------------------------------------
(* What a step of one task leaves of the others. *)

SameTask(u) ==
  /\ apc'[u] = apc[u] /\ arg'[u] = arg[u]
  /\ origbrk'[u] = origbrk[u] /\ checked'[u] = checked[u]
  /\ pc'[u] = pc[u] /\ req'[u] = req[u] /\ usage'[u] = usage[u] /\ ret'[u] = ret[u]
  /\ mm'[u] = mm[u]
  /\ pc[u] = "check_usage" /\ task[u] = u => task'[u] = u
  /\ u \in exists => u \in exists'

SameSpace(m) ==
  /\ mmap_lock'[m] = mmap_lock[m] /\ brk'[m] = brk[m] /\ total_vm'[m] = total_vm[m]
  /\ heap'[m] = heap[m] /\ mapped'[m] = mapped[m] /\ stack'[m] = stack[m]

LEMMA TaskKeeps ==
  ASSUME NEW u \in Tasks, CallsMatch(u), LocalsHold(u), SameTask(u),
         apc[u] \in HoldingApcs => SameSpace(mm[u])
  PROVE  CallsMatch(u)' /\ LocalsHold(u)'
<1>1. CallsMatch(u)'
  BY DEF CallsMatch, SameTask, GateApcs
<1>2. CASE apc[u] \notin HoldingApcs
  BY <1>1, <1>2 DEF LocalsHold, SameTask, HoldingApcs, BrkApcs
<1>3. CASE apc[u] \in HoldingApcs
  BY <1>1, <1>3 DEF LocalsHold, SameTask, SameSpace, BrkApcs
<1>4. QED  BY <1>1, <1>2, <1>3

LEMMA SpaceKeeps ==
  ASSUME NEW m \in Mms, MmHolds(m), SameSpace(m),
         mmap_lock[m] \in Tasks => SameTask(mmap_lock[m])
  PROVE  MmHolds(m)'
  BY DEF MmHolds, SameTask, SameSpace

(* A step of t in an address space that is t's own, by its lock, or free.   *)
LEMMA OwnSpaceStep ==
  ASSUME IInv, NEW t \in Tasks, NEW m \in Mms,
         mmap_lock[m] \in Tasks => mmap_lock[m] = t,
         apc[t] \in HoldingApcs => mm[t] = m,
         \A u \in Tasks \ {t} : SameTask(u),
         \A n \in Mms \ {m} : SameSpace(n),
         CallsMatch(t)', LocalsHold(t)', MmHolds(m)'
  PROVE  /\ \A u \in Tasks : CallsMatch(u)' /\ LocalsHold(u)'
         /\ \A n \in Mms : MmHolds(n)'
<1>1. ASSUME NEW u \in Tasks \ {t}  PROVE CallsMatch(u)' /\ LocalsHold(u)'
  <2>1. CallsMatch(u) /\ LocalsHold(u) /\ SameTask(u)
    BY DEF IInv
  <2>2. apc[u] \in HoldingApcs => SameSpace(mm[u])
    <3>1. SUFFICES ASSUME apc[u] \in HoldingApcs  PROVE SameSpace(mm[u])
      OBVIOUS
    <3>2. mmap_lock[mm[u]] = u /\ mm[u] \in Mms
      BY <2>1, <3>1 DEF LocalsHold, CallsMatch, HoldingApcs
    <3>3. QED  BY <3>2
  <2>3. QED  BY <2>1, <2>2, TaskKeeps
<1>2. ASSUME NEW n \in Mms \ {m}  PROVE MmHolds(n)'
  <2>1. MmHolds(n) /\ SameSpace(n)
    BY DEF IInv
  <2>2. mmap_lock[n] \in Tasks => mmap_lock[n] # t
    BY <2>1 DEF MmHolds
  <2>3. QED  BY <2>1, <2>2, SpaceKeeps
<1>3. QED  BY <1>1, <1>2

(* A step that touches no address space: of a call that neither takes nor   *)
(* drops an mmap_lock.                                                      *)
LEMMA QuietStep ==
  ASSUME IInv, NEW t \in Tasks,
         \A u \in Tasks \ {t} : SameTask(u),
         \A n \in Mms : SameSpace(n),
         CallsMatch(t)', LocalsHold(t)',
         apc[t] \in HoldingApcs => apc'[t] \in HoldingApcs /\ mm'[t] = mm[t],
         apc[t] = "brk_unmap" => apc'[t] = "brk_unmap"
  PROVE  /\ \A u \in Tasks : CallsMatch(u)' /\ LocalsHold(u)'
         /\ \A n \in Mms : MmHolds(n)'
<1>1. ASSUME NEW u \in Tasks \ {t}  PROVE CallsMatch(u)' /\ LocalsHold(u)'
  <2>1. CallsMatch(u) /\ LocalsHold(u) /\ SameTask(u)
    BY DEF IInv
  <2>2. apc[u] \in HoldingApcs => SameSpace(mm[u])
    BY <2>1 DEF CallsMatch, HoldingApcs
  <2>3. QED  BY <2>1, <2>2, TaskKeeps
<1>2. ASSUME NEW n \in Mms  PROVE MmHolds(n)'
  <2>1. MmHolds(n) /\ SameSpace(n)
    BY DEF IInv
  <2>2. CASE mmap_lock[n] \in Tasks => mmap_lock[n] # t
    BY <2>1, <2>2, SpaceKeeps
  <2>3. CASE mmap_lock[n] = t
    BY <2>1, <2>3 DEF MmHolds, SameSpace
  <2>4. QED  BY <2>2, <2>3
<1>3. QED  BY <1>1, <1>2

-----------------------------------------------------------------------------
(* The registry calls, as far as the allocators see them. *)

LEMMA RegistryPoints ==
  /\ Registry!WaitingPcs = {"add_lock", "update_lock", "remove_lock", "get_lock",
                            "check_lock"}
  /\ Registry!CriticalPcs = {"add_scan", "update_scan", "remove_scan", "get_scan",
                             "check_scan", "add_alloc", "add_insert"}
  /\ Registry!Pcs = {"idle", "get_copy", "get_put", "return", "add_usage", "check_usage",
                     "add_lock", "update_lock", "remove_lock", "get_lock", "check_lock",
                     "add_scan", "update_scan", "remove_scan", "get_scan", "check_scan",
                     "add_alloc", "add_insert"}
<1>1. Registry!WaitingPcs = {"add_lock", "update_lock", "remove_lock", "get_lock",
                             "check_lock"}
  BY DEF Registry!WaitingPcs, Registry!AfterLock
<1>2. Registry!CriticalPcs = {"add_scan", "update_scan", "remove_scan", "get_scan",
                              "check_scan", "add_alloc", "add_insert"}
  BY <1>1 DEF Registry!CriticalPcs, Registry!AfterLock
<1>3. QED  BY <1>1, <1>2 DEF Registry!Pcs, Registry!UsagePcs

(* Another task's call stays where it is. *)
SameCall(u) ==
  pc'[u] = pc[u] /\ req'[u] = req[u] /\ usage'[u] = usage[u] /\ ret'[u] = ret[u]
    /\ task'[u] = task[u]

LEMMA FinishMoves ==
  ASSUME RegistryTypes, NEW t \in Tasks, NEW code \in Registry!Codes,
         Registry!Finish(t, code)
  PROVE  /\ pc' \in [Tasks -> Registry!Pcs] /\ ret' \in [Tasks -> Registry!Codes]
         /\ task' \in [Tasks -> Tasks \cup {NoTask, Freed}]
         /\ pc'[t] = "return" /\ ret'[t] = code /\ usage' = usage
         /\ \A u \in Tasks \ {t} : pc'[u] = pc[u] /\ ret'[u] = ret[u] /\ task'[u] = task[u]
  BY RegistryPoints DEF RegistryTypes, Registry!Finish, Registry!Goto

LEMMA GotoMoves ==
  ASSUME RegistryTypes, NEW t \in Tasks, NEW label \in Registry!Pcs,
         Registry!Goto(t, label)
  PROVE  /\ pc' \in [Tasks -> Registry!Pcs]
         /\ pc'[t] = label
         /\ \A u \in Tasks \ {t} : pc'[u] = pc[u]
  BY DEF RegistryTypes, Registry!Goto

(* A registry call begins: with its result, or on its way to it. *)
LEMMA NewCall ==
  ASSUME RegistryTypes, MutexInSection, NEW t \in Tasks,
         NEW op \in Registry!Ops, NEW p \in Tasks \cup {NegativePid, NoTask},
         NEW size \in Nat,
         pc[t] = "idle", Registry!Accept(t, op, p, size),
         UNCHANGED <<memory_list_mutex, exists, mm>>,
         \/ \E code \in Registry!Codes : Registry!Finish(t, code)
         \/ /\ \E label \in {"add_usage", "update_lock", "remove_lock", "get_lock",
                             "check_usage"} : Registry!Goto(t, label)
            /\ UNCHANGED <<usage, ret>>
            /\ \/ task' = task
               \/ \E x \in Tasks : task' = [task EXCEPT ![t] = x]
  PROVE  /\ RegistryTypes' /\ MutexInSection'
         /\ \A u \in Tasks \ {t} : SameCall(u)
         /\ req'[t].op = op /\ req'[t].size = size
<1>1. /\ req' \in [Tasks -> Registry!Request]
      /\ req'[t].op = op /\ req'[t].size = size
      /\ \A u \in Tasks \ {t} : req'[u] = req[u]
  <2> DEFINE r == [op |-> op, pid |-> p, size |-> size]
  <2>1. r \in Registry!Request /\ r.op = op /\ r.size = size
    BY DEF Registry!Request, Registry!PidArgs
  <2>2. req' = [req EXCEPT ![t] = r]
    BY DEF Registry!Accept
  <2> HIDE DEF r
  <2>3. QED  BY <2>1, <2>2 DEF RegistryTypes
<1>2. CASE \E code \in Registry!Codes : Registry!Finish(t, code)
  <2>1. PICK code \in Registry!Codes : Registry!Finish(t, code)
    BY <1>2
  <2>2. RegistryTypes'
    BY <1>1, <2>1, FinishMoves DEF RegistryTypes
  <2>3. MutexInSection'
    BY <2>1, FinishMoves, RegistryPoints DEF MutexInSection
  <2>4. QED  BY <1>1, <2>1, <2>2, <2>3, FinishMoves DEF SameCall
<1>3. CASE /\ \E label \in {"add_usage", "update_lock", "remove_lock", "get_lock",
                            "check_usage"} : Registry!Goto(t, label)
           /\ UNCHANGED <<usage, ret>>
           /\ \/ task' = task
              \/ \E x \in Tasks : task' = [task EXCEPT ![t] = x]
  <2>1. PICK label \in {"add_usage", "update_lock", "remove_lock", "get_lock",
                        "check_usage"} : Registry!Goto(t, label)
    BY <1>3
  <2>2. label \in Registry!Pcs
    BY RegistryPoints
  <2>3. /\ task' \in [Tasks -> Tasks \cup {NoTask, Freed}]
        /\ \A u \in Tasks \ {t} : task'[u] = task[u]
    BY <1>3 DEF RegistryTypes
  <2>4. RegistryTypes'
    BY <1>1, <1>3, <2>1, <2>2, <2>3, GotoMoves DEF RegistryTypes
  <2>5. MutexInSection'
    BY <2>1, <2>2, GotoMoves, RegistryPoints DEF MutexInSection
  <2>6. QED  BY <1>1, <1>3, <2>1, <2>2, <2>3, <2>4, <2>5, GotoMoves DEF SameCall
<1>4. QED  BY <1>2, <1>3

LEMMA TargetIsTask ==
  ASSUME NEW t \in Tasks, NEW p, Registry!find_task_by_vpid(t, p) # NoTask
  PROVE  Registry!find_task_by_vpid(t, p) \in Tasks /\ p \in Tasks
  BY RegistryAssumption DEF Registry!find_task_by_vpid

(* An add, an update, a remove or a get begins. *)
LEMMA RegistryEnterMoves ==
  ASSUME RegistryTypes, MutexInSection, NEW t \in Tasks, RegistryEnter(t)
  PROVE  /\ RegistryTypes' /\ MutexInSection'
         /\ \A u \in Tasks \ {t} : SameCall(u)
         /\ req'[t].op # "check"
         /\ t \in exists /\ mm[t] # NoMM
         /\ exists' = exists /\ mm' = mm /\ total_vm' = total_vm
<1>1. ASSUME NEW p \in Tasks, NEW limit \in LimitArgs, Registry!AddEnter(t, p, limit)
      PROVE  /\ RegistryTypes' /\ MutexInSection'
             /\ \A u \in Tasks \ {t} : SameCall(u)
             /\ req'[t].op # "check"
  <2>1. /\ limit \in Nat /\ pc[t] = "idle" /\ Registry!Accept(t, "add", p, limit)
        /\ UNCHANGED <<memory_list_mutex, exists, mm>>
    BY <1>1, RegistryAssumption
       DEF Registry!AddEnter, Registry!Idle, Registry!registryVars, Registry!taskVars
  <2>2. \/ \E code \in Registry!Codes : Registry!Finish(t, code)
        \/ /\ Registry!Goto(t, "add_usage")
           /\ UNCHANGED <<usage, ret>>
           /\ \E x \in Tasks : task' = [task EXCEPT ![t] = x]
    BY <1>1, TargetIsTask DEF Registry!AddEnter, Registry!Codes
  <2>3. "add" \in Registry!Ops /\ "add" # "check"
    BY DEF Registry!Ops
  <2>4. QED  BY <2>1, <2>2, <2>3, NewCall
<1>2. ASSUME NEW p \in Tasks, NEW limit \in LimitArgs, Registry!UpdateEnter(t, p, limit)
      PROVE  /\ RegistryTypes' /\ MutexInSection'
             /\ \A u \in Tasks \ {t} : SameCall(u)
             /\ req'[t].op # "check"
  <2>1. /\ limit \in Nat /\ pc[t] = "idle" /\ Registry!Accept(t, "update", p, limit)
        /\ UNCHANGED <<memory_list_mutex, exists, mm>>
    BY <1>2, RegistryAssumption
       DEF Registry!UpdateEnter, Registry!Idle, Registry!registryVars, Registry!taskVars
  <2>2. \/ \E code \in Registry!Codes : Registry!Finish(t, code)
        \/ Registry!Goto(t, "update_lock") /\ UNCHANGED <<usage, ret>> /\ task' = task
    BY <1>2 DEF Registry!UpdateEnter, Registry!Codes
  <2>3. "update" \in Registry!Ops /\ "update" # "check"
    BY DEF Registry!Ops
  <2>4. QED  BY <2>1, <2>2, <2>3, NewCall
<1>3. ASSUME NEW p \in Tasks, Registry!RemoveEnter(t, p)
      PROVE  /\ RegistryTypes' /\ MutexInSection'
             /\ \A u \in Tasks \ {t} : SameCall(u)
             /\ req'[t].op # "check"
  <2>1. /\ pc[t] = "idle" /\ Registry!Accept(t, "remove", p, 0)
        /\ UNCHANGED <<memory_list_mutex, exists, mm>>
    BY <1>3
       DEF Registry!RemoveEnter, Registry!Idle, Registry!registryVars, Registry!taskVars
  <2>2. \/ \E code \in Registry!Codes : Registry!Finish(t, code)
        \/ Registry!Goto(t, "remove_lock") /\ UNCHANGED <<usage, ret>> /\ task' = task
    BY <1>3 DEF Registry!RemoveEnter, Registry!Codes
  <2>3. "remove" \in Registry!Ops /\ "remove" # "check"
    BY DEF Registry!Ops
  <2>4. QED  BY <2>1, <2>2, <2>3, NewCall
<1>4. ASSUME NEW n \in EntryArgs, Registry!GetEnter(t, n)
      PROVE  /\ RegistryTypes' /\ MutexInSection'
             /\ \A u \in Tasks \ {t} : SameCall(u)
             /\ req'[t].op # "check"
  <2>1. /\ n \in Nat /\ pc[t] = "idle" /\ Registry!Accept(t, "get", NoTask, n)
        /\ UNCHANGED <<memory_list_mutex, exists, mm>>
    BY <1>4, RegistryAssumption
       DEF Registry!GetEnter, Registry!Idle, Registry!registryVars, Registry!taskVars
  <2>2. \/ \E code \in Registry!Codes : Registry!Finish(t, code)
        \/ Registry!Goto(t, "get_lock") /\ UNCHANGED <<usage, ret>> /\ task' = task
    BY <1>4 DEF Registry!GetEnter, Registry!Codes
  <2>3. "get" \in Registry!Ops /\ "get" # "check"
    BY DEF Registry!Ops
  <2>4. QED  BY <2>1, <2>2, <2>3, NewCall
<1>5. /\ t \in exists /\ mm[t] # NoMM
      /\ exists' = exists /\ mm' = mm /\ total_vm' = total_vm
  BY DEF RegistryEnter, Registry!AddEnter, Registry!UpdateEnter, Registry!RemoveEnter,
         Registry!GetEnter, Registry!Idle, Registry!Running, Registry!taskVars
<1>6. QED  BY <1>1, <1>2, <1>3, <1>4, <1>5 DEF RegistryEnter

(* A question to the gate begins: the two refusals that "should not happen" *)
(* do not, because the task that asks exists and has an address space.      *)
LEMMA CheckEnterMoves ==
  ASSUME RegistryTypes, MutexInSection, NEW t \in Tasks, NEW size \in Nat,
         Registry!CheckEnter(t, size)
  PROVE  /\ RegistryTypes' /\ MutexInSection'
         /\ \A u \in Tasks \ {t} : SameCall(u)
         /\ pc[t] = "idle" /\ t \in exists /\ mm[t] # NoMM
         /\ pc'[t] = "check_usage" /\ task'[t] = t
         /\ req'[t].op = "check" /\ req'[t].size = size
         /\ exists' = exists /\ mm' = mm /\ total_vm' = total_vm
<1>1. /\ pc[t] = "idle" /\ t \in exists /\ mm[t] # NoMM
      /\ Registry!Accept(t, "check", t, size)
      /\ exists' = exists /\ mm' = mm /\ total_vm' = total_vm
      /\ memory_list_mutex' = memory_list_mutex
  BY DEF Registry!CheckEnter, Registry!Idle, Registry!Running, Registry!registryVars,
         Registry!taskVars
<1>2. Registry!find_task_by_vpid(t, t) = t
  BY <1>1, BrkAssumption DEF Registry!find_task_by_vpid
<1>3. /\ Registry!Goto(t, "check_usage")
      /\ task' = [task EXCEPT ![t] = t]
      /\ UNCHANGED <<usage, ret>>
  BY <1>1, <1>2, RegistryAssumption DEF Registry!CheckEnter
<1>4. "check" \in Registry!Ops
  BY DEF Registry!Ops
<1>5. /\ RegistryTypes' /\ MutexInSection'
      /\ \A u \in Tasks \ {t} : SameCall(u)
      /\ req'[t].op = "check" /\ req'[t].size = size
  BY <1>1, <1>3, <1>4, NewCall
<1>6. pc'[t] = "check_usage" /\ task'[t] = t
  BY <1>3 DEF RegistryTypes, Registry!Goto
<1>7. QED  BY <1>1, <1>5, <1>6
(* A registry call of t goes on. *)
LEMMA StepMoves ==
  ASSUME RegistryTypes, MutexInSection, NEW t \in Tasks, Registry!Step(t)
  PROVE  /\ RegistryTypes' /\ MutexInSection'
         /\ \A u \in Tasks \ {t} : SameCall(u) /\ mm'[u] = mm[u]
         /\ exists' = exists /\ total_vm' = total_vm
         /\ pc[t] # "idle"
         /\ pc'[t] = "idle" \/ (req'[t] = req[t] /\ mm' = mm)
<1> DEFINE Moves == /\ RegistryTypes' /\ MutexInSection'
                    /\ \A u \in Tasks \ {t} : SameCall(u) /\ mm'[u] = mm[u]
                    /\ exists' = exists /\ total_vm' = total_vm
                    /\ pc[t] # "idle"
                    /\ pc'[t] = "idle" \/ (req'[t] = req[t] /\ mm' = mm)
<1>1. ASSUME NEW code \in Registry!Codes, Registry!Finish(t, code),
             UNCHANGED <<exists, mm, total_vm, req>>, pc[t] # "idle",
             \/ memory_list_mutex' = NoTask
             \/ memory_list_mutex' = memory_list_mutex /\ pc[t] \notin Registry!CriticalPcs
      PROVE  Moves
  <2>1. RegistryTypes' /\ \A u \in Tasks \ {t} : SameCall(u) /\ mm'[u] = mm[u]
    BY <1>1, FinishMoves DEF RegistryTypes, SameCall
  <2>2. MutexInSection'
    BY <1>1, FinishMoves, RegistryAssumption DEF MutexInSection
  <2>3. QED  BY <1>1, <2>1, <2>2
<1>2. ASSUME NEW label \in Registry!Pcs, Registry!Goto(t, label),
             UNCHANGED <<exists, mm, total_vm, req, ret>>, pc[t] # "idle",
             usage' \in [Tasks -> Registry!Sizes],
             task' \in [Tasks -> Tasks \cup {NoTask, Freed}],
             \A u \in Tasks \ {t} : usage'[u] = usage[u] /\ task'[u] = task[u],
             \/ memory_list_mutex' = NoTask
             \/ /\ memory_list_mutex' = memory_list_mutex
                /\ pc[t] \notin Registry!CriticalPcs \/ label \in Registry!CriticalPcs
             \/ /\ memory_list_mutex' = t /\ memory_list_mutex = NoTask
                /\ label \in Registry!CriticalPcs
      PROVE  Moves
  <2>1. RegistryTypes' /\ \A u \in Tasks \ {t} : SameCall(u) /\ mm'[u] = mm[u]
    BY <1>2, GotoMoves DEF RegistryTypes, SameCall
  <2>2. MutexInSection'
    BY <1>2, GotoMoves, RegistryAssumption DEF MutexInSection
  <2>3. QED  BY <1>2, <2>1, <2>2
<1>0. SUFFICES Moves
  BY DEF Moves
<1> HIDE DEF Moves
<1>3. usage \in [Tasks -> Registry!Sizes] /\ task \in [Tasks -> Tasks \cup {NoTask, Freed}]
  BY DEF RegistryTypes
<1>4. CASE Registry!LockMutex(t)
  <2>1. /\ pc[t] \in Registry!WaitingPcs /\ Registry!Goto(t, Registry!AfterLock[pc[t]])
        /\ UNCHANGED <<exists, mm, total_vm, req, task, usage, ret>>
        /\ memory_list_mutex' = t /\ memory_list_mutex = NoTask
    BY <1>4 DEF Registry!LockMutex, Registry!Lock, Registry!taskVars
  <2>2. /\ Registry!AfterLock[pc[t]] \in Registry!CriticalPcs
        /\ Registry!AfterLock[pc[t]] \in Registry!Pcs
        /\ pc[t] # "idle"
    BY <2>1, RegistryPoints DEF Registry!CriticalPcs, Registry!Pcs
  <2>3. QED  BY <1>2, <1>3, <2>1, <2>2
<1>5. CASE Registry!Return(t)
  <2>1. Registry!NoReq \in Registry!Request
    BY DEF Registry!NoReq, Registry!Request, Registry!Ops
  <2>2. RegistryTypes'
    BY <1>5, <2>1, RegistryPoints, RegistryAssumption
       DEF Registry!Return, Registry!Goto, Registry!taskVars, RegistryTypes,
           Registry!Codes, Registry!Sizes
  <2>3. MutexInSection'
    BY <1>5, RegistryPoints
       DEF Registry!Return, Registry!Goto, Registry!registryVars, RegistryTypes,
           MutexInSection
  <2>4. /\ \A u \in Tasks \ {t} : SameCall(u) /\ mm'[u] = mm[u]
        /\ exists' = exists /\ total_vm' = total_vm /\ pc[t] # "idle" /\ pc'[t] = "idle"
    BY <1>5 DEF Registry!Return, Registry!Goto, Registry!taskVars, RegistryTypes, SameCall
  <2>5. QED  BY <2>2, <2>3, <2>4 DEF Moves
<1>6. CASE Registry!Oops(t)
  <2>1. Registry!NoReq \in Registry!Request
    BY DEF Registry!NoReq, Registry!Request, Registry!Ops
  <2>2. RegistryTypes'
    BY <1>6, <2>1, RegistryPoints DEF Registry!Oops, Registry!Goto, RegistryTypes
  <2>3. MutexInSection'
    BY <1>6, RegistryPoints
       DEF Registry!Oops, Registry!Goto, Registry!registryVars, RegistryTypes,
           Registry!UsagePcs, MutexInSection
  <2>4. /\ \A u \in Tasks \ {t} : SameCall(u) /\ mm'[u] = mm[u]
        /\ exists' = exists /\ total_vm' = total_vm /\ pc[t] # "idle" /\ pc'[t] = "idle"
    BY <1>6 DEF Registry!Oops, Registry!Goto, Registry!UsagePcs, RegistryTypes, SameCall
  <2>5. QED  BY <2>2, <2>3, <2>4 DEF Moves
<1>7. CASE Registry!AddReadUsage(t)
  <2>1. /\ pc[t] = "add_usage" /\ UNCHANGED <<exists, mm, total_vm, req>>
        /\ memory_list_mutex' = memory_list_mutex
    BY <1>7 DEF Registry!AddReadUsage, Registry!registryVars, Registry!taskVars
  <2>2. \/ Registry!Finish(t, "E100")
        \/ /\ Registry!Goto(t, "add_lock") /\ task' = [task EXCEPT ![t] = NoTask]
           /\ UNCHANGED <<usage, ret>>
    BY <1>7 DEF Registry!AddReadUsage
  <2>3. "E100" \in Registry!Codes /\ "add_lock" \in Registry!Pcs
          /\ pc[t] \notin Registry!CriticalPcs /\ pc[t] # "idle"
    BY <2>1, RegistryPoints DEF Registry!Codes
  <2>4. CASE Registry!Finish(t, "E100")
    BY <1>1, <2>1, <2>3, <2>4
  <2>5. CASE /\ Registry!Goto(t, "add_lock") /\ task' = [task EXCEPT ![t] = NoTask]
             /\ UNCHANGED <<usage, ret>>
    <3>1. /\ task' \in [Tasks -> Tasks \cup {NoTask, Freed}]
          /\ \A u \in Tasks \ {t} : task'[u] = task[u]
      BY <1>3, <2>5
    <3>2. QED  BY <1>2, <1>3, <2>1, <2>3, <2>5, <3>1
  <2>6. QED  BY <2>2, <2>4, <2>5
<1>8. CASE Registry!AddScan(t) \/ Registry!AddAlloc(t)
  <2>1. /\ pc[t] \in {"add_scan", "add_alloc"} /\ UNCHANGED <<exists, mm, total_vm, req>>
    BY <1>8 DEF Registry!AddScan, Registry!AddAlloc, Registry!taskVars
  <2>2. \/ \E code \in {"E101", "ENOMEM"} :
              Registry!Finish(t, code) /\ memory_list_mutex' = NoTask
        \/ /\ \E label \in {"add_alloc", "add_insert"} : Registry!Goto(t, label)
           /\ UNCHANGED <<memory_list_mutex, task, usage, ret>>
    BY <1>8 DEF Registry!AddScan, Registry!AddAlloc, Registry!Unlock
  <2>3. /\ {"E101", "ENOMEM"} \subseteq Registry!Codes
        /\ {"add_alloc", "add_insert"} \subseteq Registry!Pcs \cap Registry!CriticalPcs
        /\ pc[t] # "idle"
    BY <2>1, RegistryPoints DEF Registry!Codes
  <2>4. CASE \E code \in {"E101", "ENOMEM"} :
               Registry!Finish(t, code) /\ memory_list_mutex' = NoTask
    BY <1>1, <2>1, <2>3, <2>4
  <2>5. CASE /\ \E label \in {"add_alloc", "add_insert"} : Registry!Goto(t, label)
             /\ UNCHANGED <<memory_list_mutex, task, usage, ret>>
    BY <1>2, <1>3, <2>1, <2>3, <2>5
  <2>6. QED  BY <2>2, <2>4, <2>5
<1>9. CASE Registry!AddInsert(t) \/ Registry!UpdateScan(t) \/ Registry!RemoveScan(t)
             \/ Registry!CheckScan(t)
  <2>1. /\ pc[t] # "idle" /\ UNCHANGED <<exists, mm, total_vm, req>>
        /\ memory_list_mutex' = NoTask
    BY <1>9 DEF Registry!AddInsert, Registry!UpdateScan, Registry!RemoveScan,
                Registry!CheckScan, Registry!Unlock, Registry!taskVars
  <2>2. \E code \in {"0", "E102", "accepted", "denied"} : Registry!Finish(t, code)
    BY <1>9 DEF Registry!AddInsert, Registry!UpdateScan, Registry!RemoveScan,
                Registry!CheckScan
  <2>3. {"0", "E102", "accepted", "denied"} \subseteq Registry!Codes
    BY DEF Registry!Codes
  <2>4. QED  BY <1>1, <2>1, <2>2, <2>3
<1>10. CASE Registry!GetScan(t)
  <2>1. /\ pc[t] # "idle" /\ UNCHANGED <<exists, mm, total_vm, req, task, usage, ret>>
        /\ memory_list_mutex' = NoTask /\ Registry!Goto(t, "get_copy")
    BY <1>10 DEF Registry!GetScan, Registry!Unlock, Registry!taskVars
  <2>2. "get_copy" \in Registry!Pcs
    BY RegistryPoints
  <2>3. QED  BY <1>2, <1>3, <2>1, <2>2
<1>11. CASE Registry!GetCopy(t) \/ Registry!GetPut(t)
  <2>1. /\ pc[t] \in {"get_copy", "get_put"} /\ UNCHANGED <<exists, mm, total_vm, req>>
        /\ memory_list_mutex' = memory_list_mutex
    BY <1>11 DEF Registry!GetCopy, Registry!GetPut, Registry!registryVars,
                 Registry!taskVars
  <2>2. \/ \E code \in {"0", "EFAULT"} : Registry!Finish(t, code)
        \/ Registry!Goto(t, "get_put") /\ UNCHANGED <<task, usage, ret>>
    BY <1>11 DEF Registry!GetCopy, Registry!GetPut
  <2>3. /\ {"0", "EFAULT"} \subseteq Registry!Codes /\ "get_put" \in Registry!Pcs
        /\ pc[t] \notin Registry!CriticalPcs /\ pc[t] # "idle"
    BY <2>1, RegistryPoints DEF Registry!Codes
  <2>4. QED  BY <1>1, <1>2, <1>3, <2>1, <2>2, <2>3
<1>12. CASE Registry!CheckReadUsage(t)
  <2>1. /\ pc[t] = "check_usage" /\ UNCHANGED <<exists, mm, total_vm, req, ret>>
        /\ memory_list_mutex' = memory_list_mutex
        /\ Registry!Goto(t, "check_lock") /\ task' = [task EXCEPT ![t] = NoTask]
        /\ \E u \in Registry!Sizes : usage' = [usage EXCEPT ![t] = u]
    BY <1>12 DEF Registry!CheckReadUsage, Registry!registryVars, Registry!taskVars
  <2>2. /\ task' \in [Tasks -> Tasks \cup {NoTask, Freed}]
        /\ usage' \in [Tasks -> Registry!Sizes]
        /\ \A u \in Tasks \ {t} : usage'[u] = usage[u] /\ task'[u] = task[u]
    BY <1>3, <2>1
  <2>3. /\ "check_lock" \in Registry!Pcs
        /\ pc[t] \notin Registry!CriticalPcs /\ pc[t] # "idle"
    BY <2>1, RegistryPoints
  <2>4. QED  BY <1>2, <2>1, <2>2, <2>3
<1>13. QED
  BY <1>4, <1>5, <1>6, <1>7, <1>8, <1>9, <1>10, <1>11, <1>12 DEF Registry!Step
(* The gate at work: it reads the usage of the task that asks, and keeps it *)
(* to the end; it cannot oops.                                              *)
LEMMA GateStepMoves ==
  ASSUME RegistryTypes, NEW t \in Tasks, apc[t] \in GateApcs, CallsMatch(t),
         Registry!Step(t), ~Answered(t)
  PROVE  /\ pc'[t] \in {"check_lock", "check_scan", "return"}
         /\ req'[t] = req[t] /\ mm' = mm
         /\ pc[t] = "check_usage" => usage'[t] = Registry!Bytes(total_vm[mm[t]])
         /\ pc[t] # "check_usage" => usage'[t] = usage[t]
<1>1. /\ pc[t] \in {"check_usage", "check_lock", "check_scan"}
      /\ pc[t] = "check_usage" => task[t] = t
      /\ t \in exists /\ mm[t] \in Mms
  BY DEF CallsMatch, GateApcs, Answered
<1>2. ~Registry!Oops(t)
  BY <1>1, RegistryAssumption DEF Registry!Oops, Registry!UsagePcs
<1>3. CASE Registry!CheckReadUsage(t)
  <2>1. pc[t] = "check_usage" /\ task[t] = t /\ task[t] # Freed
    BY <1>1, <1>3, RegistryAssumption DEF Registry!CheckReadUsage
  <2>2. usage'[t] = Registry!Bytes(total_vm[mm[t]])
    BY <1>3, <2>1
       DEF Registry!CheckReadUsage, Registry!MayReadUsage, RegistryTypes
  <2>3. pc'[t] = "check_lock" /\ req' = req /\ mm' = mm
    BY <1>3 DEF Registry!CheckReadUsage, Registry!Goto, Registry!taskVars, RegistryTypes
  <2>4. QED  BY <2>1, <2>2, <2>3
<1>4. CASE Registry!CheckScan(t)
  BY <1>4 DEF Registry!CheckScan, Registry!Finish, Registry!Goto, Registry!taskVars,
              RegistryTypes
<1>5. CASE Registry!LockMutex(t)
  <2>1. pc[t] = "check_lock"
    BY <1>1, <1>5, RegistryPoints DEF Registry!LockMutex
  <2>2. Registry!AfterLock[pc[t]] = "check_scan"
    BY <2>1 DEF Registry!AfterLock
  <2>3. QED  BY <1>5, <2>1, <2>2
             DEF Registry!LockMutex, Registry!Goto, Registry!taskVars, RegistryTypes
<1>6. QED
  BY <1>1, <1>2, <1>3, <1>4, <1>5
     DEF Registry!Step, Registry!Return, Registry!AddReadUsage, Registry!AddScan,
         Registry!AddAlloc, Registry!AddInsert, Registry!UpdateScan, Registry!RemoveScan,
         Registry!GetScan, Registry!GetCopy, Registry!GetPut

(* Nothing of the registry moves. *)
LEMMA RegistryUntouched ==
  ASSUME RegistryTypes, MutexInSection,
         UNCHANGED <<memory_list_mutex, exists, mm, callVars>>
  PROVE  /\ RegistryTypes' /\ MutexInSection'
         /\ \A u \in Tasks : SameCall(u)
         /\ exists' = exists /\ mm' = mm
  BY DEF RegistryTypes, MutexInSection, SameCall, callVars

-----------------------------------------------------------------------------
(* The allocator's own bookkeeping. *)

AllocTypes ==
  /\ apc \in [Tasks -> Apcs]
  /\ arg \in [Tasks -> 0..(SizeMod - 1)]
  /\ origbrk \in [Tasks -> BrkArgs \cup {0}]
  /\ checked \in [Tasks -> 0..(SizeMod - 1)]

SpaceTypes ==
  /\ total_vm \in [Mms -> 0..MaxVm]
  /\ brk \in [Mms -> BrkArgs \cup {0}]
  /\ heap \in [Mms -> 0..MaxVm]
  /\ mapped \in [Mms -> 0..MaxVm]
  /\ stack \in [Mms -> 0..MaxStack]

LEMMA TypeParts ==
  /\ TypeOK <=> AllocTypes /\ SpaceTypes /\ mmap_lock \in [Mms -> Tasks \cup {NoTask}]
  /\ TypeOK' <=> AllocTypes' /\ SpaceTypes' /\ mmap_lock' \in [Mms -> Tasks \cup {NoTask}]
  BY DEF TypeOK, AllocTypes, SpaceTypes

(* The allocator call of another task stays where it is. *)
SameAlloc(u) ==
  apc'[u] = apc[u] /\ arg'[u] = arg[u] /\ origbrk'[u] = origbrk[u]
    /\ checked'[u] = checked[u]

LEMMA GoMoves ==
  ASSUME AllocTypes, NEW t \in Tasks, NEW label \in Apcs, Go(t, label)
  PROVE  /\ apc' \in [Tasks -> Apcs] /\ apc'[t] = label
         /\ \A u \in Tasks \ {t} : apc'[u] = apc[u]
  BY DEF AllocTypes, Go

LEMMA LeaveMoves ==
  ASSUME AllocTypes, NEW t \in Tasks, Leave(t)
  PROVE  /\ AllocTypes' /\ apc'[t] = "none"
         /\ \A u \in Tasks \ {t} : SameAlloc(u)
<1>1. "none" \in Apcs /\ 0 \in 0..(SizeMod - 1)
  BY RegistryAssumption DEF Apcs
<1>2. QED  BY <1>1 DEF AllocTypes, Leave, Go, SameAlloc

LEMMA DropLockMoves ==
  ASSUME mmap_lock \in [Mms -> Tasks \cup {NoTask}], NEW t \in Tasks, mm[t] \in Mms,
         DropLock(t)
  PROVE  /\ mmap_lock' \in [Mms -> Tasks \cup {NoTask}]
         /\ mmap_lock'[mm[t]] = NoTask
         /\ \A n \in Mms \ {mm[t]} : mmap_lock'[n] = mmap_lock[n]
  BY DEF DropLock

LEMMA OthersStay ==
  ASSUME NEW t \in Tasks, \A u \in Tasks \ {t} : SameCall(u),
         \A u \in Tasks \ {t} : SameAlloc(u),
         exists' = exists, \A u \in Tasks \ {t} : mm'[u] = mm[u]
  PROVE  \A u \in Tasks \ {t} : SameTask(u)
  BY DEF SameCall, SameAlloc, SameTask

(* What a call that is none is. *)
LEMMA NothingToKeep ==
  ASSUME NEW t \in Tasks, apc'[t] = "none", pc'[t] = "idle"
  PROVE  CallsMatch(t)' /\ LocalsHold(t)'
  BY DEF CallsMatch, LocalsHold, GateApcs, HoldingApcs, BrkApcs

(* The holder of an mmap_lock. *)
LEMMA Holding ==
  ASSUME IInv, NEW t \in Tasks, apc[t] \in HoldingApcs
  PROVE  /\ mm[t] \in Mms /\ mmap_lock[mm[t]] = t /\ t \in exists
         /\ apc[t] # "brk_unmap" => heap[mm[t]] <= Pages(PAGE_ALIGN(brk[mm[t]]))
         /\ total_vm[mm[t]] = heap[mm[t]] + mapped[mm[t]] + stack[mm[t]]
         /\ apc[t] \notin GateApcs => pc[t] = "idle"
<1>1. CallsMatch(t) /\ LocalsHold(t)
  BY DEF IInv
<1>2. mm[t] \in Mms /\ mmap_lock[mm[t]] = t /\ t \in exists
  BY <1>1 DEF CallsMatch, LocalsHold, HoldingApcs
<1>3. MmHolds(mm[t])
  BY <1>2 DEF IInv
<1>4. QED  BY <1>1, <1>2, <1>3 DEF MmHolds, CallsMatch, HoldingApcs

(* brk() or mmap() drops the lock and returns, with the pages in order. *)
LEMMA LeaveStep ==
  ASSUME IInv, NEW t \in Tasks, apc[t] \in HoldingApcs, DropLock(t), Leave(t),
         RegistryTypes', MutexInSection', pc'[t] = "idle",
         \A u \in Tasks \ {t} : SameCall(u), exists' = exists, mm' = mm,
         SpaceTypes',
         \A n \in Mms \ {mm[t]} :
           /\ brk'[n] = brk[n] /\ total_vm'[n] = total_vm[n] /\ heap'[n] = heap[n]
           /\ mapped'[n] = mapped[n] /\ stack'[n] = stack[n],
         total_vm'[mm[t]] = heap'[mm[t]] + mapped'[mm[t]] + stack'[mm[t]],
         heap'[mm[t]] <= Pages(PAGE_ALIGN(brk'[mm[t]]))
  PROVE  IInv'
<1>1. AllocTypes /\ mmap_lock \in [Mms -> Tasks \cup {NoTask}]
  BY TypeParts DEF IInv
<1>2. AllocTypes' /\ apc'[t] = "none" /\ \A u \in Tasks \ {t} : SameAlloc(u)
  BY <1>1, LeaveMoves
<1>3. mm[t] \in Mms /\ mmap_lock[mm[t]] = t
  BY Holding
<1>4. /\ mmap_lock' \in [Mms -> Tasks \cup {NoTask}] /\ mmap_lock'[mm[t]] = NoTask
      /\ \A n \in Mms \ {mm[t]} : SameSpace(n)
  BY <1>1, <1>3, DropLockMoves DEF SameSpace
<1>5. \A u \in Tasks \ {t} : SameTask(u)
  BY <1>2, OthersStay
<1>6. CallsMatch(t)' /\ LocalsHold(t)'
  BY <1>2, NothingToKeep
<1>7. MmHolds(mm[t])'
  BY <1>4, RegistryAssumption DEF MmHolds
<1>8. /\ \A u \in Tasks : CallsMatch(u)' /\ LocalsHold(u)'
      /\ \A n \in Mms : MmHolds(n)'
  BY <1>3, <1>4, <1>5, <1>6, <1>7, OwnSpaceStep
<1>9. TypeOK'
  BY <1>2, <1>4, TypeParts
<1>10. QED  BY <1>8, <1>9 DEF IInv

-----------------------------------------------------------------------------
(* The steps that return: each drops the lock with the pages in order. *)

LEMMA InvParts ==
  ASSUME IInv, NEW t \in Tasks
  PROVE  /\ AllocTypes /\ SpaceTypes /\ mmap_lock \in [Mms -> Tasks \cup {NoTask}]
         /\ RegistryTypes /\ MutexInSection /\ CallsMatch(t) /\ LocalsHold(t)
  BY TypeParts DEF IInv

(* A call gives up with the address space as it found it. *)
LEMMA GivesUp ==
  ASSUME IInv, NEW t \in Tasks, apc[t] \in HoldingApcs \ (GateApcs \cup {"brk_unmap"}),
         DropLock(t), Leave(t), UNCHANGED <<gateVars, brk, heap, mapped, stack>>
  PROVE  IInv'
<1>1. /\ SpaceTypes /\ RegistryTypes /\ MutexInSection
      /\ apc[t] \in HoldingApcs /\ pc[t] = "idle"
      /\ total_vm[mm[t]] = heap[mm[t]] + mapped[mm[t]] + stack[mm[t]]
      /\ heap[mm[t]] <= Pages(PAGE_ALIGN(brk[mm[t]]))
  BY InvParts, Holding
<1>2. UNCHANGED <<memory_list_mutex, exists, mm, callVars, total_vm, brk, heap, mapped, stack>>
  BY DEF gateVars, registryVars
<1>3. /\ RegistryTypes' /\ MutexInSection' /\ \A u \in Tasks : SameCall(u)
      /\ exists' = exists /\ mm' = mm
  BY <1>1, <1>2, RegistryUntouched
<1>4. pc'[t] = "idle" /\ SpaceTypes'
  BY <1>1, <1>2, <1>3 DEF SameCall, SpaceTypes
<1>5. QED  BY <1>1, <1>2, <1>3, <1>4, LeaveStep

LEMMA BrkDeniedKeeps ==
  ASSUME IInv, NEW t \in Tasks, BrkDenied(t)
  PROVE  IInv'
<1>1. /\ apc[t] = "brk_gate" /\ Registry!Return(t) /\ DropLock(t) /\ Leave(t)
      /\ UNCHANGED <<brk, heap, mapped, stack>>
  BY DEF BrkDenied
<1>2. Registry!Step(t)
  BY <1>1 DEF Registry!Step
<1>3. /\ SpaceTypes /\ RegistryTypes /\ MutexInSection
      /\ apc[t] \in HoldingApcs
      /\ total_vm[mm[t]] = heap[mm[t]] + mapped[mm[t]] + stack[mm[t]]
      /\ heap[mm[t]] <= Pages(PAGE_ALIGN(brk[mm[t]]))
  <2>1. apc[t] \in HoldingApcs /\ apc[t] # "brk_unmap"
    BY <1>1 DEF HoldingApcs
  <2>2. QED  BY <2>1, InvParts, Holding
<1>4. pc'[t] = "idle" /\ mm' = mm /\ UNCHANGED total_vm
  BY <1>1, <1>3 DEF Registry!Return, Registry!Goto, Registry!taskVars, RegistryTypes
<1>5. /\ RegistryTypes' /\ MutexInSection' /\ \A u \in Tasks \ {t} : SameCall(u)
      /\ exists' = exists
  BY <1>2, <1>3, StepMoves
<1>6. SpaceTypes'
  BY <1>1, <1>3, <1>4 DEF SpaceTypes
<1>7. QED  BY <1>1, <1>3, <1>4, <1>5, <1>6, LeaveStep

LEMMA BrkSamePageKeeps ==
  ASSUME IInv, NEW t \in Tasks, BrkSamePage(t)
  PROVE  IInv'
<1>1. /\ apc[t] = "brk_apply" /\ PAGE_ALIGN(arg[t]) = PAGE_ALIGN(origbrk[t])
      /\ brk' = [brk EXCEPT ![mm[t]] = arg[t]] /\ DropLock(t) /\ Leave(t)
      /\ UNCHANGED <<gateVars, heap, mapped, stack>>
  BY DEF BrkSamePage
<1>2. apc[t] \in HoldingApcs \ (GateApcs \cup {"brk_unmap"}) /\ apc[t] \in BrkApcs
  BY <1>1 DEF HoldingApcs, GateApcs, BrkApcs
<1>3. /\ SpaceTypes /\ RegistryTypes /\ MutexInSection /\ LocalsHold(t)
      /\ apc[t] \in HoldingApcs /\ pc[t] = "idle" /\ mm[t] \in Mms
      /\ total_vm[mm[t]] = heap[mm[t]] + mapped[mm[t]] + stack[mm[t]]
      /\ heap[mm[t]] <= Pages(PAGE_ALIGN(brk[mm[t]]))
  BY <1>2, InvParts, Holding
<1>4. arg[t] \in BrkArgs /\ origbrk[t] = brk[mm[t]]
  BY <1>1, <1>2, <1>3 DEF LocalsHold
<1>5. UNCHANGED <<memory_list_mutex, exists, mm, callVars, total_vm, heap, mapped, stack>>
  BY <1>1 DEF gateVars, registryVars
<1>6. /\ RegistryTypes' /\ MutexInSection' /\ \A u \in Tasks : SameCall(u)
      /\ exists' = exists /\ mm' = mm
  BY <1>3, <1>5, RegistryUntouched
<1>7. /\ brk' \in [Mms -> BrkArgs \cup {0}] /\ brk'[mm[t]] = arg[t]
      /\ \A n \in Mms \ {mm[t]} : brk'[n] = brk[n]
  BY <1>1, <1>3, <1>4 DEF SpaceTypes
<1>8. pc'[t] = "idle" /\ SpaceTypes'
  BY <1>3, <1>5, <1>6, <1>7 DEF SameCall, SpaceTypes
<1>9. heap'[mm[t]] <= Pages(PAGE_ALIGN(brk'[mm[t]]))
  BY <1>1, <1>3, <1>4, <1>5, <1>7
<1>10. QED  BY <1>1, <1>3, <1>5, <1>6, <1>7, <1>8, <1>9, LeaveStep

LEMMA BrkUnmapFailsKeeps ==
  ASSUME IInv, NEW t \in Tasks, BrkUnmapFails(t)
  PROVE  IInv'
<1>1. /\ apc[t] = "brk_unmap" /\ brk' = [brk EXCEPT ![mm[t]] = origbrk[t]]
      /\ DropLock(t) /\ Leave(t) /\ UNCHANGED <<gateVars, heap, mapped, stack>>
  BY DEF BrkUnmapFails
<1>2. apc[t] \in HoldingApcs \ GateApcs
  BY <1>1 DEF HoldingApcs, GateApcs
<1>3. /\ SpaceTypes /\ RegistryTypes /\ MutexInSection /\ LocalsHold(t) /\ AllocTypes
      /\ apc[t] \in HoldingApcs /\ pc[t] = "idle" /\ mm[t] \in Mms
      /\ total_vm[mm[t]] = heap[mm[t]] + mapped[mm[t]] + stack[mm[t]]
  BY <1>2, InvParts, Holding
<1>4. heap[mm[t]] <= Pages(PAGE_ALIGN(origbrk[t])) /\ origbrk[t] \in BrkArgs \cup {0}
  BY <1>1, <1>3 DEF LocalsHold, AllocTypes
<1>5. UNCHANGED <<memory_list_mutex, exists, mm, callVars, total_vm, heap, mapped, stack>>
  BY <1>1 DEF gateVars, registryVars
<1>6. /\ RegistryTypes' /\ MutexInSection' /\ \A u \in Tasks : SameCall(u)
      /\ exists' = exists /\ mm' = mm
  BY <1>3, <1>5, RegistryUntouched
<1>7. /\ brk' \in [Mms -> BrkArgs \cup {0}] /\ brk'[mm[t]] = origbrk[t]
      /\ \A n \in Mms \ {mm[t]} : brk'[n] = brk[n]
  BY <1>1, <1>3, <1>4 DEF SpaceTypes
<1>8. pc'[t] = "idle" /\ SpaceTypes'
  BY <1>3, <1>5, <1>6, <1>7 DEF SameCall, SpaceTypes
<1>9. heap'[mm[t]] <= Pages(PAGE_ALIGN(brk'[mm[t]]))
  BY <1>4, <1>5, <1>7
<1>10. QED  BY <1>1, <1>3, <1>5, <1>6, <1>7, <1>8, <1>9, LeaveStep

LEMMA AccountMoves ==
  ASSUME SpaceTypes, NEW t \in Tasks, mm[t] \in Mms, NEW gained \in Nat, NEW lost \in Nat,
         Account(t, gained, lost), total_vm[mm[t]] + gained - lost \in 0..MaxVm
  PROVE  /\ total_vm' \in [Mms -> 0..MaxVm]
         /\ total_vm'[mm[t]] = total_vm[mm[t]] + gained - lost
         /\ \A n \in Mms \ {mm[t]} : total_vm'[n] = total_vm[n]
         /\ UNCHANGED <<memory_list_mutex, exists, mm, callVars>>
<1>1. total_vm \in [Mms -> 0..MaxVm]
  BY DEF SpaceTypes
<1>2. total_vm' = [total_vm EXCEPT ![mm[t]] = (total_vm[mm[t]] + gained) - lost]
  BY <1>1 DEF Account
<1>3. QED  BY <1>1, <1>2 DEF Account, registryVars

(* The counts of one address space, in type. *)
LEMMA CountsOf ==
  ASSUME SpaceTypes, NEW m \in Mms
  PROVE  /\ total_vm[m] \in 0..MaxVm /\ heap[m] \in 0..MaxVm /\ mapped[m] \in 0..MaxVm
         /\ stack[m] \in 0..MaxStack /\ brk[m] \in BrkArgs \cup {0}
         /\ MaxVm \in Nat /\ MaxStack \in Nat /\ MaxStack <= MaxVm
  BY RegistryAssumption, BrkAssumption DEF SpaceTypes

LEMMA BrkUnmapKeeps ==
  ASSUME IInv, NEW t \in Tasks, NEW pages \in 1..MaxVm, BrkUnmap(t, pages)
  PROVE  IInv'
<1>1. /\ apc[t] = "brk_unmap" /\ pages <= heap[mm[t]]
      /\ heap[mm[t]] - pages <= Pages(PAGE_ALIGN(arg[t]))
      /\ heap' = [heap EXCEPT ![mm[t]] = heap[mm[t]] - pages]
      /\ Account(t, 0, pages) /\ DropLock(t) /\ Leave(t)
      /\ UNCHANGED <<brk, mapped, stack>>
  BY DEF BrkUnmap
<1>2. apc[t] \in HoldingApcs \ GateApcs
  BY <1>1 DEF HoldingApcs, GateApcs
<1>3. /\ SpaceTypes /\ RegistryTypes /\ MutexInSection /\ LocalsHold(t)
      /\ apc[t] \in HoldingApcs /\ pc[t] = "idle" /\ mm[t] \in Mms
      /\ total_vm[mm[t]] = heap[mm[t]] + mapped[mm[t]] + stack[mm[t]]
  BY <1>2, InvParts, Holding
<1>4. brk[mm[t]] = arg[t]
  BY <1>1, <1>3 DEF LocalsHold
<1>5. /\ total_vm[mm[t]] \in 0..MaxVm /\ heap[mm[t]] \in 0..MaxVm
      /\ mapped[mm[t]] \in 0..MaxVm /\ stack[mm[t]] \in Nat /\ MaxVm \in Nat
      /\ pages \in Nat
  BY <1>3, CountsOf
<1>6. total_vm[mm[t]] + 0 - pages \in 0..MaxVm /\ heap[mm[t]] - pages \in 0..MaxVm
  BY <1>1, <1>3, <1>5
<1>7. /\ total_vm' \in [Mms -> 0..MaxVm]
      /\ total_vm'[mm[t]] = total_vm[mm[t]] + 0 - pages
      /\ \A n \in Mms \ {mm[t]} : total_vm'[n] = total_vm[n]
      /\ UNCHANGED <<memory_list_mutex, exists, mm, callVars>>
  BY <1>1, <1>3, <1>5, <1>6, AccountMoves
<1>8. /\ heap' \in [Mms -> 0..MaxVm] /\ heap'[mm[t]] = heap[mm[t]] - pages
      /\ \A n \in Mms \ {mm[t]} : heap'[n] = heap[n]
  BY <1>1, <1>3, <1>6 DEF SpaceTypes
<1>9. /\ RegistryTypes' /\ MutexInSection' /\ \A u \in Tasks : SameCall(u)
      /\ exists' = exists /\ mm' = mm
  BY <1>3, <1>7, RegistryUntouched
<1>10. pc'[t] = "idle" /\ SpaceTypes'
  BY <1>1, <1>3, <1>7, <1>8, <1>9 DEF SameCall, SpaceTypes
<1>11. total_vm'[mm[t]] = heap'[mm[t]] + mapped'[mm[t]] + stack'[mm[t]]
  BY <1>1, <1>3, <1>5, <1>7, <1>8
<1>12. heap'[mm[t]] <= Pages(PAGE_ALIGN(brk'[mm[t]]))
  BY <1>1, <1>4, <1>8
<1>13. QED  BY <1>1, <1>3, <1>7, <1>8, <1>9, <1>10, <1>11, <1>12, LeaveStep

(* What brk() is about to add, and why the gate was asked for just that. *)
LEMMA GrowthIsWhatWasAsked ==
  ASSUME IInv, NEW t \in Tasks, BrkGrow(t)
  PROVE  /\ Pages(PAGE_ALIGN(arg[t])) - Pages(PAGE_ALIGN(origbrk[t])) \in Nat
         /\ total_vm'[mm[t]] =
              total_vm[mm[t]] + (Pages(PAGE_ALIGN(arg[t])) - Pages(PAGE_ALIGN(origbrk[t])))
         /\ total_vm'[mm[t]] <= MaxVm
         /\ total_vm'[mm[t]] * PageSize = checked[t]
<1> DEFINE pages == Pages(PAGE_ALIGN(arg[t])) - Pages(PAGE_ALIGN(origbrk[t]))
<1>1. /\ apc[t] = "brk_apply" /\ PAGE_ALIGN(arg[t]) > PAGE_ALIGN(origbrk[t])
      /\ total_vm[mm[t]] + pages <= MaxVm /\ Account(t, pages, 0)
  BY DEF BrkGrow, MayExpand
<1>2. apc[t] \in HoldingApcs /\ apc[t] \in BrkApcs
  BY <1>1 DEF HoldingApcs, BrkApcs
<1>3. /\ SpaceTypes /\ LocalsHold(t) /\ AllocTypes /\ mm[t] \in Mms
  BY <1>2, InvParts, Holding
<1>4. /\ arg[t] \in BrkArgs /\ origbrk[t] \in BrkArgs \cup {0}
      /\ checked[t] = (Registry!Bytes(total_vm[mm[t]]) + BrkRequest(origbrk[t], arg[t]))
                         % SizeMod
  BY <1>1, <1>2, <1>3 DEF LocalsHold, AllocTypes
<1>5. total_vm[mm[t]] \in Nat /\ MaxVm \in Nat
  BY <1>3, CountsOf
<1>6. /\ pages \in Nat
      /\ (Registry!Bytes(total_vm[mm[t]]) + BrkRequest(origbrk[t], arg[t])) % SizeMod =
           (total_vm[mm[t]] + pages) * PageSize
  BY <1>1, <1>4, <1>5, RequestIsGrowth
<1> HIDE DEF pages
<1>7. total_vm[mm[t]] + pages - 0 \in 0..MaxVm /\ 0 \in Nat
  BY <1>1, <1>5, <1>6
<1>8. total_vm'[mm[t]] = total_vm[mm[t]] + pages - 0
  BY <1>1, <1>3, <1>6, <1>7, AccountMoves
<1>9. total_vm'[mm[t]] = total_vm[mm[t]] + pages
  BY <1>5, <1>6, <1>8
<1>10. QED  BY <1>1, <1>4, <1>6, <1>9 DEF pages

LEMMA BrkGrowKeeps ==
  ASSUME IInv, NEW t \in Tasks, BrkGrow(t)
  PROVE  IInv'
<1> DEFINE pages == Pages(PAGE_ALIGN(arg[t])) - Pages(PAGE_ALIGN(origbrk[t]))
<1>1. /\ apc[t] = "brk_apply"
      /\ heap' = [heap EXCEPT ![mm[t]] = heap[mm[t]] + pages]
      /\ Account(t, pages, 0) /\ brk' = [brk EXCEPT ![mm[t]] = arg[t]]
      /\ DropLock(t) /\ Leave(t)
      /\ UNCHANGED <<mapped, stack>>
  BY DEF BrkGrow
<1>2. apc[t] \in HoldingApcs \ (GateApcs \cup {"brk_unmap"}) /\ apc[t] \in BrkApcs
  BY <1>1 DEF HoldingApcs, GateApcs, BrkApcs
<1>3. /\ SpaceTypes /\ RegistryTypes /\ MutexInSection /\ LocalsHold(t) /\ AllocTypes
      /\ apc[t] \in HoldingApcs /\ pc[t] = "idle" /\ mm[t] \in Mms
      /\ total_vm[mm[t]] = heap[mm[t]] + mapped[mm[t]] + stack[mm[t]]
      /\ heap[mm[t]] <= Pages(PAGE_ALIGN(brk[mm[t]]))
  BY <1>2, InvParts, Holding
<1>4. /\ arg[t] \in BrkArgs /\ origbrk[t] = brk[mm[t]]
      /\ origbrk[t] \in BrkArgs \cup {0}
  BY <1>1, <1>2, <1>3 DEF LocalsHold, AllocTypes
<1>5. /\ total_vm[mm[t]] \in 0..MaxVm /\ heap[mm[t]] \in 0..MaxVm
      /\ mapped[mm[t]] \in 0..MaxVm /\ stack[mm[t]] \in Nat /\ MaxVm \in Nat
  BY <1>3, CountsOf
<1>6. pages \in Nat /\ total_vm'[mm[t]] = total_vm[mm[t]] + pages
        /\ total_vm'[mm[t]] <= MaxVm
  BY GrowthIsWhatWasAsked
<1>7. heap[mm[t]] + pages <= Pages(PAGE_ALIGN(arg[t]))
  <2>1. Pages(PAGE_ALIGN(arg[t])) \in Nat /\ Pages(PAGE_ALIGN(origbrk[t])) \in Nat
    BY <1>4, BreakPages
  <2>2. heap[mm[t]] <= Pages(PAGE_ALIGN(origbrk[t]))
    BY <1>3, <1>4
  <2>3. QED  BY <1>5, <2>1, <2>2
<1> HIDE DEF pages
<1>8. total_vm[mm[t]] + pages - 0 \in 0..MaxVm /\ heap[mm[t]] + pages \in 0..MaxVm
        /\ 0 \in Nat
  BY <1>3, <1>5, <1>6
<1>9. /\ total_vm' \in [Mms -> 0..MaxVm]
      /\ \A n \in Mms \ {mm[t]} : total_vm'[n] = total_vm[n]
      /\ UNCHANGED <<memory_list_mutex, exists, mm, callVars>>
  BY <1>1, <1>3, <1>6, <1>8, AccountMoves
<1>10. /\ heap' \in [Mms -> 0..MaxVm] /\ heap'[mm[t]] = heap[mm[t]] + pages
       /\ \A n \in Mms \ {mm[t]} : heap'[n] = heap[n]
  BY <1>1, <1>3, <1>8 DEF SpaceTypes
<1>11. /\ brk' \in [Mms -> BrkArgs \cup {0}] /\ brk'[mm[t]] = arg[t]
       /\ \A n \in Mms \ {mm[t]} : brk'[n] = brk[n]
  BY <1>1, <1>3, <1>4 DEF SpaceTypes
<1>12. /\ RegistryTypes' /\ MutexInSection' /\ \A u \in Tasks : SameCall(u)
       /\ exists' = exists /\ mm' = mm
  BY <1>3, <1>9, RegistryUntouched
<1>13. pc'[t] = "idle" /\ SpaceTypes'
  BY <1>1, <1>3, <1>9, <1>10, <1>11, <1>12 DEF SameCall, SpaceTypes
<1>14. total_vm'[mm[t]] = heap'[mm[t]] + mapped'[mm[t]] + stack'[mm[t]]
  BY <1>1, <1>3, <1>5, <1>6, <1>10
<1>15. heap'[mm[t]] <= Pages(PAGE_ALIGN(brk'[mm[t]]))
  BY <1>7, <1>10, <1>11
<1>16. QED
  BY <1>1, <1>3, <1>9, <1>10, <1>11, <1>12, <1>13, <1>14, <1>15, LeaveStep

LEMMA MmapAccountKeeps ==
  ASSUME IInv, NEW t \in Tasks, MmapAccount(t)
  PROVE  IInv'
<1> DEFINE pages == Pages(PAGE_ALIGN(arg[t]))
<1>1. /\ apc[t] = "mmap_account"
      /\ mapped' = [mapped EXCEPT ![mm[t]] = mapped[mm[t]] + pages]
      /\ Account(t, pages, 0) /\ DropLock(t) /\ Leave(t)
      /\ UNCHANGED <<brk, heap, stack>>
  BY DEF MmapAccount
<1>2. apc[t] \in HoldingApcs \ (GateApcs \cup {"brk_unmap"})
  BY <1>1 DEF HoldingApcs, GateApcs
<1>3. /\ SpaceTypes /\ RegistryTypes /\ MutexInSection /\ LocalsHold(t) /\ AllocTypes
      /\ apc[t] \in HoldingApcs /\ pc[t] = "idle" /\ mm[t] \in Mms
      /\ total_vm[mm[t]] = heap[mm[t]] + mapped[mm[t]] + stack[mm[t]]
      /\ heap[mm[t]] <= Pages(PAGE_ALIGN(brk[mm[t]]))
  BY <1>2, InvParts, Holding
<1>4. pages \in Nat /\ total_vm[mm[t]] + pages <= MaxVm
  <2>1. arg[t] \in Nat
    BY <1>3, RegistryAssumption DEF AllocTypes
  <2>2. QED  BY <1>1, <1>3, <2>1, MappingPages DEF LocalsHold
<1> HIDE DEF pages
<1>5. /\ total_vm[mm[t]] \in 0..MaxVm /\ heap[mm[t]] \in 0..MaxVm
      /\ mapped[mm[t]] \in 0..MaxVm /\ stack[mm[t]] \in Nat /\ MaxVm \in Nat
  BY <1>3, CountsOf
<1>6. total_vm[mm[t]] + pages - 0 \in 0..MaxVm /\ mapped[mm[t]] + pages \in 0..MaxVm
        /\ 0 \in Nat
  BY <1>3, <1>4, <1>5
<1>7. /\ total_vm' \in [Mms -> 0..MaxVm]
      /\ total_vm'[mm[t]] = total_vm[mm[t]] + pages - 0
      /\ \A n \in Mms \ {mm[t]} : total_vm'[n] = total_vm[n]
      /\ UNCHANGED <<memory_list_mutex, exists, mm, callVars>>
  BY <1>1, <1>3, <1>4, <1>6, AccountMoves
<1>8. /\ mapped' \in [Mms -> 0..MaxVm] /\ mapped'[mm[t]] = mapped[mm[t]] + pages
      /\ \A n \in Mms \ {mm[t]} : mapped'[n] = mapped[n]
  BY <1>1, <1>3, <1>6 DEF SpaceTypes
<1>9. /\ RegistryTypes' /\ MutexInSection' /\ \A u \in Tasks : SameCall(u)
      /\ exists' = exists /\ mm' = mm
  BY <1>3, <1>7, RegistryUntouched
<1>10. pc'[t] = "idle" /\ SpaceTypes'
  BY <1>1, <1>3, <1>7, <1>8, <1>9 DEF SameCall, SpaceTypes
<1>11. total_vm'[mm[t]] = heap'[mm[t]] + mapped'[mm[t]] + stack'[mm[t]]
  BY <1>1, <1>3, <1>4, <1>5, <1>7, <1>8
<1>12. heap'[mm[t]] <= Pages(PAGE_ALIGN(brk'[mm[t]]))
  BY <1>1, <1>3
<1>13. QED  BY <1>1, <1>3, <1>7, <1>8, <1>9, <1>10, <1>11, <1>12, LeaveStep

-----------------------------------------------------------------------------
(* The steps that change a free address space. *)

LEMMA FreeSpace ==
  ASSUME IInv, NEW t \in Tasks, LockFree(t)
  PROVE  /\ SpaceTypes /\ RegistryTypes /\ MutexInSection /\ CallsMatch(t) /\ LocalsHold(t)
         /\ mm[t] \in Mms /\ mmap_lock[mm[t]] \notin Tasks
         /\ apc[t] = "none" /\ pc[t] = "idle"
         /\ total_vm[mm[t]] = heap[mm[t]] + mapped[mm[t]] + stack[mm[t]]
         /\ heap[mm[t]] <= Pages(PAGE_ALIGN(brk[mm[t]]))
         /\ total_vm[mm[t]] \in 0..MaxVm /\ heap[mm[t]] \in 0..MaxVm
         /\ mapped[mm[t]] \in 0..MaxVm /\ stack[mm[t]] \in 0..MaxStack
         /\ MaxVm \in Nat /\ MaxStack \in Nat /\ MaxStack <= MaxVm
<1>1. /\ SpaceTypes /\ RegistryTypes /\ MutexInSection /\ CallsMatch(t) /\ LocalsHold(t)
  BY InvParts
<1>2. /\ apc[t] = "none" /\ pc[t] = "idle" /\ mm[t] # NoMM
      /\ mmap_lock[mm[t]] \notin Tasks
  BY RegistryAssumption
     DEF LockFree, UserMode, Allocating, Registry!Idle, Registry!Running
<1>3. mm[t] \in Mms
  BY <1>1, <1>2 DEF RegistryTypes
<1>4. MmHolds(mm[t])
  BY <1>3 DEF IInv
<1>5. QED  BY <1>1, <1>2, <1>3, <1>4, CountsOf DEF MmHolds

LEMMA LockFreeStep ==
  ASSUME IInv, NEW t \in Tasks, LockFree(t), UNCHANGED <<mmap_lock, brk, allocVars>>,
         UNCHANGED <<memory_list_mutex, exists, mm, callVars>>,
         SpaceTypes',
         \A n \in Mms \ {mm[t]} :
           /\ total_vm'[n] = total_vm[n] /\ heap'[n] = heap[n]
           /\ mapped'[n] = mapped[n] /\ stack'[n] = stack[n],
         total_vm'[mm[t]] = heap'[mm[t]] + mapped'[mm[t]] + stack'[mm[t]],
         heap'[mm[t]] <= Pages(PAGE_ALIGN(brk[mm[t]]))
  PROVE  IInv'
<1>1. /\ RegistryTypes /\ MutexInSection /\ CallsMatch(t) /\ LocalsHold(t)
      /\ mm[t] \in Mms /\ mmap_lock[mm[t]] \notin Tasks
      /\ apc[t] = "none" /\ pc[t] = "idle"
  BY FreeSpace
<1>2. AllocTypes /\ mmap_lock \in [Mms -> Tasks \cup {NoTask}]
  BY InvParts
<1>3. /\ RegistryTypes' /\ MutexInSection' /\ \A u \in Tasks : SameCall(u)
      /\ exists' = exists /\ mm' = mm
  BY <1>1, RegistryUntouched
<1>4. AllocTypes' /\ \A u \in Tasks : SameAlloc(u)
  BY <1>2 DEF AllocTypes, SameAlloc, allocVars
<1>5. \A u \in Tasks \ {t} : SameTask(u)
  BY <1>3, <1>4, OthersStay
<1>6. CallsMatch(t)' /\ LocalsHold(t)'
  BY <1>1, <1>3, <1>4, NothingToKeep DEF SameCall, SameAlloc
<1>7. \A n \in Mms \ {mm[t]} : SameSpace(n)
  BY DEF SameSpace
<1>8. MmHolds(mm[t])'
  BY <1>1, <1>3 DEF MmHolds
<1>9. apc[t] \notin HoldingApcs
  BY <1>1 DEF HoldingApcs
<1>10. /\ \A u \in Tasks : CallsMatch(u)' /\ LocalsHold(u)'
       /\ \A n \in Mms : MmHolds(n)'
  BY <1>1, <1>5, <1>6, <1>7, <1>8, <1>9, OwnSpaceStep
<1>11. TypeOK'
  BY <1>2, <1>4, TypeParts
<1>12. QED  BY <1>3, <1>10, <1>11 DEF IInv

LEMMA munmapKeeps ==
  ASSUME IInv, NEW t \in Tasks, NEW pages \in 1..MaxVm, munmap(t, pages)
  PROVE  IInv'
<1>1. /\ LockFree(t) /\ Account(t, 0, pages) /\ UNCHANGED <<mmap_lock, brk, allocVars>>
  BY DEF munmap
<1>2. /\ SpaceTypes /\ mm[t] \in Mms
      /\ total_vm[mm[t]] = heap[mm[t]] + mapped[mm[t]] + stack[mm[t]]
      /\ heap[mm[t]] <= Pages(PAGE_ALIGN(brk[mm[t]]))
      /\ total_vm[mm[t]] \in 0..MaxVm /\ heap[mm[t]] \in 0..MaxVm
      /\ mapped[mm[t]] \in 0..MaxVm /\ stack[mm[t]] \in 0..MaxStack
      /\ MaxVm \in Nat /\ MaxStack \in Nat /\ pages \in Nat /\ 0 \in Nat
  BY <1>1, FreeSpace
<1>3. pages <= heap[mm[t]] \/ pages <= mapped[mm[t]] \/ pages <= stack[mm[t]]
  BY DEF munmap
<1>4. total_vm[mm[t]] + 0 - pages \in 0..MaxVm
  BY <1>2, <1>3
<1>5. /\ total_vm' \in [Mms -> 0..MaxVm]
      /\ total_vm'[mm[t]] = total_vm[mm[t]] + 0 - pages
      /\ \A n \in Mms \ {mm[t]} : total_vm'[n] = total_vm[n]
      /\ UNCHANGED <<memory_list_mutex, exists, mm, callVars>>
  BY <1>1, <1>2, <1>4, AccountMoves
<1>6. CASE /\ pages <= heap[mm[t]]
           /\ heap' = [heap EXCEPT ![mm[t]] = heap[mm[t]] - pages]
           /\ UNCHANGED <<mapped, stack>>
  <2>1. heap[mm[t]] - pages \in 0..MaxVm
    BY <1>2, <1>6
  <2>2. /\ heap' \in [Mms -> 0..MaxVm] /\ heap'[mm[t]] = heap[mm[t]] - pages
        /\ \A n \in Mms \ {mm[t]} : heap'[n] = heap[n]
    BY <1>2, <1>6, <2>1 DEF SpaceTypes
  <2>3. SpaceTypes'
    BY <1>1, <1>2, <1>5, <1>6, <2>2 DEF SpaceTypes
  <2>4. total_vm'[mm[t]] = heap'[mm[t]] + mapped'[mm[t]] + stack'[mm[t]]
    BY <1>2, <1>5, <1>6, <2>2
  <2>5. heap'[mm[t]] <= Pages(PAGE_ALIGN(brk[mm[t]]))
    <3>1. Pages(PAGE_ALIGN(brk[mm[t]])) \in Nat
      BY <1>2, CountsOf, BreakPages
    <3>2. QED  BY <1>2, <2>2, <3>1
  <2>6. QED  BY <1>1, <1>5, <1>6, <2>2, <2>3, <2>4, <2>5, LockFreeStep
<1>7. CASE /\ pages <= mapped[mm[t]]
           /\ mapped' = [mapped EXCEPT ![mm[t]] = mapped[mm[t]] - pages]
           /\ UNCHANGED <<heap, stack>>
  <2>1. mapped[mm[t]] - pages \in 0..MaxVm
    BY <1>2, <1>7
  <2>2. /\ mapped' \in [Mms -> 0..MaxVm] /\ mapped'[mm[t]] = mapped[mm[t]] - pages
        /\ \A n \in Mms \ {mm[t]} : mapped'[n] = mapped[n]
    BY <1>2, <1>7, <2>1 DEF SpaceTypes
  <2>3. SpaceTypes'
    BY <1>1, <1>2, <1>5, <1>7, <2>2 DEF SpaceTypes
  <2>4. total_vm'[mm[t]] = heap'[mm[t]] + mapped'[mm[t]] + stack'[mm[t]]
    BY <1>2, <1>5, <1>7, <2>2
  <2>5. QED  BY <1>1, <1>2, <1>5, <1>7, <2>2, <2>3, <2>4, LockFreeStep
<1>8. CASE /\ pages <= stack[mm[t]]
           /\ stack' = [stack EXCEPT ![mm[t]] = stack[mm[t]] - pages]
           /\ UNCHANGED <<heap, mapped>>
  <2>1. stack[mm[t]] - pages \in 0..MaxStack
    BY <1>2, <1>8
  <2>2. /\ stack' \in [Mms -> 0..MaxStack] /\ stack'[mm[t]] = stack[mm[t]] - pages
        /\ \A n \in Mms \ {mm[t]} : stack'[n] = stack[n]
    BY <1>2, <1>8, <2>1 DEF SpaceTypes
  <2>3. SpaceTypes'
    BY <1>1, <1>2, <1>5, <1>8, <2>2 DEF SpaceTypes
  <2>4. total_vm'[mm[t]] = heap'[mm[t]] + mapped'[mm[t]] + stack'[mm[t]]
    BY <1>2, <1>5, <1>8, <2>2
  <2>5. QED  BY <1>1, <1>2, <1>5, <1>8, <2>2, <2>3, <2>4, LockFreeStep
<1>9. QED  BY <1>6, <1>7, <1>8 DEF munmap

LEMMA matus_tamallocKeeps ==
  ASSUME IInv, NEW t \in Tasks, NEW size \in Nat, matus_tamalloc(t, size)
  PROVE  IInv'
<1> DEFINE pages == Pages(PAGE_ALIGN(size))
<1>1. /\ LockFree(t) /\ Account(t, pages, 0) /\ UNCHANGED <<mmap_lock, brk, allocVars>>
      /\ total_vm[mm[t]] + pages <= MaxVm
      /\ mapped' = [mapped EXCEPT ![mm[t]] = mapped[mm[t]] + pages]
      /\ UNCHANGED <<heap, stack>>
  BY DEF matus_tamalloc, MayExpand
<1>2. /\ SpaceTypes /\ mm[t] \in Mms
      /\ total_vm[mm[t]] = heap[mm[t]] + mapped[mm[t]] + stack[mm[t]]
      /\ heap[mm[t]] <= Pages(PAGE_ALIGN(brk[mm[t]]))
      /\ total_vm[mm[t]] \in 0..MaxVm /\ heap[mm[t]] \in 0..MaxVm
      /\ mapped[mm[t]] \in 0..MaxVm /\ stack[mm[t]] \in 0..MaxStack
      /\ MaxVm \in Nat /\ MaxStack \in Nat /\ 0 \in Nat
  BY <1>1, FreeSpace
<1>3. pages \in Nat
  BY MappingPages
<1> HIDE DEF pages
<1>4. total_vm[mm[t]] + pages - 0 \in 0..MaxVm /\ mapped[mm[t]] + pages \in 0..MaxVm
  BY <1>1, <1>2, <1>3
<1>5. /\ total_vm' \in [Mms -> 0..MaxVm]
      /\ total_vm'[mm[t]] = total_vm[mm[t]] + pages - 0
      /\ \A n \in Mms \ {mm[t]} : total_vm'[n] = total_vm[n]
      /\ UNCHANGED <<memory_list_mutex, exists, mm, callVars>>
  BY <1>1, <1>2, <1>3, <1>4, AccountMoves
<1>6. /\ mapped' \in [Mms -> 0..MaxVm] /\ mapped'[mm[t]] = mapped[mm[t]] + pages
      /\ \A n \in Mms \ {mm[t]} : mapped'[n] = mapped[n]
  BY <1>1, <1>2, <1>4 DEF SpaceTypes
<1>7. SpaceTypes'
  BY <1>1, <1>2, <1>5, <1>6 DEF SpaceTypes
<1>8. total_vm'[mm[t]] = heap'[mm[t]] + mapped'[mm[t]] + stack'[mm[t]]
  BY <1>1, <1>2, <1>3, <1>5, <1>6
<1>9. QED  BY <1>1, <1>2, <1>5, <1>6, <1>7, <1>8, LockFreeStep

LEMMA expand_stackKeeps ==
  ASSUME IInv, NEW t \in Tasks, expand_stack(t)
  PROVE  IInv'
<1>1. /\ LockFree(t) /\ Account(t, 1, 0) /\ UNCHANGED <<mmap_lock, brk, allocVars>>
      /\ stack[mm[t]] \in 1..(MaxStack - 1) /\ total_vm[mm[t]] + 1 <= MaxVm
      /\ stack' = [stack EXCEPT ![mm[t]] = stack[mm[t]] + 1]
      /\ UNCHANGED <<heap, mapped>>
  BY DEF expand_stack, MayExpand
<1>2. /\ SpaceTypes /\ mm[t] \in Mms
      /\ total_vm[mm[t]] = heap[mm[t]] + mapped[mm[t]] + stack[mm[t]]
      /\ heap[mm[t]] <= Pages(PAGE_ALIGN(brk[mm[t]]))
      /\ total_vm[mm[t]] \in 0..MaxVm /\ heap[mm[t]] \in 0..MaxVm
      /\ mapped[mm[t]] \in 0..MaxVm /\ stack[mm[t]] \in 0..MaxStack
      /\ MaxVm \in Nat /\ MaxStack \in Nat /\ 0 \in Nat /\ 1 \in Nat
  BY <1>1, FreeSpace
<1>3. total_vm[mm[t]] + 1 - 0 \in 0..MaxVm /\ stack[mm[t]] + 1 \in 0..MaxStack
  BY <1>1, <1>2
<1>4. /\ total_vm' \in [Mms -> 0..MaxVm]
      /\ total_vm'[mm[t]] = total_vm[mm[t]] + 1 - 0
      /\ \A n \in Mms \ {mm[t]} : total_vm'[n] = total_vm[n]
      /\ UNCHANGED <<memory_list_mutex, exists, mm, callVars>>
  BY <1>1, <1>2, <1>3, AccountMoves
<1>5. /\ stack' \in [Mms -> 0..MaxStack] /\ stack'[mm[t]] = stack[mm[t]] + 1
      /\ \A n \in Mms \ {mm[t]} : stack'[n] = stack[n]
  BY <1>1, <1>2, <1>3 DEF SpaceTypes
<1>6. SpaceTypes'
  BY <1>1, <1>2, <1>4, <1>5 DEF SpaceTypes
<1>7. total_vm'[mm[t]] = heap'[mm[t]] + mapped'[mm[t]] + stack'[mm[t]]
  BY <1>1, <1>2, <1>4, <1>5
<1>8. QED  BY <1>1, <1>2, <1>4, <1>5, <1>6, <1>7, LockFreeStep

-----------------------------------------------------------------------------
(* The steps under the lock, and those that take it. *)

LEMMA BrkShrinkKeeps ==
  ASSUME IInv, NEW t \in Tasks, BrkShrink(t)
  PROVE  IInv'
<1>1. /\ apc[t] = "brk_apply" /\ brk' = [brk EXCEPT ![mm[t]] = arg[t]]
      /\ Go(t, "brk_unmap")
      /\ UNCHANGED <<gateVars, mmap_lock, heap, mapped, stack, arg, origbrk, checked>>
  BY DEF BrkShrink
<1>2. apc[t] \in HoldingApcs \ (GateApcs \cup {"brk_unmap"}) /\ apc[t] \in BrkApcs
  BY <1>1 DEF HoldingApcs, GateApcs, BrkApcs
<1>3. /\ SpaceTypes /\ RegistryTypes /\ MutexInSection /\ LocalsHold(t) /\ AllocTypes
      /\ mmap_lock \in [Mms -> Tasks \cup {NoTask}]
      /\ pc[t] = "idle" /\ mm[t] \in Mms /\ mmap_lock[mm[t]] = t /\ t \in exists
      /\ total_vm[mm[t]] = heap[mm[t]] + mapped[mm[t]] + stack[mm[t]]
      /\ heap[mm[t]] <= Pages(PAGE_ALIGN(brk[mm[t]]))
  BY <1>2, InvParts, Holding
<1>4. arg[t] \in BrkArgs /\ origbrk[t] = brk[mm[t]]
  BY <1>1, <1>2, <1>3 DEF LocalsHold
<1>5. UNCHANGED <<memory_list_mutex, exists, mm, callVars, total_vm>>
  BY <1>1 DEF gateVars, registryVars
<1>6. /\ RegistryTypes' /\ MutexInSection' /\ \A u \in Tasks : SameCall(u)
      /\ exists' = exists /\ mm' = mm
  BY <1>3, <1>5, RegistryUntouched
<1>7. "brk_unmap" \in Apcs
  BY DEF Apcs
<1>8. /\ apc' \in [Tasks -> Apcs] /\ apc'[t] = "brk_unmap"
      /\ \A u \in Tasks \ {t} : apc'[u] = apc[u]
  BY <1>1, <1>3, <1>7, GoMoves
<1>9. /\ brk' \in [Mms -> BrkArgs \cup {0}] /\ brk'[mm[t]] = arg[t]
      /\ \A n \in Mms \ {mm[t]} : brk'[n] = brk[n]
  BY <1>1, <1>3, <1>4 DEF SpaceTypes
<1>10. TypeOK'
  <2>1. AllocTypes'
    BY <1>1, <1>3, <1>8 DEF AllocTypes
  <2>2. SpaceTypes'
    BY <1>1, <1>3, <1>5, <1>9 DEF SpaceTypes
  <2>3. QED  BY <1>1, <1>3, <2>1, <2>2, TypeParts
<1>11. \A u \in Tasks \ {t} : SameTask(u)
  <2>1. \A u \in Tasks \ {t} : SameAlloc(u)
    BY <1>1, <1>8 DEF SameAlloc
  <2>2. QED  BY <1>6, <2>1, OthersStay
<1>12. \A n \in Mms \ {mm[t]} : SameSpace(n)
  BY <1>1, <1>5, <1>9 DEF SameSpace
<1>13. CallsMatch(t)'
  BY <1>3, <1>6, <1>8 DEF CallsMatch, GateApcs, SameCall
<1>14. LocalsHold(t)'
  <2>1. heap[mm[t]] <= Pages(PAGE_ALIGN(origbrk[t]))
    BY <1>3, <1>4
  <2>2. QED  BY <1>1, <1>3, <1>4, <1>6, <1>8, <1>9, <2>1 DEF LocalsHold, BrkApcs
<1>15. MmHolds(mm[t])'
  BY <1>1, <1>3, <1>5, <1>6, <1>8 DEF MmHolds, HoldingApcs
<1>16. /\ \A u \in Tasks : CallsMatch(u)' /\ LocalsHold(u)'
       /\ \A n \in Mms : MmHolds(n)'
  <2>1. mm[t] \in Mms /\ mmap_lock[mm[t]] = t /\ mm' = mm
    BY <1>3, <1>6
  <2>2. QED  BY <1>11, <1>12, <1>13, <1>14, <1>15, <2>1, OwnSpaceStep
<1>17. QED  BY <1>6, <1>10, <1>16 DEF IInv

LEMMA MmapUnmapOldKeeps ==
  ASSUME IInv, NEW t \in Tasks, NEW covered \in 0..MaxVm, MmapUnmapOld(t, covered)
  PROVE  IInv'
<1> DEFINE pages == Pages(PAGE_ALIGN(arg[t]))
<1>1. /\ apc[t] = "mmap_map" /\ covered <= mapped[mm[t]]
      /\ total_vm[mm[t]] + pages - covered <= MaxVm
      /\ mapped' = [mapped EXCEPT ![mm[t]] = mapped[mm[t]] - covered]
      /\ Account(t, 0, covered) /\ Go(t, "mmap_account")
      /\ UNCHANGED <<mmap_lock, brk, heap, stack, arg, origbrk, checked>>
  BY DEF MmapUnmapOld
<1>2. apc[t] \in HoldingApcs \ (GateApcs \cup {"brk_unmap"})
  BY <1>1 DEF HoldingApcs, GateApcs
<1>3. /\ SpaceTypes /\ RegistryTypes /\ MutexInSection /\ LocalsHold(t) /\ AllocTypes
      /\ mmap_lock \in [Mms -> Tasks \cup {NoTask}]
      /\ pc[t] = "idle" /\ mm[t] \in Mms /\ mmap_lock[mm[t]] = t /\ t \in exists
      /\ total_vm[mm[t]] = heap[mm[t]] + mapped[mm[t]] + stack[mm[t]]
      /\ heap[mm[t]] <= Pages(PAGE_ALIGN(brk[mm[t]]))
  BY <1>2, InvParts, Holding
<1>4. pages \in Nat
  <2>1. arg[t] \in Nat
    BY <1>3, RegistryAssumption DEF AllocTypes
  <2>2. QED  BY <2>1, MappingPages
<1>5. /\ total_vm[mm[t]] \in 0..MaxVm /\ heap[mm[t]] \in 0..MaxVm
      /\ mapped[mm[t]] \in 0..MaxVm /\ stack[mm[t]] \in Nat /\ MaxVm \in Nat
      /\ covered \in Nat /\ 0 \in Nat
  BY <1>3, CountsOf
<1>6. total_vm[mm[t]] + 0 - covered \in 0..MaxVm /\ mapped[mm[t]] - covered \in 0..MaxVm
  BY <1>1, <1>3, <1>5
<1>7. /\ total_vm' \in [Mms -> 0..MaxVm]
      /\ total_vm'[mm[t]] = total_vm[mm[t]] + 0 - covered
      /\ \A n \in Mms \ {mm[t]} : total_vm'[n] = total_vm[n]
      /\ UNCHANGED <<memory_list_mutex, exists, mm, callVars>>
  BY <1>1, <1>3, <1>5, <1>6, AccountMoves
<1>8. /\ mapped' \in [Mms -> 0..MaxVm] /\ mapped'[mm[t]] = mapped[mm[t]] - covered
      /\ \A n \in Mms \ {mm[t]} : mapped'[n] = mapped[n]
  BY <1>1, <1>3, <1>6 DEF SpaceTypes
<1>9. /\ RegistryTypes' /\ MutexInSection' /\ \A u \in Tasks : SameCall(u)
      /\ exists' = exists /\ mm' = mm
  BY <1>3, <1>7, RegistryUntouched
<1>10. "mmap_account" \in Apcs
  BY DEF Apcs
<1>11. /\ apc' \in [Tasks -> Apcs] /\ apc'[t] = "mmap_account"
       /\ \A u \in Tasks \ {t} : apc'[u] = apc[u]
  BY <1>1, <1>3, <1>10, GoMoves
<1>12. TypeOK'
  <2>1. AllocTypes'
    BY <1>1, <1>3, <1>11 DEF AllocTypes
  <2>2. SpaceTypes'
    BY <1>1, <1>3, <1>7, <1>8 DEF SpaceTypes
  <2>3. QED  BY <1>1, <1>3, <2>1, <2>2, TypeParts
<1>13. \A u \in Tasks \ {t} : SameTask(u)
  <2>1. \A u \in Tasks \ {t} : SameAlloc(u)
    BY <1>1, <1>11 DEF SameAlloc
  <2>2. QED  BY <1>9, <2>1, OthersStay
<1>14. \A n \in Mms \ {mm[t]} : SameSpace(n)
  BY <1>1, <1>7, <1>8 DEF SameSpace
<1>15. CallsMatch(t)'
  BY <1>3, <1>9, <1>11 DEF CallsMatch, GateApcs, SameCall
<1>16. LocalsHold(t)'
  <2>1. total_vm'[mm[t]] + pages <= MaxVm
    BY <1>1, <1>4, <1>5, <1>7
  <2>2. QED  BY <1>1, <1>3, <1>9, <1>11, <2>1 DEF LocalsHold, BrkApcs
<1>17. MmHolds(mm[t])'
  <2>1. total_vm'[mm[t]] = heap'[mm[t]] + mapped'[mm[t]] + stack'[mm[t]]
    BY <1>1, <1>3, <1>5, <1>7, <1>8
  <2>2. QED  BY <1>1, <1>3, <1>9, <1>11, <2>1 DEF MmHolds, HoldingApcs
<1>18. /\ \A u \in Tasks : CallsMatch(u)' /\ LocalsHold(u)'
       /\ \A n \in Mms : MmHolds(n)'
  <2>1. mm[t] \in Mms /\ mmap_lock[mm[t]] = t /\ mm' = mm
    BY <1>3, <1>9
  <2>2. QED  BY <1>13, <1>14, <1>15, <1>16, <1>17, <2>1, OwnSpaceStep
<1>19. QED  BY <1>9, <1>12, <1>18 DEF IInv

(* brk() and mmap() take the lock, the one with a look at the break. *)
LEMMA LockKeeps ==
  ASSUME IInv, NEW t \in Tasks, BrkLock(t) \/ MmapLock(t)
  PROVE  IInv'
<1>1. /\ apc[t] \in {"brk_lock", "mmap_lock"} /\ TakeLock(t)
      /\ UNCHANGED <<gateVars, brk, heap, mapped, stack, arg, checked>>
      /\ \/ /\ apc[t] = "brk_lock" /\ Go(t, "brk_ask")
            /\ origbrk' = [origbrk EXCEPT ![t] = brk[mm[t]]]
         \/ apc[t] = "mmap_lock" /\ Go(t, "mmap_map") /\ origbrk' = origbrk
  BY DEF BrkLock, MmapLock
<1>2. /\ SpaceTypes /\ RegistryTypes /\ MutexInSection /\ LocalsHold(t) /\ AllocTypes
      /\ CallsMatch(t) /\ mmap_lock \in [Mms -> Tasks \cup {NoTask}]
  BY InvParts
<1>3. pc[t] = "idle" /\ mm[t] \in Mms /\ t \in exists
  BY <1>1, <1>2 DEF CallsMatch, GateApcs
<1>4. UNCHANGED <<memory_list_mutex, exists, mm, callVars, total_vm>>
  BY <1>1 DEF gateVars, registryVars
<1>5. /\ RegistryTypes' /\ MutexInSection' /\ \A u \in Tasks : SameCall(u)
      /\ exists' = exists /\ mm' = mm
  BY <1>2, <1>4, RegistryUntouched
<1>6. /\ mmap_lock' \in [Mms -> Tasks \cup {NoTask}] /\ mmap_lock'[mm[t]] = t
      /\ mmap_lock[mm[t]] \notin Tasks
      /\ \A n \in Mms \ {mm[t]} : mmap_lock'[n] = mmap_lock[n]
  BY <1>1, <1>2, <1>3, RegistryAssumption DEF TakeLock
<1>7. {"brk_ask", "mmap_map"} \subseteq Apcs
  BY DEF Apcs
<1>8. /\ apc' \in [Tasks -> Apcs]
      /\ apc[t] = "brk_lock" => apc'[t] = "brk_ask"
      /\ apc[t] # "brk_lock" => apc'[t] = "mmap_map"
      /\ \A u \in Tasks \ {t} : apc'[u] = apc[u]
  BY <1>1, <1>2, <1>7, GoMoves
<1>9. /\ origbrk' \in [Tasks -> BrkArgs \cup {0}]
      /\ apc[t] = "brk_lock" => origbrk'[t] = brk[mm[t]]
      /\ \A u \in Tasks \ {t} : origbrk'[u] = origbrk[u]
  BY <1>1, <1>2, <1>3, CountsOf DEF AllocTypes
<1>10. TypeOK'
  <2>1. AllocTypes'
    BY <1>1, <1>2, <1>8, <1>9 DEF AllocTypes
  <2>2. SpaceTypes'
    BY <1>1, <1>2, <1>4 DEF SpaceTypes
  <2>3. QED  BY <1>6, <2>1, <2>2, TypeParts
<1>11. \A u \in Tasks \ {t} : SameTask(u)
  <2>1. \A u \in Tasks \ {t} : SameAlloc(u)
    BY <1>1, <1>8, <1>9 DEF SameAlloc
  <2>2. QED  BY <1>5, <2>1, OthersStay
<1>12. \A n \in Mms \ {mm[t]} : SameSpace(n)
  BY <1>1, <1>4, <1>6 DEF SameSpace
<1>13. CallsMatch(t)'
  BY <1>1, <1>3, <1>5, <1>8 DEF CallsMatch, GateApcs, SameCall
<1>14. LocalsHold(t)'
  <2>1. apc[t] = "brk_lock" => arg[t] \in BrkArgs
    BY <1>2 DEF LocalsHold, BrkApcs
  <2>2. CASE apc[t] = "brk_lock"
    BY <1>1, <1>5, <1>6, <1>8, <1>9, <2>1, <2>2 DEF LocalsHold, BrkApcs
  <2>3. CASE apc[t] # "brk_lock"
    BY <1>1, <1>5, <1>6, <1>8, <2>3 DEF LocalsHold, BrkApcs
  <2>4. QED  BY <2>2, <2>3
<1>15. MmHolds(mm[t])'
  <2>1. MmHolds(mm[t])
    BY <1>3 DEF IInv
  <2>2. apc'[t] \in HoldingApcs
    BY <1>8 DEF HoldingApcs
  <2>3. /\ total_vm'[mm'[t]] = heap'[mm'[t]] + mapped'[mm'[t]] + stack'[mm'[t]]
        /\ heap[mm[t]] <= Pages(PAGE_ALIGN(brk[mm[t]]))
    BY <1>1, <1>4, <1>5, <1>6, <2>1 DEF MmHolds
  <2>4. QED  BY <1>1, <1>5, <1>6, <2>2, <2>3 DEF MmHolds
<1>16. apc[t] \notin HoldingApcs
  BY <1>1 DEF HoldingApcs
<1>17. /\ \A u \in Tasks : CallsMatch(u)' /\ LocalsHold(u)'
       /\ \A n \in Mms : MmHolds(n)'
  <2>1. mm[t] \in Mms /\ mmap_lock[mm[t]] \notin Tasks /\ mm' = mm
    BY <1>3, <1>5, <1>6
  <2>2. QED  BY <1>11, <1>12, <1>13, <1>14, <1>15, <1>16, <2>1, OwnSpaceStep
<1>18. QED  BY <1>5, <1>10, <1>17 DEF IInv

(* A new address space is an unused one made fresh. *)
LEMMA exit_mmapKeeps ==
  ASSUME IInv, NEW m \in Mms, exit_mmap(m)
  PROVE  IInv'
<1>1. /\ Unused(m)
      /\ total_vm' = [total_vm EXCEPT ![m] = 1] /\ brk' = [brk EXCEPT ![m] = 0]
      /\ heap' = [heap EXCEPT ![m] = 0] /\ mapped' = [mapped EXCEPT ![m] = 0]
      /\ stack' = [stack EXCEPT ![m] = 1]
      /\ UNCHANGED <<memory_list_mutex, exists, mm, callVars, mmap_lock, allocVars>>
  BY DEF exit_mmap, registryVars
<1>2. /\ SpaceTypes /\ RegistryTypes /\ MutexInSection /\ AllocTypes
      /\ mmap_lock \in [Mms -> Tasks \cup {NoTask}]
  BY TypeParts DEF IInv
<1>3. /\ RegistryTypes' /\ MutexInSection' /\ \A u \in Tasks : SameCall(u)
      /\ exists' = exists /\ mm' = mm
  BY <1>1, <1>2, RegistryUntouched
<1>4. AllocTypes' /\ \A u \in Tasks : SameAlloc(u)
  BY <1>1, <1>2 DEF AllocTypes, SameAlloc, allocVars
<1>5. 0 \in 0..MaxVm /\ 1 \in 0..MaxVm /\ 1 \in 0..MaxStack /\ 0 \in BrkArgs \cup {0}
  BY RegistryAssumption, BrkAssumption
<1>6. SpaceTypes'
  BY <1>1, <1>2, <1>5 DEF SpaceTypes
<1>7. \A n \in Mms \ {m} : SameSpace(n)
  BY <1>1, <1>2 DEF SpaceTypes, SameSpace
<1>8. \A u \in Tasks : SameTask(u) /\ mm[u] # m
  BY <1>1, <1>3, <1>4 DEF SameCall, SameAlloc, SameTask, Unused
<1>9. ASSUME NEW u \in Tasks  PROVE CallsMatch(u)' /\ LocalsHold(u)'
  <2>1. CallsMatch(u) /\ LocalsHold(u)
    BY DEF IInv
  <2>2. apc[u] \in HoldingApcs => SameSpace(mm[u])
    BY <1>7, <1>8, <2>1 DEF CallsMatch, HoldingApcs
  <2>3. QED  BY <1>8, <2>1, <2>2, TaskKeeps
<1>10. ASSUME NEW n \in Mms  PROVE MmHolds(n)'
  <2>1. MmHolds(n)
    BY DEF IInv
  <2>2. CASE n # m
    <3>1. SameSpace(n)
      BY <1>7, <2>2
    <3>2. QED  BY <1>8, <2>1, <3>1, SpaceKeeps
  <2>3. CASE n = m
    <3>1. mmap_lock[n] \notin Tasks
      BY <1>8, <2>1, <2>3 DEF MmHolds
    <3>2. /\ total_vm'[n] = 1 /\ heap'[n] = 0 /\ mapped'[n] = 0 /\ stack'[n] = 1
          /\ brk'[n] = 0
      BY <1>1, <1>2, <2>3 DEF SpaceTypes
    <3>3. Pages(PAGE_ALIGN(0)) \in Nat
      BY BreakPages
    <3>4. QED  BY <1>1, <3>1, <3>2, <3>3 DEF MmHolds
  <2>4. QED  BY <2>2, <2>3
<1>11. TypeOK'
  BY <1>1, <1>2, <1>4, <1>6, TypeParts
<1>12. QED  BY <1>3, <1>9, <1>10, <1>11 DEF IInv

-----------------------------------------------------------------------------
(* The steps that touch no address space. *)

LEMMA QuietKeeps ==
  ASSUME IInv, NEW t \in Tasks, UNCHANGED <<mmVars, total_vm>>,
         RegistryTypes', MutexInSection', AllocTypes',
         \A u \in Tasks \ {t} : SameTask(u),
         CallsMatch(t)', LocalsHold(t)',
         apc[t] \in HoldingApcs => apc'[t] \in HoldingApcs /\ mm'[t] = mm[t],
         apc[t] = "brk_unmap" => apc'[t] = "brk_unmap"
  PROVE  IInv'
<1>1. \A n \in Mms : SameSpace(n)
  BY DEF mmVars, SameSpace
<1>2. /\ \A u \in Tasks : CallsMatch(u)' /\ LocalsHold(u)'
      /\ \A n \in Mms : MmHolds(n)'
  BY <1>1, QuietStep
<1>3. TypeOK'
  <2>1. SpaceTypes /\ mmap_lock \in [Mms -> Tasks \cup {NoTask}]
    BY InvParts
  <2>2. SpaceTypes' /\ mmap_lock' \in [Mms -> Tasks \cup {NoTask}]
    BY <2>1 DEF SpaceTypes, mmVars
  <2>3. QED  BY <2>2, TypeParts
<1>4. QED  BY <1>2, <1>3 DEF IInv

LEMMA BrkEnterKeeps ==
  ASSUME IInv, NEW t \in Tasks, NEW newbrk \in BrkArgs, BrkEnter(t, newbrk)
  PROVE  IInv'
<1>1. /\ apc[t] = "none" /\ pc[t] = "idle" /\ t \in exists /\ mm[t] # NoMM
      /\ Go(t, "brk_lock") /\ arg' = [arg EXCEPT ![t] = newbrk]
      /\ UNCHANGED <<gateVars, mmVars, origbrk, checked>>
  BY DEF BrkEnter, UserMode, Allocating, Registry!Idle, Registry!Running
<1>2. RegistryTypes /\ MutexInSection /\ AllocTypes
  BY InvParts
<1>3. UNCHANGED <<memory_list_mutex, exists, mm, callVars, total_vm>>
  BY <1>1 DEF gateVars, registryVars
<1>4. /\ RegistryTypes' /\ MutexInSection' /\ \A u \in Tasks : SameCall(u)
      /\ exists' = exists /\ mm' = mm
  BY <1>2, <1>3, RegistryUntouched
<1>5. "brk_lock" \in Apcs /\ newbrk \in 0..(SizeMod - 1)
  BY RegistryAssumption, BrkAssumption DEF Apcs
<1>6. /\ apc' \in [Tasks -> Apcs] /\ apc'[t] = "brk_lock"
      /\ \A u \in Tasks \ {t} : apc'[u] = apc[u]
  BY <1>1, <1>2, <1>5, GoMoves
<1>7. /\ arg' \in [Tasks -> 0..(SizeMod - 1)] /\ arg'[t] = newbrk
      /\ \A u \in Tasks \ {t} : arg'[u] = arg[u]
  BY <1>1, <1>2, <1>5 DEF AllocTypes
<1>8. AllocTypes' /\ \A u \in Tasks \ {t} : SameAlloc(u)
  BY <1>1, <1>2, <1>6, <1>7 DEF AllocTypes, SameAlloc
<1>9. \A u \in Tasks \ {t} : SameTask(u)
  BY <1>4, <1>8, OthersStay
<1>10. mm[t] \in Mms
  BY <1>1, <1>2 DEF RegistryTypes
<1>11. CallsMatch(t)' /\ LocalsHold(t)'
  BY <1>1, <1>4, <1>6, <1>7, <1>10
     DEF CallsMatch, LocalsHold, SameCall, GateApcs, HoldingApcs
<1>12. apc[t] \notin HoldingApcs /\ apc[t] # "brk_unmap"
  BY <1>1 DEF HoldingApcs
<1>13. QED  BY <1>1, <1>3, <1>4, <1>8, <1>9, <1>11, <1>12, QuietKeeps

LEMMA InterruptedKeeps ==
  ASSUME IInv, NEW t \in Tasks, Interrupted(t)
  PROVE  IInv'
<1>1. /\ apc[t] \in {"brk_lock", "mmap_lock"} /\ Leave(t)
      /\ UNCHANGED <<gateVars, mmVars>>
  BY DEF Interrupted
<1>2. RegistryTypes /\ MutexInSection /\ AllocTypes /\ CallsMatch(t)
  BY InvParts
<1>3. UNCHANGED <<memory_list_mutex, exists, mm, callVars, total_vm>>
  BY <1>1 DEF gateVars, registryVars
<1>4. /\ RegistryTypes' /\ MutexInSection' /\ \A u \in Tasks : SameCall(u)
      /\ exists' = exists /\ mm' = mm
  BY <1>2, <1>3, RegistryUntouched
<1>5. AllocTypes' /\ apc'[t] = "none" /\ \A u \in Tasks \ {t} : SameAlloc(u)
  BY <1>1, <1>2, LeaveMoves
<1>6. \A u \in Tasks \ {t} : SameTask(u)
  BY <1>4, <1>5, OthersStay
<1>7. pc'[t] = "idle"
  BY <1>1, <1>2, <1>4 DEF CallsMatch, GateApcs, SameCall
<1>8. CallsMatch(t)' /\ LocalsHold(t)'
  BY <1>5, <1>7, NothingToKeep
<1>9. apc[t] \notin HoldingApcs /\ apc[t] # "brk_unmap"
  BY <1>1 DEF HoldingApcs
<1>10. QED  BY <1>1, <1>3, <1>4, <1>5, <1>6, <1>8, <1>9, QuietKeeps

LEMMA BrkAskKeeps ==
  ASSUME IInv, NEW t \in Tasks, BrkAsk(t)
  PROVE  IInv'
<1> DEFINE size == BrkRequest(brk[mm[t]], arg[t])
<1>1. /\ apc[t] = "brk_ask" /\ Registry!CheckEnter(t, size) /\ Go(t, "brk_gate")
      /\ UNCHANGED <<mmVars, arg, origbrk, checked>>
  BY DEF BrkAsk
<1>2. apc[t] \in HoldingApcs /\ apc[t] \in BrkApcs /\ apc[t] \notin GateApcs
  BY <1>1 DEF HoldingApcs, BrkApcs, GateApcs
<1>3. /\ RegistryTypes /\ MutexInSection /\ AllocTypes /\ LocalsHold(t)
      /\ mm[t] \in Mms /\ t \in exists /\ SpaceTypes /\ mmap_lock[mm[t]] = t
  BY <1>2, InvParts, Holding
<1>4. arg[t] \in BrkArgs /\ origbrk[t] = brk[mm[t]] /\ brk[mm[t]] \in BrkArgs \cup {0}
  BY <1>1, <1>2, <1>3, CountsOf DEF LocalsHold
<1>5. size \in Nat
  <2>1. size \in 0..(SizeMod - 1)
    BY <1>4, RequestIsSize
  <2>2. QED  BY <2>1, RegistryAssumption
<1>6. size = BrkRequest(origbrk[t], arg[t])
  BY <1>4
<1> HIDE DEF size
<1>7. /\ RegistryTypes' /\ MutexInSection'
      /\ \A u \in Tasks \ {t} : SameCall(u)
      /\ pc'[t] = "check_usage" /\ task'[t] = t
      /\ req'[t].op = "check" /\ req'[t].size = size
      /\ exists' = exists /\ mm' = mm /\ total_vm' = total_vm
  BY <1>1, <1>3, <1>5, CheckEnterMoves
<1>8. "brk_gate" \in Apcs
  BY DEF Apcs
<1>9. /\ apc' \in [Tasks -> Apcs] /\ apc'[t] = "brk_gate"
      /\ \A u \in Tasks \ {t} : apc'[u] = apc[u]
  BY <1>1, <1>3, <1>8, GoMoves
<1>10. AllocTypes' /\ \A u \in Tasks \ {t} : SameAlloc(u)
  BY <1>1, <1>3, <1>9 DEF AllocTypes, SameAlloc
<1>11. \A u \in Tasks \ {t} : SameTask(u)
  BY <1>7, <1>10, OthersStay
<1>12. CallsMatch(t)'
  BY <1>3, <1>7, <1>9 DEF CallsMatch, GateApcs
<1>13. LocalsHold(t)'
  BY <1>1, <1>3, <1>4, <1>6, <1>7, <1>9 DEF LocalsHold, mmVars
<1>14. apc'[t] \in HoldingApcs /\ apc[t] # "brk_unmap"
  BY <1>1, <1>9 DEF HoldingApcs
<1>15. QED  BY <1>1, <1>7, <1>10, <1>11, <1>12, <1>13, <1>14, QuietKeeps

LEMMA MmapAskKeeps ==
  ASSUME IInv, NEW t \in Tasks, NEW len \in MmapLens, MmapAsk(t, len)
  PROVE  IInv'
<1>1. /\ apc[t] = "none" /\ Registry!CheckEnter(t, len) /\ Go(t, "mmap_gate")
      /\ arg' = [arg EXCEPT ![t] = len] /\ UNCHANGED <<mmVars, origbrk, checked>>
  BY DEF MmapAsk, Allocating
<1>2. RegistryTypes /\ MutexInSection /\ AllocTypes
  BY InvParts
<1>3. len \in Nat /\ len \in 0..(SizeMod - 1) /\ "mmap_gate" \in Apcs
  BY RegistryAssumption, BrkAssumption DEF Apcs
<1>4. /\ RegistryTypes' /\ MutexInSection'
      /\ \A u \in Tasks \ {t} : SameCall(u)
      /\ t \in exists /\ mm[t] # NoMM
      /\ pc'[t] = "check_usage" /\ task'[t] = t
      /\ req'[t].op = "check"
      /\ exists' = exists /\ mm' = mm /\ total_vm' = total_vm
  BY <1>1, <1>2, <1>3, CheckEnterMoves
<1>5. /\ apc' \in [Tasks -> Apcs] /\ apc'[t] = "mmap_gate"
      /\ \A u \in Tasks \ {t} : apc'[u] = apc[u]
  BY <1>1, <1>2, <1>3, GoMoves
<1>6. /\ arg' \in [Tasks -> 0..(SizeMod - 1)]
      /\ \A u \in Tasks \ {t} : arg'[u] = arg[u]
  BY <1>1, <1>2, <1>3 DEF AllocTypes
<1>7. AllocTypes' /\ \A u \in Tasks \ {t} : SameAlloc(u)
  BY <1>1, <1>2, <1>5, <1>6 DEF AllocTypes, SameAlloc
<1>8. \A u \in Tasks \ {t} : SameTask(u)
  BY <1>4, <1>7, OthersStay
<1>9. mm[t] \in Mms
  BY <1>2, <1>4 DEF RegistryTypes
<1>10. CallsMatch(t)' /\ LocalsHold(t)'
  BY <1>4, <1>5, <1>9 DEF CallsMatch, LocalsHold, GateApcs, HoldingApcs, BrkApcs
<1>11. apc[t] \notin HoldingApcs /\ apc[t] # "brk_unmap"
  BY <1>1 DEF HoldingApcs
<1>12. QED  BY <1>1, <1>4, <1>7, <1>8, <1>10, <1>11, QuietKeeps

(* The gate answers brk() or mmap(), and the question is over. *)
LEMMA AnswerMoves ==
  ASSUME IInv, NEW t \in Tasks, Registry!Return(t)
  PROVE  /\ RegistryTypes' /\ MutexInSection'
         /\ \A u \in Tasks \ {t} : SameCall(u)
         /\ exists' = exists /\ mm' = mm /\ total_vm' = total_vm
         /\ pc'[t] = "idle"
<1>1. RegistryTypes /\ MutexInSection /\ Registry!Step(t)
  BY InvParts DEF Registry!Step
<1>2. pc'[t] = "idle" /\ mm' = mm
  BY <1>1 DEF Registry!Return, Registry!Goto, Registry!taskVars, RegistryTypes
<1>3. QED  BY <1>1, <1>2, StepMoves

LEMMA MmapDeniedKeeps ==
  ASSUME IInv, NEW t \in Tasks, MmapDenied(t)
  PROVE  IInv'
<1>1. /\ apc[t] = "mmap_gate" /\ Registry!Return(t) /\ Leave(t) /\ UNCHANGED mmVars
  BY DEF MmapDenied
<1>2. AllocTypes
  BY InvParts
<1>3. /\ RegistryTypes' /\ MutexInSection'
      /\ \A u \in Tasks \ {t} : SameCall(u)
      /\ exists' = exists /\ mm' = mm /\ total_vm' = total_vm
      /\ pc'[t] = "idle"
  BY <1>1, AnswerMoves
<1>4. AllocTypes' /\ apc'[t] = "none" /\ \A u \in Tasks \ {t} : SameAlloc(u)
  BY <1>1, <1>2, LeaveMoves
<1>5. \A u \in Tasks \ {t} : SameTask(u)
  BY <1>3, <1>4, OthersStay
<1>6. CallsMatch(t)' /\ LocalsHold(t)'
  BY <1>3, <1>4, NothingToKeep
<1>7. apc[t] \notin HoldingApcs /\ apc[t] # "brk_unmap"
  BY <1>1 DEF HoldingApcs
<1>8. QED  BY <1>1, <1>3, <1>4, <1>5, <1>6, <1>7, QuietKeeps

LEMMA RememberMoves ==
  ASSUME IInv, NEW t \in Tasks, Remember(t)
  PROVE  /\ checked' \in [Tasks -> 0..(SizeMod - 1)]
         /\ checked'[t] = (usage[t] + req[t].size) % SizeMod
         /\ \A u \in Tasks \ {t} : checked'[u] = checked[u]
<1>1. RegistryTypes /\ AllocTypes
  BY InvParts
<1>2. usage[t] \in Nat /\ req[t].size \in Nat
  BY <1>1, RegistryAssumption DEF RegistryTypes, Registry!Sizes, Registry!Request
<1>3. usage[t] + req[t].size \in Nat
  BY <1>2
<1>4. (usage[t] + req[t].size) % SizeMod \in 0..(SizeMod - 1)
  BY <1>3, ModIsSize
<1>5. QED  BY <1>1, <1>4 DEF Remember, AllocTypes

LEMMA MmapAcceptedKeeps ==
  ASSUME IInv, NEW t \in Tasks, MmapAccepted(t)
  PROVE  IInv'
<1>1. /\ apc[t] = "mmap_gate" /\ Registry!Return(t) /\ Go(t, "mmap_lock") /\ Remember(t)
      /\ UNCHANGED <<mmVars, arg, origbrk>>
  BY DEF MmapAccepted
<1>2. AllocTypes /\ CallsMatch(t)
  BY InvParts
<1>3. /\ RegistryTypes' /\ MutexInSection'
      /\ \A u \in Tasks \ {t} : SameCall(u)
      /\ exists' = exists /\ mm' = mm /\ total_vm' = total_vm
      /\ pc'[t] = "idle"
  BY <1>1, AnswerMoves
<1>4. "mmap_lock" \in Apcs
  BY DEF Apcs
<1>5. /\ apc' \in [Tasks -> Apcs] /\ apc'[t] = "mmap_lock"
      /\ \A u \in Tasks \ {t} : apc'[u] = apc[u]
  BY <1>1, <1>2, <1>4, GoMoves
<1>6. /\ checked' \in [Tasks -> 0..(SizeMod - 1)]
      /\ \A u \in Tasks \ {t} : checked'[u] = checked[u]
  BY <1>1, RememberMoves
<1>7. AllocTypes' /\ \A u \in Tasks \ {t} : SameAlloc(u)
  BY <1>1, <1>2, <1>5, <1>6 DEF AllocTypes, SameAlloc
<1>8. \A u \in Tasks \ {t} : SameTask(u)
  BY <1>3, <1>7, OthersStay
<1>9. CallsMatch(t)' /\ LocalsHold(t)'
  BY <1>1, <1>2, <1>3, <1>5 DEF CallsMatch, LocalsHold, GateApcs, HoldingApcs, BrkApcs
<1>10. apc[t] \notin HoldingApcs /\ apc[t] # "brk_unmap"
  BY <1>1 DEF HoldingApcs
<1>11. QED  BY <1>1, <1>3, <1>7, <1>8, <1>9, <1>10, QuietKeeps

LEMMA BrkAcceptedKeeps ==
  ASSUME IInv, NEW t \in Tasks, BrkAccepted(t)
  PROVE  IInv'
<1>1. /\ apc[t] = "brk_gate" /\ pc[t] = "return" /\ ret[t] = "accepted"
      /\ Registry!Return(t) /\ Go(t, "brk_apply") /\ Remember(t)
      /\ UNCHANGED <<mmVars, arg, origbrk>>
  BY DEF BrkAccepted, Answered
<1>2. apc[t] \in HoldingApcs /\ apc[t] \in BrkApcs
  BY <1>1 DEF HoldingApcs, BrkApcs
<1>3. AllocTypes /\ CallsMatch(t) /\ LocalsHold(t) /\ mm[t] \in Mms /\ mmap_lock[mm[t]] = t
  BY <1>2, InvParts, Holding
<1>4. /\ RegistryTypes' /\ MutexInSection'
      /\ \A u \in Tasks \ {t} : SameCall(u)
      /\ exists' = exists /\ mm' = mm /\ total_vm' = total_vm
      /\ pc'[t] = "idle"
  BY <1>1, AnswerMoves
<1>5. "brk_apply" \in Apcs
  BY DEF Apcs
<1>6. /\ apc' \in [Tasks -> Apcs] /\ apc'[t] = "brk_apply"
      /\ \A u \in Tasks \ {t} : apc'[u] = apc[u]
  BY <1>1, <1>3, <1>5, GoMoves
<1>7. /\ checked' \in [Tasks -> 0..(SizeMod - 1)]
      /\ checked'[t] = (usage[t] + req[t].size) % SizeMod
      /\ \A u \in Tasks \ {t} : checked'[u] = checked[u]
  BY <1>1, RememberMoves
<1>8. AllocTypes' /\ \A u \in Tasks \ {t} : SameAlloc(u)
  BY <1>1, <1>3, <1>6, <1>7 DEF AllocTypes, SameAlloc
<1>9. \A u \in Tasks \ {t} : SameTask(u)
  BY <1>4, <1>8, OthersStay
<1>10. CallsMatch(t)'
  BY <1>1, <1>3, <1>4, <1>6 DEF CallsMatch, GateApcs
<1>11. LocalsHold(t)'
  <2>1. /\ usage[t] = Registry!Bytes(total_vm[mm[t]])
        /\ req[t].size = BrkRequest(origbrk[t], arg[t])
        /\ arg[t] \in BrkArgs /\ origbrk[t] = brk[mm[t]]
    BY <1>1, <1>2, <1>3 DEF LocalsHold
  <2>2. checked'[t] = (Registry!Bytes(total_vm'[mm'[t]]) + BrkRequest(origbrk'[t], arg'[t]))
                         % SizeMod
    BY <1>1, <1>4, <1>7, <2>1
  <2>3. QED  BY <1>1, <1>3, <1>4, <1>6, <2>1, <2>2 DEF LocalsHold, mmVars
<1>12. apc'[t] \in HoldingApcs /\ apc[t] # "brk_unmap"
  BY <1>1, <1>6 DEF HoldingApcs
<1>13. QED  BY <1>1, <1>4, <1>8, <1>9, <1>10, <1>11, <1>12, QuietKeeps

-----------------------------------------------------------------------------
(* The registry calls, the life of tasks, and the invariant of every step. *)

LEMMA RegistryEnterKeeps ==
  ASSUME IInv, NEW t \in Tasks, RegistryEnter(t)
  PROVE  IInv'
<1>1. apc[t] = "none" /\ UNCHANGED <<mmVars, allocVars>>
  BY DEF RegistryEnter, Allocating
<1>2. RegistryTypes /\ MutexInSection /\ AllocTypes
  BY InvParts
<1>3. /\ RegistryTypes' /\ MutexInSection'
      /\ \A u \in Tasks \ {t} : SameCall(u)
      /\ req'[t].op # "check"
      /\ t \in exists /\ mm[t] # NoMM
      /\ exists' = exists /\ mm' = mm /\ total_vm' = total_vm
  BY <1>2, RegistryEnterMoves
<1>4. AllocTypes' /\ \A u \in Tasks : SameAlloc(u)
  BY <1>1, <1>2 DEF AllocTypes, SameAlloc, allocVars
<1>5. \A u \in Tasks \ {t} : SameTask(u)
  BY <1>3, <1>4, OthersStay
<1>6. mm[t] \in Mms
  BY <1>2, <1>3 DEF RegistryTypes
<1>7. CallsMatch(t)' /\ LocalsHold(t)'
  BY <1>1, <1>3, <1>4, <1>6
     DEF CallsMatch, LocalsHold, SameAlloc, GateApcs, HoldingApcs, BrkApcs
<1>8. apc[t] \notin HoldingApcs /\ apc[t] # "brk_unmap"
  BY <1>1 DEF HoldingApcs
<1>9. QED  BY <1>1, <1>3, <1>4, <1>5, <1>7, <1>8, QuietKeeps

(* A step of a registry call: of the gate for brk() or mmap(), or of a call *)
(* made from user mode, which may oops.                                     *)
LEMMA RegistryStepKeeps ==
  ASSUME IInv, NEW t \in Tasks, RegistryStep(t)
  PROVE  IInv'
<1>1. /\ ~Answered(t) /\ Registry!Step(t)
      /\ apc' = IF mm'[t] = NoMM THEN [apc EXCEPT ![t] = "none"] ELSE apc
      /\ UNCHANGED <<mmVars, arg, origbrk, checked>>
  BY DEF RegistryStep
<1>2. RegistryTypes /\ MutexInSection /\ AllocTypes /\ CallsMatch(t) /\ LocalsHold(t)
  BY InvParts
<1>3. /\ RegistryTypes' /\ MutexInSection'
      /\ \A u \in Tasks \ {t} : SameCall(u) /\ mm'[u] = mm[u]
      /\ exists' = exists /\ total_vm' = total_vm /\ pc[t] # "idle"
      /\ pc'[t] = "idle" \/ (req'[t] = req[t] /\ mm' = mm)
  BY <1>1, <1>2, StepMoves
<1>4. t \in exists /\ mm[t] \in Mms
  BY <1>2, <1>3 DEF CallsMatch
<1>5. AllocTypes' /\ \A u \in Tasks \ {t} : SameAlloc(u)
  <2>1. "none" \in Apcs
    BY DEF Apcs
  <2>2. QED  BY <1>1, <1>2, <2>1 DEF AllocTypes, SameAlloc
<1>6. \A u \in Tasks \ {t} : SameTask(u)
  BY <1>3, <1>5, OthersStay
<1>7. CASE apc[t] \in GateApcs
  <2>1. /\ pc'[t] \in {"check_lock", "check_scan", "return"}
        /\ req'[t] = req[t] /\ mm' = mm
        /\ pc[t] = "check_usage" => usage'[t] = Registry!Bytes(total_vm[mm[t]])
        /\ pc[t] # "check_usage" => usage'[t] = usage[t]
    BY <1>1, <1>2, <1>7, GateStepMoves
  <2>2. apc' = apc
    BY <1>1, <1>4, <2>1, RegistryAssumption
  <2>3. CallsMatch(t)'
    BY <1>2, <1>3, <1>4, <1>7, <2>1, <2>2 DEF CallsMatch, GateApcs
  <2>4. LocalsHold(t)'
    <3>1. CASE apc[t] = "mmap_gate"
      BY <2>2, <3>1 DEF LocalsHold, HoldingApcs, BrkApcs
    <3>2. CASE apc[t] = "brk_gate"
      <4>1. /\ mmap_lock[mm[t]] = t /\ arg[t] \in BrkArgs /\ origbrk[t] = brk[mm[t]]
            /\ req[t].size = BrkRequest(origbrk[t], arg[t])
        BY <1>2, <3>2 DEF LocalsHold, HoldingApcs, BrkApcs
      <4>2. pc[t] # "return" /\ pc[t] # "check_usage"
              => usage[t] = Registry!Bytes(total_vm[mm[t]])
        BY <1>2, <3>2 DEF LocalsHold
      <4>3. pc[t] # "return"
        BY <1>1, <1>2, <1>7 DEF Answered, CallsMatch
      <4>4. usage'[t] = Registry!Bytes(total_vm[mm[t]])
        BY <2>1, <4>2, <4>3
      <4>5. usage'[t] = Registry!Bytes(total_vm'[mm'[t]])
        BY <1>3, <2>1, <4>4
      <4>6. UNCHANGED <<mmap_lock, brk, arg, origbrk>>
        BY <1>1 DEF mmVars
      <4>7. QED  BY <2>1, <2>2, <3>2, <4>1, <4>5, <4>6 DEF LocalsHold
    <3>3. QED  BY <1>7, <3>1, <3>2 DEF GateApcs
  <2>5. QED  BY <1>1, <1>3, <1>5, <1>6, <2>1, <2>2, <2>3, <2>4, QuietKeeps
<1>8. CASE apc[t] \notin GateApcs
  <2>1. apc[t] = "none" /\ req[t].op # "check"
    BY <1>2, <1>3, <1>8 DEF CallsMatch
  <2>2. apc'[t] = "none"
    BY <1>1, <1>2, <2>1 DEF AllocTypes
  <2>3. CallsMatch(t)'
    BY <1>3, <1>4, <2>1, <2>2 DEF CallsMatch, GateApcs
  <2>4. LocalsHold(t)'
    BY <2>2 DEF LocalsHold, HoldingApcs, BrkApcs
  <2>5. apc[t] \notin HoldingApcs /\ apc[t] # "brk_unmap"
    BY <2>1 DEF HoldingApcs
  <2>6. QED  BY <1>1, <1>3, <1>5, <1>6, <2>3, <2>4, <2>5, QuietKeeps
<1>9. QED  BY <1>7, <1>8

(* A task's life moves on while the task is in no call. *)
LEMMA LifeKeeps ==
  ASSUME IInv, NEW t \in Tasks, apc[t] = "none", pc[t] = "idle",
         UNCHANGED <<mmVars, allocVars, total_vm, memory_list_mutex, pc, req, usage, ret>>,
         RegistryTypes', \A u \in Tasks \ {t} : mm'[u] = mm[u],
         \A u \in Tasks \ {t} : u \in exists => u \in exists',
         \A u \in Tasks \ {t} : task[u] = u => task'[u] = u
  PROVE  IInv'
<1>1. MutexInSection /\ AllocTypes
  BY InvParts
<1>2. MutexInSection' /\ AllocTypes'
  BY <1>1 DEF MutexInSection, AllocTypes, allocVars
<1>3. \A u \in Tasks \ {t} : SameTask(u)
  BY DEF SameTask, allocVars
<1>4. CallsMatch(t)' /\ LocalsHold(t)'
  BY NothingToKeep DEF allocVars
<1>5. apc[t] \notin HoldingApcs /\ apc[t] # "brk_unmap"
  BY DEF HoldingApcs
<1>6. QED  BY <1>2, <1>3, <1>4, <1>5, QuietKeeps

LEMMA ExitKeeps ==
  ASSUME IInv, NEW t \in Tasks, Exit(t)
  PROVE  IInv'
<1>1. /\ apc[t] = "none" /\ pc[t] = "idle" /\ mm' = [mm EXCEPT ![t] = NoMM]
      /\ UNCHANGED <<mmVars, allocVars, total_vm, memory_list_mutex, exists,
                     pc, req, task, usage, ret>>
  BY DEF Exit, Allocating, Registry!Exit, Registry!Idle, Registry!registryVars,
         Registry!callVars
<1>2. RegistryTypes
  BY InvParts
<1>3. RegistryTypes' /\ \A u \in Tasks \ {t} : mm'[u] = mm[u]
  BY <1>1, <1>2 DEF RegistryTypes
<1>4. QED  BY <1>1, <1>3, LifeKeeps

LEMMA ReapKeeps ==
  ASSUME IInv, NEW t \in Tasks, Reap(t)
  PROVE  IInv'
<1>1. /\ mm[t] = NoMM /\ exists' = exists \ {t}
      /\ task' = [u \in Tasks |-> IF task[u] = t THEN Freed ELSE task[u]]
      /\ UNCHANGED <<mmVars, allocVars, total_vm, memory_list_mutex, mm,
                     pc, req, usage, ret>>
  BY DEF Reap, Registry!Reap, Registry!registryVars
<1>2. RegistryTypes /\ CallsMatch(t)
  BY InvParts
<1>3. apc[t] = "none" /\ pc[t] = "idle"
  BY <1>1, <1>2, RegistryAssumption DEF CallsMatch
<1>4. /\ task' \in [Tasks -> Tasks \cup {NoTask, Freed}]
      /\ \A u \in Tasks \ {t} : task[u] = u => task'[u] = u
      /\ \A u \in Tasks \ {t} : u \in exists => u \in exists'
  BY <1>1, <1>2 DEF RegistryTypes
<1>5. RegistryTypes'
  BY <1>1, <1>2, <1>4 DEF RegistryTypes
<1>6. QED  BY <1>1, <1>3, <1>4, <1>5, LifeKeeps

LEMMA SpawnKeeps ==
  ASSUME IInv, NEW t \in Tasks, NEW m \in Mms, Spawn(t, m)
  PROVE  IInv'
<1>1. /\ t \notin exists /\ exists' = exists \cup {t} /\ mm' = [mm EXCEPT ![t] = m]
      /\ UNCHANGED <<mmVars, allocVars, total_vm, memory_list_mutex,
                     pc, req, task, usage, ret>>
  BY DEF Spawn, Registry!Spawn, Registry!registryVars, Registry!callVars
<1>2. RegistryTypes /\ CallsMatch(t)
  BY InvParts
<1>3. apc[t] = "none" /\ pc[t] = "idle"
  BY <1>1, <1>2 DEF CallsMatch
<1>4. /\ RegistryTypes' /\ \A u \in Tasks \ {t} : mm'[u] = mm[u]
      /\ \A u \in Tasks \ {t} : u \in exists => u \in exists'
  BY <1>1, <1>2 DEF RegistryTypes
<1>5. QED  BY <1>1, <1>3, <1>4, LifeKeeps

LEMMA InvInit == Init => IInv
<1> SUFFICES ASSUME Init  PROVE IInv
  OBVIOUS
<1>1. 0 \in 0..MaxVm /\ 1 \in 0..MaxVm /\ 1 \in 0..MaxStack /\ 0 \in 0..(SizeMod - 1)
        /\ "none" \in Apcs
  BY RegistryAssumption, BrkAssumption DEF Apcs
<1>2. TypeOK
  BY <1>1 DEF Init, TypeOK
<1>3. RegistryTypes
  <2>1. Registry!NoReq \in Registry!Request
    BY DEF Registry!NoReq, Registry!Request, Registry!Ops
  <2>2. "idle" \in Registry!Pcs /\ "none" \in Registry!Codes /\ 0 \in Registry!Sizes
    BY <1>1, RegistryPoints DEF Registry!Codes, Registry!Sizes
  <2>3. QED  BY <2>1, <2>2 DEF Init, RegistryTypes
<1>4. MutexInSection
  BY RegistryAssumption DEF Init, MutexInSection
<1>5. \A t \in Tasks : CallsMatch(t) /\ LocalsHold(t)
  BY DEF Init, CallsMatch, LocalsHold, GateApcs, HoldingApcs, BrkApcs
<1>6. ASSUME NEW m \in Mms  PROVE MmHolds(m)
  <2>1. Pages(PAGE_ALIGN(0)) \in Nat
    BY BreakPages
  <2>2. QED  BY <2>1, RegistryAssumption DEF Init, MmHolds
<1>7. QED  BY <1>2, <1>3, <1>4, <1>5, <1>6 DEF IInv

LEMMA BrkStepKeeps ==
  ASSUME IInv, NEW t \in Tasks, BrkStep(t)
  PROVE  IInv'
<1>1. CASE BrkRefused(t)
  <2>1. apc[t] \in HoldingApcs \ (GateApcs \cup {"brk_unmap"})
    BY <1>1 DEF BrkRefused, HoldingApcs, GateApcs
  <2>2. DropLock(t) /\ Leave(t) /\ UNCHANGED <<gateVars, brk, heap, mapped, stack>>
    BY <1>1 DEF BrkRefused
  <2>3. QED  BY <2>1, <2>2, GivesUp
<1>2. CASE BrkGrowFails(t)
  <2>1. apc[t] \in HoldingApcs \ (GateApcs \cup {"brk_unmap"})
    BY <1>2 DEF BrkGrowFails, HoldingApcs, GateApcs
  <2>2. DropLock(t) /\ Leave(t) /\ UNCHANGED <<gateVars, brk, heap, mapped, stack>>
    BY <1>2 DEF BrkGrowFails
  <2>3. QED  BY <2>1, <2>2, GivesUp
<1>3. QED
  BY <1>1, <1>2, LockKeeps, BrkAskKeeps, BrkDeniedKeeps, BrkAcceptedKeeps,
     BrkSamePageKeeps, BrkShrinkKeeps, BrkUnmapFailsKeeps, BrkUnmapKeeps, BrkGrowKeeps
     DEF BrkStep

LEMMA MmapStepKeeps ==
  ASSUME IInv, NEW t \in Tasks, MmapStep(t)
  PROVE  IInv'
<1>1. CASE MmapFails(t)
  <2>1. apc[t] \in HoldingApcs \ (GateApcs \cup {"brk_unmap"})
    BY <1>1 DEF MmapFails, HoldingApcs, GateApcs
  <2>2. DropLock(t) /\ Leave(t) /\ UNCHANGED <<gateVars, brk, heap, mapped, stack>>
    BY <1>1 DEF MmapFails
  <2>3. QED  BY <2>1, <2>2, GivesUp
<1>2. CASE MmapFailsLate(t)
  <2>1. apc[t] \in HoldingApcs \ (GateApcs \cup {"brk_unmap"})
    BY <1>2 DEF MmapFailsLate, HoldingApcs, GateApcs
  <2>2. DropLock(t) /\ Leave(t) /\ UNCHANGED <<gateVars, brk, heap, mapped, stack>>
    BY <1>2 DEF MmapFailsLate
  <2>3. QED  BY <2>1, <2>2, GivesUp
<1>3. QED
  BY <1>1, <1>2, LockKeeps, MmapDeniedKeeps, MmapAcceptedKeeps, MmapUnmapOldKeeps,
     MmapAccountKeeps DEF MmapStep

LEMMA EnterKeeps ==
  ASSUME IInv, NEW t \in Tasks, Enter(t)
  PROVE  IInv'
<1>1. MmapLens \subseteq Nat
  BY RegistryAssumption, BrkAssumption
<1>2. ASSUME NEW len \in MmapLens, matus_tamalloc(t, len)  PROVE IInv'
  BY <1>1, <1>2, matus_tamallocKeeps
<1>3. QED
  BY <1>2, RegistryEnterKeeps, BrkEnterKeeps, MmapAskKeeps, munmapKeeps,
     expand_stackKeeps DEF Enter

LEMMA StutterKeeps ==
  ASSUME IInv, UNCHANGED vars
  PROVE  IInv'
<1>1. /\ UNCHANGED <<memory_list_mutex, exists, mm, pc, req, task, usage, ret>>
      /\ UNCHANGED <<total_vm, mmap_lock, brk, heap, mapped, stack>>
      /\ UNCHANGED <<apc, arg, origbrk, checked>>
  BY DEF vars, gateVars, registryVars, callVars, mmVars, allocVars
<1>2. TypeOK' /\ RegistryTypes' /\ MutexInSection'
  BY <1>1 DEF IInv, TypeOK, RegistryTypes, MutexInSection
<1>3. ASSUME NEW u \in Tasks  PROVE CallsMatch(u)' /\ LocalsHold(u)'
  <2>1. SameTask(u) /\ \A n \in Mms : SameSpace(n)
    BY <1>1 DEF SameTask, SameSpace
  <2>2. CallsMatch(u) /\ LocalsHold(u)
    BY DEF IInv
  <2>3. apc[u] \in HoldingApcs => SameSpace(mm[u])
    BY <1>1 DEF SameSpace
  <2>4. QED  BY <2>1, <2>2, <2>3, TaskKeeps
<1>4. ASSUME NEW n \in Mms  PROVE MmHolds(n)'
  BY <1>1 DEF IInv, MmHolds
<1>5. QED  BY <1>2, <1>3, <1>4 DEF IInv

LEMMA InvNext == IInv /\ [Next]_vars => IInv'
<1> SUFFICES ASSUME IInv, [Next]_vars  PROVE IInv'
  OBVIOUS
<1>1. CASE UNCHANGED vars
  BY <1>1, StutterKeeps
<1>2. ASSUME NEW t \in Tasks, Enter(t) \/ Step(t) \/ Interrupted(t) \/ Exit(t) \/ Reap(t)
      PROVE  IInv'
  BY <1>2, EnterKeeps, RegistryStepKeeps, BrkStepKeeps, MmapStepKeeps, InterruptedKeeps,
     ExitKeeps, ReapKeeps DEF Step
<1>3. QED  BY <1>1, <1>2, SpawnKeeps, exit_mmapKeeps DEF Next

-----------------------------------------------------------------------------
(* What follows *)

(* The inductive invariant holds in every state the allocators reach.       *)
THEOREM Invariant == SafetySpec => []IInv
<1>1. QED  BY InvInit, InvNext, PTL DEF SafetySpec

(* Every variable of the allocators keeps its type, no address space passes *)
(* RLIMIT_AS and no stack passes RLIMIT_STACK: however brk(), mmap(), the   *)
(* callers that ask nobody and the registry calls interleave.               *)
THEOREM TypeCorrect == SafetySpec => []TypeOK
<1>1. IInv => TypeOK
  BY DEF IInv
<1>2. QED  BY <1>1, Invariant, PTL

(* While nobody holds the mmap_lock of an address space, its total_vm is    *)
(* the sum of its pages and its heap ends below its break.                  *)
THEOREM AccountsAddUp == SafetySpec => []AccountingConsistent
<1>1. IInv => AccountingConsistent
  BY RegistryAssumption DEF IInv, MmHolds, AccountingConsistent
<1>2. QED  BY <1>1, Invariant, PTL

(* No task that holds memory_list_mutex waits for an mmap_lock.             *)
THEOREM LocksAreOrdered == SafetySpec => []NoLockInversion
<1>1. IInv => NoLockInversion
  BY RegistryPoints
     DEF IInv, MutexInSection, CallsMatch, GateApcs, NoLockInversion
<1>2. QED  BY <1>1, Invariant, PTL

(* What the gate compared with the limit is what brk() commits, for every   *)
(* page size and every width of a size_t.                                   *)
THEOREM GrowthIsChecked == SafetySpec => BrkCommitsWhatWasChecked
<1>1. IInv /\ [Next]_vars =>
        [\A t \in Tasks : BrkGrow(t) => total_vm'[mm[t]] * PageSize = checked[t]]_vars
  BY GrowthIsWhatWasAsked
<1>2. QED  BY <1>1, Invariant, PTL DEF SafetySpec, BrkCommitsWhatWasChecked

-----------------------------------------------------------------------------
(* The allocators drive the registry as its specification allows. *)

LEMMA RegistryStarts == Init => Registry!Init
<1> SUFFICES ASSUME Init  PROVE Registry!Init
  OBVIOUS
<1>1. 1 \in 0..MaxVm
  BY RegistryAssumption, BrkAssumption
<1>2. /\ exists \in SUBSET Tasks /\ mm \in [Tasks -> Mms \cup {NoMM}]
      /\ \A t \in Tasks : t \notin exists => mm[t] = NoMM
      /\ total_vm \in [Mms -> 0..MaxVm]
  BY <1>1 DEF Init
<1>3. QED  BY <1>2 DEF Init, Registry!Init

LEMMA RegistryStutters ==
  ASSUME UNCHANGED gateVars  PROVE UNCHANGED Registry!vars
  BY DEF gateVars, registryVars, callVars, Registry!vars, Registry!registryVars,
         Registry!taskVars, Registry!callVars

(* The only thing of the registry's an allocator writes is total_vm.        *)
LEMMA AccountIsResize ==
  ASSUME TypeOK, TypeOK', NEW m \in Mms, NEW pages,
         total_vm' = [total_vm EXCEPT ![m] = pages],
         UNCHANGED <<registryVars, exists, mm, callVars>>
  PROVE  Registry!Resize(m) \/ UNCHANGED Registry!vars
<1>1. total_vm \in [Mms -> 0..MaxVm] /\ total_vm' \in [Mms -> 0..MaxVm]
  BY DEF TypeOK
<1>2. pages \in 0..MaxVm
  BY <1>1
<1>3. UNCHANGED <<Registry!registryVars, Registry!taskVars, Registry!callVars>>
  BY DEF registryVars, callVars, Registry!registryVars, Registry!taskVars,
         Registry!callVars
<1>4. CASE pages = total_vm[m]
  <2>1. total_vm' = total_vm
    BY <1>1, <1>4
  <2>2. QED  BY <1>3, <2>1 DEF Registry!vars
<1>5. CASE pages # total_vm[m]
  BY <1>2, <1>3, <1>5 DEF Registry!Resize
<1>6. QED  BY <1>4, <1>5

LEMMA CheckIsEntry ==
  ASSUME NEW t \in Tasks, NEW size \in 0..(SizeMod - 1), Registry!CheckEnter(t, size)
  PROVE  Registry!Next
<1>1. size \in SizeArgs
  BY BrkAssumption
<1>2. Registry!Enter(t)
  BY <1>1 DEF Registry!Enter
<1>3. QED  BY <1>2 DEF Registry!Next

LEMMA BrkDrivesRegistry ==
  ASSUME IInv, IInv', NEW t \in Tasks, BrkStep(t)
  PROVE  Registry!Next \/ UNCHANGED Registry!vars
<1>1. CASE UNCHANGED gateVars
  BY <1>1, RegistryStutters
<1>2. CASE BrkAsk(t)
  <2>1. apc[t] = "brk_ask" /\ Registry!CheckEnter(t, BrkRequest(brk[mm[t]], arg[t]))
    BY <1>2 DEF BrkAsk
  <2>2. apc[t] \in HoldingApcs /\ apc[t] \in BrkApcs
    BY <2>1 DEF HoldingApcs, BrkApcs
  <2>3. arg[t] \in BrkArgs /\ brk[mm[t]] \in BrkArgs \cup {0}
    BY <2>2, InvParts, Holding, CountsOf DEF LocalsHold
  <2>4. BrkRequest(brk[mm[t]], arg[t]) \in 0..(SizeMod - 1)
    BY <2>3, RequestIsSize
  <2>5. QED  BY <2>1, <2>4, CheckIsEntry
<1>3. CASE BrkDenied(t) \/ BrkAccepted(t)
  BY <1>3 DEF BrkDenied, BrkAccepted, Registry!Step, Registry!Next
<1>4. ASSUME NEW gained, NEW lost, apc[t] \in HoldingApcs, Account(t, gained, lost)
      PROVE  Registry!Next \/ UNCHANGED Registry!vars
  <2>1. mm[t] \in Mms /\ TypeOK /\ TypeOK'
    BY <1>4, Holding DEF IInv
  <2>2. Registry!Resize(mm[t]) \/ UNCHANGED Registry!vars
    BY <1>4, <2>1, AccountIsResize DEF Account
  <2>3. QED  BY <2>1, <2>2 DEF Registry!Next, Registry!Environment
<1>5. CASE \E pages \in 1..MaxVm : BrkUnmap(t, pages)
  BY <1>4, <1>5 DEF BrkUnmap, HoldingApcs
<1>6. CASE BrkGrow(t)
  BY <1>4, <1>6 DEF BrkGrow, HoldingApcs
<1>7. QED
  BY <1>1, <1>2, <1>3, <1>5, <1>6
     DEF BrkStep, BrkLock, BrkRefused, BrkSamePage, BrkShrink, BrkUnmapFails, BrkGrowFails

LEMMA MmapDrivesRegistry ==
  ASSUME IInv, IInv', NEW t \in Tasks, MmapStep(t)
  PROVE  Registry!Next \/ UNCHANGED Registry!vars
<1>1. CASE UNCHANGED gateVars
  BY <1>1, RegistryStutters
<1>2. CASE MmapDenied(t) \/ MmapAccepted(t)
  BY <1>2 DEF MmapDenied, MmapAccepted, Registry!Step, Registry!Next
<1>3. ASSUME NEW gained, NEW lost, apc[t] \in HoldingApcs, Account(t, gained, lost)
      PROVE  Registry!Next \/ UNCHANGED Registry!vars
  <2>1. mm[t] \in Mms /\ TypeOK /\ TypeOK'
    BY <1>3, Holding DEF IInv
  <2>2. Registry!Resize(mm[t]) \/ UNCHANGED Registry!vars
    BY <1>3, <2>1, AccountIsResize DEF Account
  <2>3. QED  BY <2>1, <2>2 DEF Registry!Next, Registry!Environment
<1>4. CASE \E covered \in 0..MaxVm : MmapUnmapOld(t, covered)
  BY <1>3, <1>4 DEF MmapUnmapOld, HoldingApcs
<1>5. CASE MmapAccount(t)
  BY <1>3, <1>5 DEF MmapAccount, HoldingApcs
<1>6. QED
  BY <1>1, <1>2, <1>4, <1>5 DEF MmapStep, MmapLock, MmapFails, MmapFailsLate

LEMMA EntriesDriveRegistry ==
  ASSUME IInv, IInv', NEW t \in Tasks, Enter(t)
  PROVE  Registry!Next \/ UNCHANGED Registry!vars
<1>1. CASE RegistryEnter(t)
  <2>1. Tasks \subseteq Registry!PidArgs
    BY DEF Registry!PidArgs
  <2>2. Registry!Enter(t)
    BY <1>1, <2>1 DEF RegistryEnter, Registry!Enter
  <2>3. QED  BY <2>2 DEF Registry!Next
<1>2. CASE \E newbrk \in BrkArgs : BrkEnter(t, newbrk)
  BY <1>2, RegistryStutters DEF BrkEnter
<1>3. CASE \E len \in MmapLens : MmapAsk(t, len)
  BY <1>3, CheckIsEntry, BrkAssumption DEF MmapAsk
<1>4. ASSUME NEW gained, NEW lost, LockFree(t), Account(t, gained, lost)
      PROVE  Registry!Next \/ UNCHANGED Registry!vars
  <2>1. mm[t] \in Mms /\ TypeOK /\ TypeOK'
    BY <1>4, FreeSpace DEF IInv
  <2>2. Registry!Resize(mm[t]) \/ UNCHANGED Registry!vars
    BY <1>4, <2>1, AccountIsResize DEF Account
  <2>3. QED  BY <2>1, <2>2 DEF Registry!Next, Registry!Environment
<1>5. CASE (\E len \in MmapLens : matus_tamalloc(t, len))
             \/ (\E pages \in 1..MaxVm : munmap(t, pages)) \/ expand_stack(t)
  BY <1>4, <1>5 DEF matus_tamalloc, munmap, expand_stack
<1>6. QED  BY <1>1, <1>2, <1>3, <1>5 DEF Enter

LEMMA StepDrivesRegistry ==
  IInv /\ IInv' /\ [Next]_vars => [Registry!Next]_(Registry!vars)
<1> SUFFICES ASSUME IInv, IInv', [Next]_vars
             PROVE  Registry!Next \/ UNCHANGED Registry!vars
  OBVIOUS
<1>1. CASE UNCHANGED vars
  BY <1>1, RegistryStutters DEF vars
<1>2. ASSUME NEW t \in Tasks, Step(t)
      PROVE  Registry!Next \/ UNCHANGED Registry!vars
  <2>1. CASE RegistryStep(t)
    BY <2>1 DEF RegistryStep, Registry!Next
  <2>2. QED  BY <1>2, <2>1, BrkDrivesRegistry, MmapDrivesRegistry DEF Step
<1>3. ASSUME NEW t \in Tasks, Interrupted(t) \/ Exit(t) \/ Reap(t)
      PROVE  Registry!Next \/ UNCHANGED Registry!vars
  BY <1>3, RegistryStutters
     DEF Interrupted, Exit, Reap, Registry!Next, Registry!Environment
<1>4. ASSUME NEW t \in Tasks, NEW m \in Mms, Spawn(t, m)
      PROVE  Registry!Next \/ UNCHANGED Registry!vars
  BY <1>4 DEF Spawn, Registry!Next, Registry!Environment
<1>5. ASSUME NEW m \in Mms, exit_mmap(m)
      PROVE  Registry!Next \/ UNCHANGED Registry!vars
  <2>1. TypeOK /\ TypeOK'
    BY DEF IInv
  <2>2. /\ total_vm' = [total_vm EXCEPT ![m] = 1]
        /\ UNCHANGED <<registryVars, exists, mm, callVars>>
    BY <1>5 DEF exit_mmap
  <2>3. Registry!Resize(m) \/ UNCHANGED Registry!vars
    BY <2>1, <2>2, AccountIsResize
  <2>4. QED  BY <2>3 DEF Registry!Next, Registry!Environment
<1>6. QED
  BY <1>1, <1>2, <1>3, <1>4, <1>5, EntriesDriveRegistry DEF Next

(* Every behaviour of the allocators is, for the registry, one that         *)
(* MemoryLimits allows: what is proved of the registry on its own, with     *)
(* address spaces that change size at any time, holds under brk() and       *)
(* mmap() too.                                                              *)
THEOREM RegistryIsDriven == SafetySpec => DrivesRegistry
<1>1. QED
  BY RegistryStarts, StepDrivesRegistry, Invariant, PTL
     DEF SafetySpec, DrivesRegistry, Registry!SafetySpec
=============================================================================
