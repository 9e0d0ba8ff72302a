---------------------------- MODULE TakeAllLocks ----------------------------
(***************************************************************************)
(* mm_take_all_locks() and mm_drop_all_locks() (mm/mmap.c): one caller at  *)
(* a time locks every area of its address space, the mappings of their     *)
(* files and the roots of their anon_vmas.  A lock that several areas      *)
(* share is taken once: a bit remembers it, AS_MM_ALL_LOCKS of a mapping   *)
(* and the lowest bit of the rb_root of a root.  Others change an area     *)
(* under the same locks, vma_prepare() to vma_complete(), or fault in one. *)
(*                                                                         *)
(* The areas of an address space stay what they are, for nobody but the    *)
(* caller may change them; locks are taken for writing.                    *)
(***************************************************************************)
EXTENDS Naturals, Sequences

CONSTANTS
  Takers,   \* threads that call mm_take_all_locks()
  Others,   \* threads that change an area or fault
  NoThread,
  Mms,
  Files,    \* address_spaces
  NoFile,
  Roots,    \* roots of anon_vmas
  Vmas      \* [Mms -> sequences of areas]

ASSUME LocksAssumption ==
  /\ Takers \cap Others = {} /\ NoThread \notin Takers \cup Others
  /\ NoFile \notin Files \cup Roots /\ Files \cap Roots = {}
  /\ (Files \cup Roots) \cap Mms = {}
  /\ Mms # {} /\ DOMAIN Vmas = Mms
  /\ \A m \in Mms : Vmas[m] \in Seq([file : Files \cup {NoFile}, hugetlb : BOOLEAN,
                                     chain : Seq(Roots)]) /\ Vmas[m] # <<>>

VARIABLES
  mm_all_locks_mutex,  \* its owner
  owner,               \* of each mmap_lock, i_mmap_rwsem and root->rwsem
  bit,                 \* of each mapping and root: taken by mm_take_all_locks()
  marked,              \* areas marked by vma_start_write()
  call                 \* what each thread is doing

vars == <<mm_all_locks_mutex, owner, bit, marked, call>>

Threads == Takers \cup Others
Rwsems  == Mms \cup Files \cup Roots
Areas   == UNION {{m} \X DOMAIN Vmas[m] : m \in Mms}

(* A thread is in a pass over the areas of mm, at the j-th lock of the i-th. *)
NoCall(m) == [op |-> "idle", mm |-> m, i |-> 1, j |-> 1, step |-> "test"]
Passes    == {"vmas", "hugetlb", "files", "anon", "drop"}
Ops       == Passes \cup {"idle", "enter", "held", "leave", "adjust", "fault"}
Steps     == {"test", "first", "second", "vma", "file", "root", "changed", "unlock"}

Vma(c) == Vmas[c.mm][c.i]

FileOf(v) == IF v.file = NoFile THEN <<>> ELSE <<v.file>>

(* Faulty variant: the third pass is for the same files as the second. *)
LocksOf_HugetlbTwice(op, v) ==
  CASE op \in {"hugetlb", "files"} -> IF v.hugetlb THEN FileOf(v) ELSE <<>>
    [] op = "anon"                 -> v.chain
    [] op = "drop"                 -> v.chain \o FileOf(v)
    [] OTHER                       -> <<>>

(* The locks of an area that a pass takes, or drops. *)
LocksOf(op, v) ==
  CASE op = "hugetlb" -> IF v.hugetlb THEN FileOf(v) ELSE <<>>
    [] op = "files"   -> IF v.hugetlb THEN <<>> ELSE FileOf(v)
    [] op = "anon"    -> v.chain
    [] op = "drop"    -> v.chain \o FileOf(v)
    [] OTHER          -> <<>>

After == [vmas |-> "hugetlb", hugetlb |-> "files", files |-> "anon", anon |-> "held",
          drop |-> "leave"]

(* The next lock of the area, the next area, the next pass. *)
Advance(c) ==
  CASE c.j < Len(LocksOf(c.op, Vma(c))) -> [c EXCEPT !.j = @ + 1, !.step = "test"]
    [] OTHER -> IF c.i < Len(Vmas[c.mm]) THEN [c EXCEPT !.i = @ + 1, !.j = 1, !.step = "test"]
                ELSE [NoCall(c.mm) EXCEPT !.op = After[c.op]]

Become(t, c) == call' = [call EXCEPT ![t] = c]
Step(t, s)   == Become(t, [call[t] EXCEPT !.step = s])
GoOn(t)      == Become(t, Advance(call[t]))

Down(t, l) == owner[l] = NoThread /\ owner' = [owner EXCEPT ![l] = t]
Up(l)      == owner' = [owner EXCEPT ![l] = NoThread]
Set(l)     == bit' = [bit EXCEPT ![l] = TRUE]
Clear(l)   == bit' = [bit EXCEPT ![l] = FALSE]

(* The writer of mmap_lock waits for the faults in the area, and no more    *)
(* start in it until mmap_lock is dropped.                                  *)
vma_start_write(m, i) ==
  /\ \A t \in Threads : ~(call[t].op = "fault" /\ call[t].mm = m /\ call[t].i = i)
  /\ marked' = marked \cup {<<m, i>>}

MmapUnlock(m) == Up(m) /\ marked' = {a \in marked : a[1] # m}

-----------------------------------------------------------------------------
(* mm_take_all_locks() *)

(* The caller takes mmap_lock for writing. *)
TakeEnter(t, m) ==
  /\ call[t].op = "idle" /\ Down(t, m) /\ Become(t, [NoCall(m) EXCEPT !.op = "enter"])
  /\ UNCHANGED <<mm_all_locks_mutex, bit, marked>>

(* Faulty variant: two callers at a time. *)
TakeMutex_Shared(t) ==
  /\ call[t].op = "enter" /\ mm_all_locks_mutex' = t
  /\ Become(t, [call[t] EXCEPT !.op = "vmas"])
  /\ UNCHANGED <<owner, bit, marked>>

TakeMutex(t) ==
  /\ call[t].op = "enter" /\ mm_all_locks_mutex = NoThread
  /\ mm_all_locks_mutex' = t /\ Become(t, [call[t] EXCEPT !.op = "vmas"])
  /\ UNCHANGED <<owner, bit, marked>>

(* Faulty variant: tries again, with the signal still pending. *)
Interrupted_Restarts(t) ==
  /\ call[t].op \in Passes \ {"drop"} /\ call[t].j = 1 /\ call[t].step = "test"
  /\ Become(t, [NoCall(call[t].mm) EXCEPT !.op = "vmas"])
  /\ UNCHANGED <<mm_all_locks_mutex, owner, bit, marked>>

(* Before each area of each pass: a signal is pending, and all is dropped. *)
Interrupted(t) ==
  /\ call[t].op \in Passes \ {"drop"} /\ call[t].j = 1 /\ call[t].step = "test"
  /\ Become(t, [NoCall(call[t].mm) EXCEPT !.op = "drop"])
  /\ UNCHANGED <<mm_all_locks_mutex, owner, bit, marked>>

MarkVma(t) ==
  /\ call[t].op = "vmas" /\ vma_start_write(call[t].mm, call[t].i) /\ GoOn(t)
  /\ UNCHANGED <<mm_all_locks_mutex, owner, bit>>

SkipVma(t) ==
  /\ call[t].op \in Passes \ {"vmas"} /\ LocksOf(call[t].op, Vma(call[t])) = <<>>
  /\ GoOn(t) /\ UNCHANGED <<mm_all_locks_mutex, owner, bit, marked>>

(* The step of t on lock l of its pass; the bit was `is' when it was tested. *)
At(t, ops, kind, l, step) ==
  /\ call[t].op \in ops /\ call[t].step = step
  /\ call[t].j \in DOMAIN LocksOf(call[t].op, Vma(call[t]))
  /\ l = LocksOf(call[t].op, Vma(call[t]))[call[t].j] /\ l \in kind
Test(t, l, is) ==
  /\ IF bit[l] = is THEN Step(t, "first") ELSE GoOn(t)
  /\ UNCHANGED <<owner, bit>>

vm_lock_mapping(t, l) ==
  /\ \/ At(t, {"hugetlb", "files"}, Files, l, "test")   /\ Test(t, l, FALSE)
     \/ At(t, {"hugetlb", "files"}, Files, l, "first")  /\ Set(l) /\ Step(t, "second")
                                                         /\ UNCHANGED owner
     \/ At(t, {"hugetlb", "files"}, Files, l, "second") /\ Down(t, l) /\ GoOn(t)
                                                         /\ UNCHANGED bit
  /\ UNCHANGED <<mm_all_locks_mutex, marked>>

vm_lock_anon_vma(t, l) ==
  /\ \/ At(t, {"anon"}, Roots, l, "test")   /\ Test(t, l, FALSE)
     \/ At(t, {"anon"}, Roots, l, "first")  /\ Down(t, l) /\ Step(t, "second") /\ UNCHANGED bit
     \/ At(t, {"anon"}, Roots, l, "second") /\ Set(l) /\ GoOn(t) /\ UNCHANGED owner
  /\ UNCHANGED <<mm_all_locks_mutex, marked>>

-----------------------------------------------------------------------------
(* mm_drop_all_locks() *)

(* The caller has done what it wanted the locks for. *)
Drop(t) ==
  /\ call[t].op = "held" /\ Become(t, [call[t] EXCEPT !.op = "drop"])
  /\ UNCHANGED <<mm_all_locks_mutex, owner, bit, marked>>

(* Faulty variant: the root is unlocked before the bit is cleared. *)
vm_unlock_anon_vma_UnlockFirst(t, l) ==
  /\ \/ At(t, {"drop"}, Roots, l, "test")   /\ Test(t, l, TRUE)
     \/ At(t, {"drop"}, Roots, l, "first")  /\ Up(l) /\ Step(t, "second") /\ UNCHANGED bit
     \/ At(t, {"drop"}, Roots, l, "second") /\ Clear(l) /\ GoOn(t) /\ UNCHANGED owner
  /\ UNCHANGED <<mm_all_locks_mutex, marked>>

vm_unlock_anon_vma(t, l) ==
  /\ \/ At(t, {"drop"}, Roots, l, "test")   /\ Test(t, l, TRUE)
     \/ At(t, {"drop"}, Roots, l, "first")  /\ Clear(l) /\ Step(t, "second") /\ UNCHANGED owner
     \/ At(t, {"drop"}, Roots, l, "second") /\ Up(l) /\ GoOn(t) /\ UNCHANGED bit
  /\ UNCHANGED <<mm_all_locks_mutex, marked>>

(* Faulty variant: the bit stays. *)
vm_unlock_mapping_KeepsBit(t, l) ==
  /\ \/ At(t, {"drop"}, Files, l, "test")   /\ Test(t, l, TRUE)
     \/ At(t, {"drop"}, Files, l, "first")  /\ Up(l) /\ GoOn(t) /\ UNCHANGED bit
  /\ UNCHANGED <<mm_all_locks_mutex, marked>>

vm_unlock_mapping(t, l) ==
  /\ \/ At(t, {"drop"}, Files, l, "test")   /\ Test(t, l, TRUE)
     \/ At(t, {"drop"}, Files, l, "first")  /\ Up(l) /\ Step(t, "second") /\ UNCHANGED bit
     \/ At(t, {"drop"}, Files, l, "second") /\ Clear(l) /\ GoOn(t) /\ UNCHANGED owner
  /\ UNCHANGED <<mm_all_locks_mutex, marked>>

(* The mutex is dropped last, and then the caller drops mmap_lock. *)
DropMutex(t) ==
  /\ call[t].op = "leave" /\ mm_all_locks_mutex = t
  /\ mm_all_locks_mutex' = NoThread /\ UNCHANGED <<owner, bit, marked, call>>

TakeLeave(t) ==
  /\ call[t].op = "leave" /\ mm_all_locks_mutex # t
  /\ MmapUnlock(call[t].mm) /\ Become(t, NoCall(call[t].mm))
  /\ UNCHANGED <<mm_all_locks_mutex, bit>>

-----------------------------------------------------------------------------
(* The others *)

InStep(t, op, step) == call[t].op = op /\ call[t].step = step

(* Between vma_prepare() and vma_complete() an area is changed under its    *)
(* mapping and then its root.                                               *)
AdjustEnter(t, m, i) ==
  /\ call[t].op = "idle" /\ Down(t, m)
  /\ Become(t, [NoCall(m) EXCEPT !.op = "adjust", !.i = i, !.step = "vma"])
  /\ UNCHANGED <<mm_all_locks_mutex, bit, marked>>

AdjustMark(t) ==
  /\ InStep(t, "adjust", "vma") /\ vma_start_write(call[t].mm, call[t].i) /\ Step(t, "file")
  /\ UNCHANGED <<mm_all_locks_mutex, owner, bit>>

Optionally(t, l, nothing) == IF l = nothing THEN UNCHANGED owner ELSE Down(t, l)
RootOf(v)                 == IF v.chain = <<>> THEN NoFile ELSE v.chain[1]

vma_prepare(t) ==
  /\ \/ InStep(t, "adjust", "file") /\ Optionally(t, Vma(call[t]).file, NoFile)
                                     /\ Step(t, "root")
     \/ InStep(t, "adjust", "root") /\ Optionally(t, RootOf(Vma(call[t])), NoFile)
                                     /\ Step(t, "changed")
  /\ UNCHANGED <<mm_all_locks_mutex, bit, marked>>

Undo(l) == IF l = NoFile THEN UNCHANGED owner ELSE Up(l)

vma_complete(t) ==
  /\ \/ InStep(t, "adjust", "changed") /\ Undo(RootOf(Vma(call[t]))) /\ Step(t, "unlock")
     \/ InStep(t, "adjust", "unlock")  /\ Undo(Vma(call[t]).file)    /\ Step(t, "test")
  /\ UNCHANGED <<mm_all_locks_mutex, bit, marked>>

AdjustLeave(t) ==
  /\ InStep(t, "adjust", "test") /\ MmapUnlock(call[t].mm)
  /\ Become(t, NoCall(call[t].mm)) /\ UNCHANGED <<mm_all_locks_mutex, bit>>

WriterWaits(m, i) ==
  \E t \in Threads : call[t].mm = m /\ call[t].i = i
                      /\ (call[t].op = "vmas" \/ InStep(t, "adjust", "vma"))

(* A fault takes the lock of its area if no writer has it or waits for it,  *)
(* and takes the root for a new page.                                       *)
FaultEnter(t, m, i) ==
  /\ call[t].op = "idle" /\ <<m, i>> \notin marked /\ ~WriterWaits(m, i)
  /\ Become(t, [NoCall(m) EXCEPT !.op = "fault", !.i = i, !.step = "root"])
  /\ UNCHANGED <<mm_all_locks_mutex, owner, bit, marked>>

FaultRoot(t) ==
  /\ InStep(t, "fault", "root") /\ Optionally(t, RootOf(Vma(call[t])), NoFile)
  /\ Step(t, "changed") /\ UNCHANGED <<mm_all_locks_mutex, bit, marked>>

FaultLeave(t) ==
  /\ InStep(t, "fault", "changed") /\ Undo(RootOf(Vma(call[t])))
  /\ Become(t, NoCall(call[t].mm)) /\ UNCHANGED <<mm_all_locks_mutex, bit, marked>>

-----------------------------------------------------------------------------
FirstMm == CHOOSE m \in Mms : TRUE

Init ==
  /\ mm_all_locks_mutex = NoThread /\ owner = [l \in Rwsems |-> NoThread]
  /\ bit = [l \in Files \cup Roots |-> FALSE] /\ marked = {}
  /\ call = [t \in Threads |-> NoCall(FirstMm)]

Pass(t) ==
  \/ MarkVma(t) \/ SkipVma(t)
  \/ \E l \in Files : vm_lock_mapping(t, l) \/ vm_unlock_mapping(t, l)
  \/ \E l \in Roots : vm_lock_anon_vma(t, l) \/ vm_unlock_anon_vma(t, l)

Take(t)   == TakeMutex(t) \/ Pass(t) \/ Drop(t) \/ DropMutex(t) \/ TakeLeave(t)
Adjust(t) == AdjustMark(t) \/ vma_prepare(t) \/ vma_complete(t) \/ AdjustLeave(t)
FaultIn(t) == FaultRoot(t) \/ FaultLeave(t)

Next ==
  \/ \E t \in Takers : (\E m \in Mms : TakeEnter(t, m)) \/ Take(t) \/ Interrupted(t)
  \/ \E t \in Others :
       \/ \E a \in Areas : AdjustEnter(t, a[1], a[2]) \/ FaultEnter(t, a[1], a[2])
       \/ Adjust(t) \/ FaultIn(t)

Spec == Init /\ [][Next]_vars

(* Locks are handed to who waits longest; who need not wait goes on. *)
Fairness ==
  /\ \A t \in Takers : SF_vars(Take(t))
  /\ \A t \in Others : SF_vars(Adjust(t)) /\ SF_vars(FaultIn(t))

FairSpec == Spec /\ Fairness

-----------------------------------------------------------------------------
(* Properties *)

(* Every variable keeps its type; no pass runs past the areas.              *)
TypeOK ==
  /\ mm_all_locks_mutex \in Takers \cup {NoThread}
  /\ owner \in [Rwsems -> Threads \cup {NoThread}]
  /\ bit \in [Files \cup Roots -> BOOLEAN]
  /\ marked \subseteq Areas
  /\ call \in [Threads -> [op : Ops, mm : Mms, i : Nat \ {0}, j : Nat \ {0}, step : Steps]]
  /\ \A t \in Threads :
       /\ call[t].i \in DOMAIN Vmas[call[t].mm]
       /\ call[t].j \in 1..(Len(LocksOf(call[t].op, Vma(call[t]))) + 1)

(* "... so the users using the anon_vma->rb_root will never see our bit":   *)
(* whoever else locks a root, to change an area or in a fault, finds its    *)
(* rb_root without the bit.                                                 *)
NobodySeesOurBit ==
  \A l \in Roots : bit[l] => owner[l] # NoThread /\ owner[l] = mm_all_locks_mutex

(* The BUG()s are not reached: what a bit was when it was tested it is when *)
(* it is set or cleared, for only the owner of the mutex changes it.        *)
BitsStayAsTested ==
  \A t \in Takers, l \in Files \cup Roots :
    /\ At(t, {"hugetlb", "files"}, Files, l, "first") => ~bit[l]
    /\ At(t, {"anon"}, Roots, l, "first") \/ At(t, {"anon"}, Roots, l, "second") => ~bit[l]
    /\ At(t, {"drop"}, Roots, l, "first") => bit[l]
    /\ At(t, {"drop"}, Files, l, "first") \/ At(t, {"drop"}, Files, l, "second") => bit[l]

(* A call that succeeds has every lock of its address space, however many   *)
(* areas share one: no area is being changed or faulted in, and nobody else *)
(* has locked a file or a root of one.                                      *)
AllLocksAreHeld ==
  \A t \in Takers : call[t].op = "held" =>
    LET m == call[t].mm IN
    \A i \in DOMAIN Vmas[m] :
      /\ \A k \in DOMAIN LocksOf("drop", Vmas[m][i]) : owner[LocksOf("drop", Vmas[m][i])[k]] = t
      /\ \A u \in Others : call[u].op \in {"adjust", "fault"} => call[u].mm # m \/ call[u].i # i

(* A call that fails or is done leaves nothing locked and no bit set,       *)
(* wherever a signal has stopped it: the next caller would take a bit it    *)
(* finds for a lock it has.                                                 *)
NothingIsLeft ==
  mm_all_locks_mutex = NoThread =>
    (\A l \in Files \cup Roots : ~bit[l]) /\ (\A l \in Files \cup Roots : owner[l] \notin Takers)

(* No call waits for ever, though callers in two address spaces and others  *)
(* that want the same locks come back again and again.                      *)
CallsEnd == \A t \in Takers : call[t].op = "enter" ~> call[t].op = "idle"
=============================================================================
