------------------------ MODULE TakeAllLocks_proofs ------------------------
(***************************************************************************)
(* Proofs about TakeAllLocks, for any threads, address spaces, files and   *)
(* roots, shared by areas in any way.                                      *)
(*                                                                         *)
(* The inductive invariant says, of the one caller that has                *)
(* mm_all_locks_mutex, which locks it has: those whose bit is set, but for *)
(* the lock it is taking or dropping right now; all that its passes have   *)
(* come by; and none that its dropping pass has come by.                   *)
(***************************************************************************)
EXTENDS TakeAllLocks, SequenceTheorems, TLAPS

Taking   == {"vmas", "hugetlb", "files", "anon"}
LockOps  == {"hugetlb", "files", "anon"}
Shared   == Files \cup Roots
Area     == [file : Files \cup {NoFile}, hugetlb : BOOLEAN, chain : Seq(Roots)]

(* Takers and others keep to their own calls; a call that begins a pass     *)
(* begins with the first lock of the first area.                            *)
Roles ==
  /\ \A t \in Takers :
       /\ call[t].op \in Passes \cup {"idle", "enter", "held", "leave"}
       /\ call[t].op \in {"enter", "held"} => call[t].i = 1 /\ call[t].j = 1
       /\ call[t].op \in {"enter", "held", "vmas"} => call[t].step = "test"
  /\ \A t \in Others : call[t].op \in {"idle", "adjust", "fault"}

(* Whoever is between lock and unlock of the mutex, or of an mmap_lock, is  *)
(* its owner.                                                               *)
MutexIsHeld ==
  \A t \in Takers :
    /\ call[t].op \in Passes \cup {"held"} => mm_all_locks_mutex = t
    /\ mm_all_locks_mutex = t => call[t].op \in Passes \cup {"held", "leave"}
MmapLockIsHeld ==
  \A t \in Threads : call[t].op \notin {"idle", "fault"} => owner[call[t].mm] = t

(* A marked area has no faults, and those a caller has come by are marked.  *)
MarksKeepFaultsOut ==
  \A t \in Threads : call[t].op = "fault" => <<call[t].mm, call[t].i>> \notin marked
AreasAreMarked ==
  \A t \in Takers : \A i \in DOMAIN Vmas[call[t].mm] :
    call[t].op \in LockOps \cup {"held"} \/ (call[t].op = "vmas" /\ i < call[t].i)
      => <<call[t].mm, i>> \in marked

(* The others hold the file and the root of the area they change or fault.  *)
OthersHold ==
  \A t \in Others :
    LET v == Vma(call[t]) IN
    /\ call[t].op = "adjust" /\ call[t].step \in {"root", "changed", "unlock"}
         => v.file = NoFile \/ owner[v.file] = t
    /\ call[t].op \in {"adjust", "fault"} /\ call[t].step = "changed"
         => RootOf(v) = NoFile \/ owner[RootOf(v)] = t

(* A file: the bit first when it is taken, the lock first when it is        *)
(* dropped; a taker has it when the bit is set, but between the two.        *)
FilesAreHeld ==
  \A l \in Files :
    /\ \A t \in Takers :
         /\ owner[l] = t => bit[l] /\ mm_all_locks_mutex = t
         /\ At(t, {"hugetlb", "files"}, Files, l, "first")  => ~bit[l]
         /\ At(t, {"hugetlb", "files"}, Files, l, "second") => bit[l]
         /\ At(t, {"drop"}, Files, l, "first")              => bit[l] /\ owner[l] = t
         /\ At(t, {"drop"}, Files, l, "second")             => bit[l] /\ owner[l] # t
    /\ bit[l] => mm_all_locks_mutex \in Takers
                 /\ \/ owner[l] = mm_all_locks_mutex
                    \/ At(mm_all_locks_mutex, {"hugetlb", "files", "drop"}, Files, l, "second")

(* A root: the bit is set last and cleared first.                           *)
RootsAreHeld ==
  \A l \in Roots :
    /\ \A t \in Takers :
         /\ owner[l] = t => /\ mm_all_locks_mutex = t
                            /\ bit[l] \/ At(t, {"anon", "drop"}, Roots, l, "second")
         /\ At(t, {"anon"}, Roots, l, "first")          => ~bit[l]
         /\ At(t, {"anon", "drop"}, Roots, l, "second") => ~bit[l] /\ owner[l] = t
         /\ At(t, {"drop"}, Roots, l, "first")          => bit[l]
    /\ bit[l] => mm_all_locks_mutex \in Takers /\ owner[l] = mm_all_locks_mutex

(* The passes of a call that have come by the k-th lock of area i.          *)
Earlier(op) ==
  CASE op = "files" -> {"hugetlb"}
    [] op = "anon"  -> {"hugetlb", "files"}
    [] op = "held"  -> {"hugetlb", "files", "anon"}
    [] OTHER        -> {}
Before(c, i, k)    == i < c.i \/ (i = c.i /\ k < c.j)
Passed(c, p, i, k) == p \in Earlier(c.op) \/ (p = c.op /\ Before(c, i, k))

TakenSoFar ==
  \A t \in Takers, p \in LockOps :
    \A i \in DOMAIN Vmas[call[t].mm] : \A k \in DOMAIN LocksOf(p, Vmas[call[t].mm][i]) :
      Passed(call[t], p, i, k) => owner[LocksOf(p, Vmas[call[t].mm][i])[k]] = t

(* A bit that is set belongs to a lock the dropping pass will come to.      *)
ToBeDropped(c, l) ==
  \E i \in DOMAIN Vmas[c.mm] : \E k \in DOMAIN LocksOf("drop", Vmas[c.mm][i]) :
    /\ l = LocksOf("drop", Vmas[c.mm][i])[k]
    /\ c.op = "drop" => ~Before(c, i, k)

LeftToDrop ==
  \A l \in Shared : bit[l] =>
    \A t \in Takers : mm_all_locks_mutex = t =>
      call[t].op # "leave" /\ ToBeDropped(call[t], l)

IInv == /\ TypeOK /\ Roles /\ MutexIsHeld /\ MmapLockIsHeld
        /\ MarksKeepFaultsOut /\ AreasAreMarked /\ OthersHold
        /\ FilesAreHeld /\ RootsAreHeld /\ TakenSoFar /\ LeftToDrop

-----------------------------------------------------------------------------
(* Areas and their locks *)

LEMMA VmasAre ==
  ASSUME NEW m \in Mms
  PROVE  /\ Len(Vmas[m]) \in Nat /\ Len(Vmas[m]) >= 1
         /\ DOMAIN Vmas[m] = 1..Len(Vmas[m])
         /\ \A i \in DOMAIN Vmas[m] : Vmas[m][i] \in Area
<1>1. Vmas[m] \in Seq(Area) /\ Vmas[m] # <<>>
  BY LocksAssumption DEF Area
<1>2. QED  BY <1>1, LenProperties, EmptySeq, ElementOfSeq

LEMMA AreasAre ==
  \A m, i : <<m, i>> \in Areas <=> m \in Mms /\ i \in DOMAIN Vmas[m]
  BY DEF Areas

LEMMA FileOfIs ==
  ASSUME NEW v \in Area
  PROVE  /\ FileOf(v) \in Seq(Files)
         /\ v.file = NoFile => FileOf(v) = <<>>
         /\ v.file # NoFile => v.file \in Files /\ FileOf(v) = <<v.file>>
  BY EmptySeq DEF FileOf, Area

LEMMA LocksAre ==
  ASSUME NEW v \in Area, NEW op
  PROVE  /\ Len(LocksOf(op, v)) \in Nat
         /\ DOMAIN LocksOf(op, v) = 1..Len(LocksOf(op, v))
         /\ LocksOf(op, v) = <<>> <=> Len(LocksOf(op, v)) = 0
         /\ \A k \in DOMAIN LocksOf(op, v) : k \in Nat \ {0} /\ k <= Len(LocksOf(op, v))
         /\ \A k \in DOMAIN LocksOf(op, v) : LocksOf(op, v)[k] \in Shared
         /\ op \in {"hugetlb", "files"} =>
              \A k \in DOMAIN LocksOf(op, v) : LocksOf(op, v)[k] \in Files
         /\ op = "anon" => \A k \in DOMAIN LocksOf(op, v) : LocksOf(op, v)[k] \in Roots
         /\ op \notin LockOps \cup {"drop"} => LocksOf(op, v) = <<>>
<1>1. /\ FileOf(v) \in Seq(Files) /\ v.chain \in Seq(Roots)
      /\ FileOf(v) \in Seq(Shared) /\ v.chain \in Seq(Shared) /\ <<>> \in Seq(Files)
  BY FileOfIs, EmptySeq, ElementOfSeq DEF Area, Shared
<1>2. v.chain \o FileOf(v) \in Seq(Shared)
  BY <1>1, ConcatProperties
<1>3. LocksOf(op, v) \in Seq(Shared)
  BY <1>1, <1>2, EmptySeq DEF LocksOf
<1>4. op \in {"hugetlb", "files"} => LocksOf(op, v) \in Seq(Files)
  BY <1>1 DEF LocksOf
<1>5. op = "anon" => LocksOf(op, v) \in Seq(Roots)
  BY <1>1 DEF LocksOf
<1>6. op \notin LockOps \cup {"drop"} => LocksOf(op, v) = <<>>
  BY DEF LocksOf, LockOps
<1>7. /\ Len(LocksOf(op, v)) \in Nat
      /\ DOMAIN LocksOf(op, v) = 1..Len(LocksOf(op, v))
      /\ LocksOf(op, v) = <<>> <=> Len(LocksOf(op, v)) = 0
  BY <1>3, LenProperties, EmptySeq
<1>8. \A k \in DOMAIN LocksOf(op, v) : k \in Nat \ {0} /\ k <= Len(LocksOf(op, v))
  BY <1>7
<1>9. QED  BY <1>3, <1>4, <1>5, <1>6, <1>7, <1>8, ElementOfSeq

(* What the passes take is what the last one drops. *)
LEMMA TakenAndDropped ==
  ASSUME NEW v \in Area
  PROVE  /\ \A p \in LockOps : \A k \in DOMAIN LocksOf(p, v) :
              \E n \in DOMAIN LocksOf("drop", v) : LocksOf("drop", v)[n] = LocksOf(p, v)[k]
         /\ \A n \in DOMAIN LocksOf("drop", v) : \E p \in LockOps :
              \E k \in DOMAIN LocksOf(p, v) : LocksOf("drop", v)[n] = LocksOf(p, v)[k]
<1> DEFINE ch == v.chain  fi == FileOf(v)  all == LocksOf("drop", v)
<1>1. ch \in Seq(Shared) /\ fi \in Seq(Shared)
  BY FileOfIs, EmptySeq, ElementOfSeq DEF Area, Shared
<1>2. all = ch \o fi /\ LocksOf("anon", v) = ch
  BY DEF LocksOf
<1>3. \/ LocksOf("hugetlb", v) = fi /\ LocksOf("files", v) = <<>>
      \/ LocksOf("files", v) = fi /\ LocksOf("hugetlb", v) = <<>>
  BY DEF LocksOf, Area
<1> HIDE DEF ch, fi, all
<1>4. /\ Len(ch) \in Nat /\ DOMAIN ch = 1..Len(ch)
      /\ Len(fi) \in Nat /\ DOMAIN fi = 1..Len(fi)
  BY <1>1, LenProperties
<1>5. /\ DOMAIN all = 1..(Len(ch) + Len(fi))
      /\ \A k \in 1..(Len(ch) + Len(fi)) :
           all[k] = IF k <= Len(ch) THEN ch[k] ELSE fi[k - Len(ch)]
  BY <1>1, <1>2, <1>4, ConcatProperties, LenProperties
<1>6. DOMAIN <<>> = {}
  BY EmptySeq, LenProperties
<1>7. \A k \in DOMAIN ch : k \in DOMAIN all /\ all[k] = ch[k]
  BY <1>4, <1>5
<1>8. \A k \in DOMAIN fi : k + Len(ch) \in DOMAIN all /\ all[k + Len(ch)] = fi[k]
  BY <1>4, <1>5
<1>9. \A n \in DOMAIN all : \/ n \in DOMAIN ch /\ all[n] = ch[n]
                            \/ n - Len(ch) \in DOMAIN fi /\ all[n] = fi[n - Len(ch)]
  BY <1>4, <1>5
<1>10. \A p \in LockOps : \A k \in DOMAIN LocksOf(p, v) :
         \E n \in DOMAIN all : all[n] = LocksOf(p, v)[k]
  <2>1. \A k \in DOMAIN ch : \E n \in DOMAIN all : all[n] = ch[k]
    BY <1>7
  <2>2. \A k \in DOMAIN fi : \E n \in DOMAIN all : all[n] = fi[k]
    BY <1>8
  <2>3. \A p \in LockOps : LocksOf(p, v) \in {ch, fi, <<>>}
    BY <1>2, <1>3 DEF LockOps
  <2>4. QED  BY <1>6, <2>1, <2>2, <2>3
<1>11. \A n \in DOMAIN all : \E p \in LockOps : \E k \in DOMAIN LocksOf(p, v) :
         all[n] = LocksOf(p, v)[k]
  BY <1>2, <1>3, <1>9 DEF LockOps
<1>12. QED  BY <1>10, <1>11 DEF all

-----------------------------------------------------------------------------
(* The walk over the locks *)

CallType == [op : Ops, mm : Mms, i : Nat \ {0}, j : Nat \ {0}, step : Steps]
Valid(c) == /\ c \in CallType /\ c.i \in DOMAIN Vmas[c.mm]
            /\ c.j \in 1..(Len(LocksOf(c.op, Vma(c))) + 1)
(* Nothing of the area is left to pass but the lock it is at. *)
AtLast(c) == LocksOf(c.op, Vma(c)) = <<>> \/ c.j \in DOMAIN LocksOf(c.op, Vma(c))

LEMMA FirstIsValid ==
  ASSUME NEW m \in Mms, NEW op \in Ops
  PROVE  Valid([NoCall(m) EXCEPT !.op = op])
<1>1. Vmas[m][1] \in Area /\ 1 \in DOMAIN Vmas[m]
  BY VmasAre
<1>2. Len(LocksOf(op, Vmas[m][1])) \in Nat
  BY <1>1, LocksAre
<1>3. QED  BY <1>1, <1>2 DEF Valid, CallType, NoCall, Vma, Ops, Passes, Steps

(* Advance() goes to the next lock, and by no other than the one it was at. *)
LEMMA AdvanceGoesOn ==
  ASSUME NEW c, Valid(c), c.op \in Passes, AtLast(c)
  PROVE  /\ Valid(Advance(c)) /\ Advance(c).mm = c.mm /\ Advance(c).step = "test"
         /\ Advance(c).op = c.op \/ (Advance(c).op = After[c.op] /\ Advance(c).i = 1
                                      /\ Advance(c).j = 1)
         /\ \A p \in LockOps : \A i \in DOMAIN Vmas[c.mm] :
              \A k \in DOMAIN LocksOf(p, Vmas[c.mm][i]) :
                Passed(Advance(c), p, i, k) =>
                  Passed(c, p, i, k) \/ (p = c.op /\ i = c.i /\ k = c.j)
         /\ \A i \in DOMAIN Vmas[c.mm] :
              Advance(c).op \in LockOps \cup {"held"} \/ (Advance(c).op = "vmas" /\ i < Advance(c).i)
                => \/ c.op \in LockOps \cup {"held"} \/ (c.op = "vmas" /\ i < c.i)
                   \/ (c.op = "vmas" /\ i = c.i)
         /\ c.op = "drop" => \A i \in DOMAIN Vmas[c.mm] :
              \A k \in DOMAIN LocksOf("drop", Vmas[c.mm][i]) :
                ~Before(c, i, k) => (Advance(c).op = "drop" /\ ~Before(Advance(c), i, k))
                                    \/ (i = c.i /\ k = c.j)
<1> DEFINE locks == LocksOf(c.op, Vma(c))
           next  == [c EXCEPT !.j = @ + 1, !.step = "test"]
           area  == [c EXCEPT !.i = @ + 1, !.j = 1, !.step = "test"]
           done  == [NoCall(c.mm) EXCEPT !.op = After[c.op]]
<1>1. /\ c \in CallType /\ c.mm \in Mms /\ c.i \in DOMAIN Vmas[c.mm]
      /\ c.i \in Nat \ {0} /\ c.j \in Nat \ {0}
  BY DEF Valid, CallType
<1>2. /\ Len(Vmas[c.mm]) \in Nat /\ DOMAIN Vmas[c.mm] = 1..Len(Vmas[c.mm])
      /\ \A i \in DOMAIN Vmas[c.mm] : Vmas[c.mm][i] \in Area
  BY <1>1, VmasAre
<1>3. \A p : \A i \in DOMAIN Vmas[c.mm] :
        /\ Len(LocksOf(p, Vmas[c.mm][i])) \in Nat
        /\ DOMAIN LocksOf(p, Vmas[c.mm][i]) = 1..Len(LocksOf(p, Vmas[c.mm][i]))
        /\ \A k \in DOMAIN LocksOf(p, Vmas[c.mm][i]) :
             k \in Nat \ {0} /\ k <= Len(LocksOf(p, Vmas[c.mm][i]))
  BY <1>2, LocksAre
<1>4. /\ Len(locks) \in Nat /\ DOMAIN locks = 1..Len(locks)
      /\ c.j <= Len(locks) \/ (Len(locks) = 0 /\ c.j = 1)
  BY <1>1, <1>2, LocksAre DEF Vma, Valid, AtLast
<1>5. CASE c.j < Len(locks)
  <2>1. Advance(c) = next
    BY <1>5 DEF Advance
  <2>2. /\ next \in CallType /\ next.op = c.op /\ next.mm = c.mm /\ next.i = c.i
        /\ next.j = c.j + 1 /\ next.step = "test"
    <3>1. c.j + 1 \in Nat \ {0} /\ "test" \in Steps
      BY <1>1 DEF Steps
    <3>2. QED  BY <1>1, <3>1 DEF CallType
  <2>3. Valid(next)
    BY <1>1, <1>4, <1>5, <2>2 DEF Valid, Vma
  <2> HIDE DEF next
  <2>4. \A i \in DOMAIN Vmas[c.mm] : \A p : \A k \in DOMAIN LocksOf(p, Vmas[c.mm][i]) :
          Before(next, i, k) <=> Before(c, i, k) \/ (i = c.i /\ k = c.j)
    <3>1. SUFFICES ASSUME NEW i \in DOMAIN Vmas[c.mm], NEW k \in Nat
                   PROVE  Before(next, i, k) <=> Before(c, i, k) \/ (i = c.i /\ k = c.j)
      BY <1>3
    <3>2. QED  BY <1>1, <1>2, <2>2 DEF Before
  <2>5. QED  BY <1>1, <2>1, <2>2, <2>3, <2>4 DEF Passed
<1>6. CASE ~(c.j < Len(locks)) /\ c.i < Len(Vmas[c.mm])
  <2>1. Advance(c) = area
    BY <1>6 DEF Advance
  <2>2. /\ area \in CallType /\ area.op = c.op /\ area.mm = c.mm /\ area.i = c.i + 1
        /\ area.j = 1 /\ area.step = "test"
    <3>1. c.i + 1 \in Nat \ {0} /\ 1 \in Nat \ {0} /\ "test" \in Steps
      BY <1>1 DEF Steps
    <3>2. QED  BY <1>1, <3>1 DEF CallType
  <2>3. Valid(area)
    BY <1>1, <1>2, <1>3, <1>6, <2>2 DEF Valid, Vma
  <2> HIDE DEF area
  <2>4. \A i \in DOMAIN Vmas[c.mm] : \A k \in DOMAIN LocksOf(c.op, Vmas[c.mm][i]) :
          Before(area, i, k) <=> Before(c, i, k) \/ (i = c.i /\ k = c.j)
    <3>1. SUFFICES ASSUME NEW i \in DOMAIN Vmas[c.mm], NEW k \in Nat \ {0},
                          i = c.i => k <= Len(locks)
                   PROVE  Before(area, i, k) <=> Before(c, i, k) \/ (i = c.i /\ k = c.j)
      BY <1>3 DEF Vma
    <3>2. c.j >= Len(locks)
      BY <1>1, <1>4, <1>6
    <3>3. QED  BY <1>1, <1>2, <1>4, <2>2, <3>1, <3>2 DEF Before
  <2>5. QED  BY <1>1, <1>2, <2>1, <2>2, <2>3, <2>4 DEF Passed
<1>7. CASE ~(c.j < Len(locks)) /\ ~(c.i < Len(Vmas[c.mm]))
  <2>1. Advance(c) = done
    BY <1>7 DEF Advance
  <2>2. After[c.op] \in Ops
    BY DEF After, Ops, Passes
  <2>3. Valid(done)
    BY <1>1, <2>2, FirstIsValid
  <2>4. /\ done.op = After[c.op] /\ done.mm = c.mm /\ done.i = 1 /\ done.j = 1
        /\ done.step = "test"
    BY DEF NoCall
  <2> HIDE DEF done
  <2>5. \A i \in DOMAIN Vmas[c.mm] : \A k \in DOMAIN LocksOf(c.op, Vmas[c.mm][i]) :
          Before(c, i, k) \/ (i = c.i /\ k = c.j)
    BY <1>1, <1>2, <1>3, <1>4, <1>7 DEF Before, Vma
  <2>6. \A i \in DOMAIN Vmas[c.mm], k \in Nat \ {0} : ~Before(done, i, k)
    BY <1>2, <2>4 DEF Before
  <2>7. \A p \in LockOps : \A i \in DOMAIN Vmas[c.mm] :
          \A k \in DOMAIN LocksOf(p, Vmas[c.mm][i]) : k \in Nat \ {0}
    BY <1>3
  <2>8. \A p \in LockOps : p \in Earlier(done.op) => p \in Earlier(c.op) \/ p = c.op
    BY <2>4 DEF Earlier, After, LockOps, Passes
  <2>9. \A i \in DOMAIN Vmas[c.mm] : c.op = "vmas" => i < c.i \/ i = c.i
    BY <1>1, <1>2, <1>7
  <2>10. /\ done.op \in LockOps \cup {"held"} => c.op \in LockOps \cup {"vmas"}
         /\ done.op # "vmas"
    BY <2>4 DEF After, LockOps, Passes
  <2>11. \A p \in LockOps : \A i \in DOMAIN Vmas[c.mm] :
           \A k \in DOMAIN LocksOf(p, Vmas[c.mm][i]) :
             Passed(done, p, i, k) => Passed(c, p, i, k) \/ (p = c.op /\ i = c.i /\ k = c.j)
    BY <2>5, <2>6, <2>7, <2>8 DEF Passed
  <2>12. c.op = "drop" => \A i \in DOMAIN Vmas[c.mm] :
           \A k \in DOMAIN LocksOf("drop", Vmas[c.mm][i]) :
             ~Before(c, i, k) => (i = c.i /\ k = c.j)
    BY <2>5
  <2>13. \A i \in DOMAIN Vmas[c.mm] :
           done.op \in LockOps \cup {"held"} \/ (done.op = "vmas" /\ i < done.i)
             => c.op \in LockOps \cup {"held"} \/ (c.op = "vmas" /\ (i < c.i \/ i = c.i))
    BY <2>9, <2>10
  <2>14. c.op = "drop" => \A i \in DOMAIN Vmas[c.mm] :
           \A k \in DOMAIN LocksOf("drop", Vmas[c.mm][i]) :
             ~Before(c, i, k) => (done.op = "drop" /\ ~Before(done, i, k))
                                 \/ (i = c.i /\ k = c.j)
    BY <2>12
  <2>15. \A i \in DOMAIN Vmas[c.mm] :
           done.op \in LockOps \cup {"held"} \/ (done.op = "vmas" /\ i < done.i)
             => \/ c.op \in LockOps \cup {"held"} \/ (c.op = "vmas" /\ i < c.i)
                \/ (c.op = "vmas" /\ i = c.i)
    BY <2>13
  <2>16. QED  BY Zenon, <2>1, <2>3, <2>4, <2>11, <2>14, <2>15
<1>8. QED  BY <1>5, <1>6, <1>7

-----------------------------------------------------------------------------
(* Steps of a thread *)

LEMMA CallsAre ==
  ASSUME TypeOK, NEW t \in Threads
  PROVE  Valid(call[t])
BY DEF TypeOK, Valid, CallType

LEMMA StepIsValid ==
  ASSUME NEW c, Valid(c), NEW s \in Steps
  PROVE  LET d == [c EXCEPT !.step = s] IN
         Valid(d) /\ d.op = c.op /\ d.mm = c.mm /\ d.i = c.i /\ d.j = c.j /\ d.step = s
<1> DEFINE d == [c EXCEPT !.step = s]
<1>1. d \in CallType /\ d.op = c.op /\ d.mm = c.mm /\ d.i = c.i /\ d.j = c.j /\ d.step = s
  BY DEF Valid, CallType
<1> HIDE DEF d
<1>2. Valid(d)
  BY <1>1 DEF Valid, Vma
<1>3. QED  BY <1>1, <1>2 DEF d

LEMMA TypesGoOn ==
  ASSUME TypeOK, NEW t \in Threads, NEW d, Valid(d), Become(t, d),
         mm_all_locks_mutex' \in Takers \cup {NoThread},
         owner' \in [Rwsems -> Threads \cup {NoThread}],
         bit' \in [Files \cup Roots -> BOOLEAN], marked' \subseteq Areas
  PROVE  TypeOK' /\ call'[t] = d /\ \A u \in Threads \ {t} : call'[u] = call[u]
<1>1. call \in [Threads -> CallType] /\ d \in CallType
  BY DEF TypeOK, Valid, CallType
<1>2. /\ call' \in [Threads -> CallType] /\ call'[t] = d
      /\ \A u \in Threads \ {t} : call'[u] = call[u]
  BY <1>1 DEF Become
<1>3. \A u \in Threads : Valid(call'[u])
  BY <1>2, CallsAre
<1>4. \A u \in Threads : /\ call'[u].i \in DOMAIN Vmas[call'[u].mm]
                          /\ call'[u].j \in 1..(Len(LocksOf(call'[u].op, Vma(call'[u]))) + 1)
  BY <1>3 DEF Valid
<1>5. QED  BY <1>2, <1>4 DEF TypeOK, CallType

(* Where a thread is after a step of its own, or of another. *)
LEMMA AtStays ==
  ASSUME NEW u, call'[u] = call[u]
  PROVE  \A ops, kind, l, z : At(u, ops, kind, l, z)' <=> At(u, ops, kind, l, z)
BY DEF At

LEMMA AtAfterStep ==
  ASSUME NEW t, NEW s, call'[t].op = call[t].op, call'[t].mm = call[t].mm,
         call'[t].i = call[t].i, call'[t].j = call[t].j, call'[t].step = s
  PROVE  \A ops, kind, l, z :
           At(t, ops, kind, l, z)' <=> z = s /\ At(t, ops, kind, l, call[t].step)
BY DEF At, Vma

LEMMA AtAfterGoOn ==
  ASSUME NEW t, call'[t].step = "test"
  PROVE  \A ops, kind, l : ~At(t, ops, kind, l, "first")' /\ ~At(t, ops, kind, l, "second")'
BY DEF At

(* Only the owner of the mutex is in a pass or has a lock of others. *)
LEMMA OnlyTheOwner ==
  ASSUME IInv, NEW t \in Takers, mm_all_locks_mutex = t, NEW w \in Takers \ {t}
  PROVE  /\ call[w].op \in {"idle", "enter", "leave"}
         /\ \A l \in Shared : owner[l] # w
         /\ \A ops \in SUBSET Passes : \A kind, l, z : ~At(w, ops, kind, l, z)
<1>1. call[w].op \in {"idle", "enter", "leave"}
  BY DEF IInv, Roles, MutexIsHeld
<1>2. \A l \in Shared : owner[l] # w
  BY DEF IInv, FilesAreHeld, RootsAreHeld, Shared
<1>3. QED  BY <1>1, <1>2 DEF At, Passes

-----------------------------------------------------------------------------
(* A step of another thread: it takes or drops locks no taker has, and what *)
(* is known of the takers is as it was.                                     *)
LEMMA OthersKeep ==
  ASSUME IInv, NEW u \in Others, NEW d, Valid(d), d.op \in {"idle", "adjust", "fault"},
         Become(u, d), UNCHANGED <<mm_all_locks_mutex, bit>>,
         owner' \in [Rwsems -> Threads \cup {NoThread}], marked' \subseteq Areas,
         \A l \in Shared : owner'[l] # owner[l] => owner[l] \notin Takers /\ owner'[l] \notin Takers,
         \A a \in marked \ marked' : \A t \in Takers : call[t].op # "idle" => call[t].mm # a[1]
  PROVE  /\ TypeOK' /\ Roles' /\ MutexIsHeld' /\ AreasAreMarked'
         /\ FilesAreHeld' /\ RootsAreHeld' /\ TakenSoFar' /\ LeftToDrop'
         /\ call'[u] = d /\ \A t \in Threads \ {u} : call'[t] = call[t]
<1>1. /\ TypeOK' /\ call'[u] = d /\ \A t \in Threads \ {u} : call'[t] = call[t]
  BY TypesGoOn DEF IInv, TypeOK, Threads
<1>2. \A t \in Takers : call'[t] = call[t]
  BY <1>1, LocksAssumption DEF Threads
<1>3. Roles'
  BY <1>1, <1>2 DEF IInv, Roles, Threads
<1>4. MutexIsHeld'
  BY <1>2 DEF IInv, MutexIsHeld
<1>5. AreasAreMarked'
  <2>1. SUFFICES ASSUME NEW t \in Takers, NEW i \in DOMAIN Vmas[call[t].mm],
                        call[t].op # "idle", <<call[t].mm, i>> \in marked
                 PROVE  <<call[t].mm, i>> \in marked'
    BY <1>2 DEF IInv, AreasAreMarked, LockOps
  <2>2. QED  BY <2>1
<1>6. \A t \in Takers : \A ops, kind, l, z : At(t, ops, kind, l, z)' <=> At(t, ops, kind, l, z)
  BY <1>2, AtStays
<1>7. \A l \in Shared : \A t \in Takers : owner'[l] = t <=> owner[l] = t
  OBVIOUS
<1>8. FilesAreHeld'
  BY <1>6, <1>7 DEF IInv, FilesAreHeld, Shared
<1>9. RootsAreHeld'
  BY <1>6, <1>7 DEF IInv, RootsAreHeld, Shared
<1>10. TakenSoFar'
  <2>1. SUFFICES ASSUME NEW t \in Takers, NEW p \in LockOps, NEW i \in DOMAIN Vmas[call[t].mm],
                        NEW k \in DOMAIN LocksOf(p, Vmas[call[t].mm][i]),
                        owner[LocksOf(p, Vmas[call[t].mm][i])[k]] = t
                 PROVE  owner'[LocksOf(p, Vmas[call[t].mm][i])[k]] = t
    BY <1>2 DEF IInv, TakenSoFar
  <2>2. Vmas[call[t].mm][i] \in Area
    BY CallsAre, VmasAre DEF IInv, Threads, Valid, CallType
  <2>3. QED  BY <1>7, <2>1, <2>2, LocksAre
<1>11. LeftToDrop'
  BY <1>2 DEF IInv, LeftToDrop
<1>12. QED  BY <1>1, <1>3, <1>4, <1>5, <1>8, <1>9, <1>10, <1>11

(* A step of the owner of the mutex: it takes or drops shared locks that    *)
(* nobody else has.                                                         *)
LEMMA OwnerKeeps ==
  ASSUME IInv, NEW t \in Takers, call[t].op \in Passes \cup {"held"}, NEW d, Valid(d), Become(t, d),
         d.mm = call[t].mm, d.op \in Passes \cup {"held", "leave"},
         d.op \in {"vmas", "held"} => d.step = "test", d.op = "held" => d.i = 1 /\ d.j = 1,
         UNCHANGED mm_all_locks_mutex, bit' \in [Files \cup Roots -> BOOLEAN],
         owner' \in [Rwsems -> Threads \cup {NoThread}],
         \A l \in Rwsems : owner'[l] # owner[l] =>
           l \in Shared /\ owner[l] \in {NoThread, t} /\ owner'[l] \in {NoThread, t},
         marked' \subseteq Areas, marked \subseteq marked',
         \A a \in marked' \ marked : \A u \in Others :
           call[u].op = "fault" => <<call[u].mm, call[u].i>> # a
  PROVE  /\ TypeOK' /\ Roles' /\ MutexIsHeld' /\ MmapLockIsHeld' /\ MarksKeepFaultsOut'
         /\ OthersHold' /\ mm_all_locks_mutex = t
         /\ call'[t] = d /\ \A u \in Threads \ {t} : call'[u] = call[u]
<1>1. /\ TypeOK' /\ call'[t] = d /\ \A u \in Threads \ {t} : call'[u] = call[u]
  BY TypesGoOn DEF IInv, TypeOK, Threads
<1>2. mm_all_locks_mutex = t
  BY DEF IInv, MutexIsHeld
<1>3. /\ \A u \in Others : call'[u] = call[u] /\ u # t /\ u # NoThread
      /\ \A w \in Takers \ {t} : call'[w] = call[w]
  BY <1>1, LocksAssumption DEF Threads
<1>4. Roles'
  BY <1>1, <1>3 DEF IInv, Roles, Passes
<1>5. MutexIsHeld'
  BY <1>1, <1>2, <1>3 DEF IInv, MutexIsHeld, Passes
<1>6. MmapLockIsHeld'
  <2>1. \A w \in Threads : call[w].op \notin {"idle", "fault"} => owner'[call[w].mm] = owner[call[w].mm]
    <3>1. \A w \in Threads : call[w].mm \in Rwsems /\ call[w].mm \notin Shared
      BY CallsAre, LocksAssumption DEF IInv, Valid, CallType, Rwsems, Shared
    <3>2. QED  BY <3>1
  <2>2. call[t].op \notin {"idle", "fault"}
    BY DEF Passes
  <2>3. QED  BY <1>1, <2>1, <2>2 DEF IInv, MmapLockIsHeld, Threads
<1>7. MarksKeepFaultsOut'
  <2>1. d.op # "fault"
    BY DEF Passes
  <2>2. \A w \in Takers : call'[w].op # "fault"
    BY <1>1, <1>3, <2>1 DEF IInv, Roles, Passes
  <2>3. QED  BY <1>3, <2>2 DEF IInv, MarksKeepFaultsOut, Threads
<1>8. OthersHold'
  <2>1. SUFFICES ASSUME NEW u \in Others, NEW l \in Shared, owner[l] = u
                 PROVE  owner'[l] = u
    <3>1. \A u \in Others : Vma(call[u]) \in Area
      BY CallsAre, VmasAre DEF IInv, Valid, CallType, Vma, Threads
    <3>2. \A v \in Area : v.file \in Shared \cup {NoFile} /\ RootOf(v) \in Shared \cup {NoFile}
      BY EmptySeq, LenProperties, ElementOfSeq DEF Area, Shared, RootOf
    <3>3. \A u \in Others : Vma(call'[u]) = Vma(call[u])
      BY <1>3
    <3>4. QED  BY <1>3, <3>1, <3>2, <3>3 DEF IInv, OthersHold
  <2>2. l \in Rwsems
    BY DEF Shared, Rwsems
  <2>3. QED  BY <1>3, <2>1, <2>2
<1>9. QED  BY <1>1, <1>2, <1>4, <1>5, <1>6, <1>7, <1>8

-----------------------------------------------------------------------------
(* A step at a lock *)

(* FilesAreHeld and RootsAreHeld of the owner of the mutex. *)
HasFile(t, l) ==
  /\ owner[l] = t => bit[l]
  /\ At(t, {"hugetlb", "files"}, Files, l, "first")  => ~bit[l]
  /\ At(t, {"hugetlb", "files"}, Files, l, "second") => bit[l]
  /\ At(t, {"drop"}, Files, l, "first")              => bit[l] /\ owner[l] = t
  /\ At(t, {"drop"}, Files, l, "second")             => bit[l] /\ owner[l] # t
  /\ bit[l] => owner[l] = t \/ At(t, {"hugetlb", "files", "drop"}, Files, l, "second")
HasRoot(t, l) ==
  /\ owner[l] = t => bit[l] \/ At(t, {"anon", "drop"}, Roots, l, "second")
  /\ At(t, {"anon"}, Roots, l, "first")          => ~bit[l]
  /\ At(t, {"anon", "drop"}, Roots, l, "second") => ~bit[l] /\ owner[l] = t
  /\ At(t, {"drop"}, Roots, l, "first")          => bit[l]
  /\ bit[l] => owner[l] = t

LEMMA OwnerHas ==
  ASSUME IInv, NEW t \in Takers, mm_all_locks_mutex = t
  PROVE  (\A l \in Files : HasFile(t, l)) /\ (\A l \in Roots : HasRoot(t, l))
BY DEF IInv, FilesAreHeld, RootsAreHeld, HasFile, HasRoot

LEMMA OwnerHasNext ==
  ASSUME IInv, NEW t \in Takers, mm_all_locks_mutex = t, UNCHANGED mm_all_locks_mutex,
         \A w \in Takers \ {t} : call'[w] = call[w],
         \A l \in Shared : owner'[l] # owner[l] => owner'[l] \in {NoThread, t},
         \A l \in Files : HasFile(t, l)', \A l \in Roots : HasRoot(t, l)'
  PROVE  FilesAreHeld' /\ RootsAreHeld'
<1>1. \A w \in Takers \ {t} :
        /\ \A ops \in SUBSET Passes : \A kind, l, z : ~At(w, ops, kind, l, z)'
        /\ \A l \in Shared : owner'[l] # w
  <2>1. TAKE w \in Takers \ {t}
  <2>2. w # NoThread /\ w # t
    BY LocksAssumption
  <2>3. QED  BY <2>2, OnlyTheOwner, AtStays
<1>2. {"hugetlb", "files"} \in SUBSET Passes /\ {"anon"} \in SUBSET Passes
      /\ {"drop"} \in SUBSET Passes /\ {"anon", "drop"} \in SUBSET Passes
  BY DEF Passes
<1>3. FilesAreHeld'
  BY <1>1, <1>2 DEF FilesAreHeld, HasFile, Shared
<1>4. RootsAreHeld'
  BY <1>1, <1>2 DEF RootsAreHeld, HasRoot, Shared
<1>5. QED  BY <1>3, <1>4

LEMMA AtIs ==
  ASSUME NEW t, NEW ops, NEW kind, NEW l, NEW z, At(t, ops, kind, l, z)
  PROVE  /\ call[t].op \in ops /\ call[t].step = z /\ l \in kind /\ AtLast(call[t])
         /\ call[t].j \in DOMAIN LocksOf(call[t].op, Vma(call[t]))
         /\ l = LocksOf(call[t].op, Vma(call[t]))[call[t].j]
         /\ \A ops2, kind2, x, z2 : At(t, ops2, kind2, x, z2)
              <=> call[t].op \in ops2 /\ z2 = z /\ x = l /\ x \in kind2
BY DEF At, AtLast

(* The owner goes to the next step of a lock, or on to the next lock.       *)
LEMMA StepOrGoOn ==
  ASSUME IInv, NEW t \in Takers, call[t].op \in LockOps \cup {"drop"}, AtLast(call[t]),
         (\E s \in Steps : Step(t, s)) \/ GoOn(t)
  PROVE  \E d : /\ Valid(d) /\ d.mm = call[t].mm /\ Become(t, d) /\ call'[t] = d
                /\ \/ d.op = call[t].op /\ d.i = call[t].i /\ d.j = call[t].j
                   \/ GoOn(t) /\ d = Advance(call[t])
<1>1. /\ Valid(call[t]) /\ call[t].op \in Passes
      /\ \A d : Become(t, d) => call'[t] = d
  BY CallsAre DEF IInv, TypeOK, Threads, LockOps, Passes, Become
<1>2. CASE \E s \in Steps : Step(t, s)
  <2>1. PICK s \in Steps : Step(t, s)
    BY <1>2
  <2> DEFINE d == [call[t] EXCEPT !.step = s]
  <2>2. /\ Valid(d) /\ d.op = call[t].op /\ d.mm = call[t].mm /\ d.i = call[t].i
        /\ d.j = call[t].j
    BY <1>1, StepIsValid
  <2>3. Become(t, d)
    BY <2>1 DEF Step
  <2> HIDE DEF d
  <2>4. QED  BY <1>1, <2>2, <2>3
<1>3. CASE GoOn(t)
  <2>1. Become(t, Advance(call[t]))
    BY <1>3 DEF GoOn
  <2>2. Valid(Advance(call[t])) /\ Advance(call[t]).mm = call[t].mm
    BY <1>1, AdvanceGoesOn
  <2>3. QED  BY <1>1, <1>3, <2>1, <2>2
<1>4. QED  BY <1>2, <1>3

LEMMA PassGoesOn ==
  ASSUME IInv, NEW t \in Takers, call[t].op \in LockOps \cup {"drop"}, AtLast(call[t]),
         (\E s \in Steps : Step(t, s)) \/ GoOn(t),
         UNCHANGED <<mm_all_locks_mutex, marked>>, bit' \in [Files \cup Roots -> BOOLEAN],
         owner' \in [Rwsems -> Threads \cup {NoThread}],
         \A l \in Rwsems : owner'[l] # owner[l] =>
           l \in Shared /\ owner[l] \in {NoThread, t} /\ owner'[l] \in {NoThread, t}
  PROVE  /\ TypeOK' /\ Roles' /\ MutexIsHeld' /\ MmapLockIsHeld' /\ MarksKeepFaultsOut'
         /\ AreasAreMarked' /\ OthersHold' /\ mm_all_locks_mutex = t
         /\ \A u \in Threads \ {t} : call'[u] = call[u]
<1> DEFINE c == call[t]
<1>1. Valid(c) /\ c.op \in Passes
  BY CallsAre DEF IInv, Threads, LockOps, Passes
<1>2. PICK d : /\ Valid(d) /\ d.mm = c.mm /\ Become(t, d)
               /\ \/ d.op = c.op /\ d.i = c.i
                  \/ d = Advance(c)
  BY StepOrGoOn
<1>3. /\ d.op \in Passes \cup {"held", "leave"} /\ d.op # "vmas"
      /\ d.op = "held" => d.step = "test" /\ d.i = 1 /\ d.j = 1
  BY <1>1, <1>2, AdvanceGoesOn DEF LockOps, Passes, After
<1>4. /\ TypeOK' /\ Roles' /\ MutexIsHeld' /\ MmapLockIsHeld' /\ MarksKeepFaultsOut'
      /\ OthersHold' /\ mm_all_locks_mutex = t
      /\ call'[t] = d /\ \A u \in Threads \ {t} : call'[u] = call[u]
  <2>1. marked' \subseteq Areas
    BY DEF IInv, TypeOK
  <2>2. QED  BY <1>1, <1>2, <1>3, <2>1, OwnerKeeps
<1>5. AreasAreMarked'
  <2>1. \A i \in DOMAIN Vmas[c.mm] : d.op \in LockOps \cup {"held"} => <<c.mm, i>> \in marked
    <3>1. d.op \in LockOps \cup {"held"} => c.op \in LockOps
      BY <1>1, <1>2, AdvanceGoesOn DEF LockOps, Passes, After
    <3>2. QED  BY <3>1 DEF IInv, AreasAreMarked
  <2>2. \A w \in Takers \ {t} : call'[w] = call[w]
    BY <1>4 DEF Threads
  <2>3. \A i \in DOMAIN Vmas[call'[t].mm] :
          call'[t].op \in LockOps \cup {"held"} => <<call'[t].mm, i>> \in marked'
    BY <1>2, <1>4, <2>1
  <2>4. call'[t].op # "vmas"
    BY <1>3, <1>4
  <2>5. \A w \in Takers \ {t} : \A i \in DOMAIN Vmas[call'[w].mm] :
          call'[w].op \in LockOps \cup {"held"} \/ (call'[w].op = "vmas" /\ i < call'[w].i)
            => <<call'[w].mm, i>> \in marked'
    BY <2>2 DEF IInv, AreasAreMarked
  <2>6. QED  BY <2>3, <2>4, <2>5 DEF AreasAreMarked
<1>6. QED  BY <1>4, <1>5

(* What is taken stays so, and so does what is left to drop. *)
LEMMA TakenGoesOn ==
  ASSUME IInv, NEW t \in Takers, call[t].op \in LockOps \cup {"drop"}, AtLast(call[t]),
         mm_all_locks_mutex = t, (\E s \in Steps : Step(t, s)) \/ GoOn(t),
         \A w \in Takers \ {t} : call'[w] = call[w],
         call[t].op \in LockOps => \A l \in Shared : owner[l] = t => owner'[l] = t,
         call[t].op \in LockOps /\ GoOn(t) /\ call[t].j \in DOMAIN LocksOf(call[t].op, Vma(call[t]))
           => owner'[LocksOf(call[t].op, Vma(call[t]))[call[t].j]] = t
  PROVE  TakenSoFar'
<1> DEFINE c == call[t]
<1>1. Valid(c) /\ c.op \in Passes /\ c.mm \in Mms /\ call \in [Threads -> CallType] /\ t \in Threads
  BY CallsAre DEF IInv, TypeOK, Threads, LockOps, Passes, Valid, CallType
<1>2. PICK d : /\ call'[t] = d /\ d.mm = c.mm
               /\ \/ d.op = c.op /\ d.i = c.i /\ d.j = c.j
                  \/ GoOn(t) /\ d = Advance(c)
  BY StepOrGoOn
<1>3. \A w \in Takers \ {t} : \A p \in LockOps : \A i, k : ~Passed(call'[w], p, i, k)
  BY OnlyTheOwner DEF Passed, Earlier, LockOps
<1>4. ASSUME NEW p \in LockOps, NEW i \in DOMAIN Vmas[c.mm],
             NEW k \in DOMAIN LocksOf(p, Vmas[c.mm][i]), Passed(d, p, i, k)
      PROVE  owner'[LocksOf(p, Vmas[c.mm][i])[k]] = t
  <2>1. CASE c.op = "drop"
    <3>1. d.op \in {"drop", "leave"}
      BY <1>1, <1>2, <2>1, AdvanceGoesOn DEF After
    <3>2. QED  BY <1>4, <3>1 DEF Passed, Earlier, LockOps
  <2>2. CASE c.op \in LockOps
    <3>1. \/ Passed(c, p, i, k)
          \/ GoOn(t) /\ p = c.op /\ i = c.i /\ k = c.j
      <4>1. CASE d.op = c.op /\ d.i = c.i /\ d.j = c.j
        BY <1>4, <4>1 DEF Passed, Before
      <4>2. CASE GoOn(t) /\ d = Advance(c)
        BY <1>1, <1>4, <4>2, AdvanceGoesOn
      <4>3. QED  BY <1>2, <4>1, <4>2
    <3>2. CASE Passed(c, p, i, k)
      <4>1. owner[LocksOf(p, Vmas[c.mm][i])[k]] = t
        BY <3>2 DEF IInv, TakenSoFar
      <4>2. LocksOf(p, Vmas[c.mm][i])[k] \in Shared
        BY <1>1, VmasAre, LocksAre
      <4>3. QED  BY <2>2, <4>1, <4>2
    <3>3. CASE GoOn(t) /\ p = c.op /\ i = c.i /\ k = c.j
      BY <2>2, <3>3 DEF Vma
    <3>4. QED  BY <3>1, <3>2, <3>3
  <2>3. QED  BY <2>1, <2>2
<1>5. \A w \in Takers, p \in LockOps : \A i \in DOMAIN Vmas[call'[w].mm] :
        \A k \in DOMAIN LocksOf(p, Vmas[call'[w].mm][i]) :
          Passed(call'[w], p, i, k) => owner'[LocksOf(p, Vmas[call'[w].mm][i])[k]] = w
  <2>1. TAKE w \in Takers
  <2>2. CASE w = t
    BY <1>2, <1>4, <2>2
  <2>3. CASE w # t
    BY <1>3, <2>3
  <2>4. QED  BY <2>2, <2>3
<1>6. QED  BY <1>5 DEF TakenSoFar

LEMMA LeftGoesOn ==
  ASSUME IInv, NEW t \in Takers, call[t].op \in LockOps \cup {"drop"}, AtLast(call[t]),
         mm_all_locks_mutex = t, UNCHANGED mm_all_locks_mutex,
         (\E s \in Steps : Step(t, s)) \/ GoOn(t),
         \A l \in Shared : bit'[l] =>
           \/ bit[l]
           \/ /\ call[t].op \in LockOps /\ call[t].j \in DOMAIN LocksOf(call[t].op, Vma(call[t]))
              /\ l = LocksOf(call[t].op, Vma(call[t]))[call[t].j],
         call[t].op = "drop" /\ GoOn(t) /\ call[t].j \in DOMAIN LocksOf("drop", Vma(call[t]))
           => ~bit'[LocksOf("drop", Vma(call[t]))[call[t].j]]
  PROVE  LeftToDrop'
<1> DEFINE c == call[t]
<1>1. /\ Valid(c) /\ c.op \in Passes /\ c.mm \in Mms /\ c.i \in DOMAIN Vmas[c.mm]
      /\ call \in [Threads -> CallType] /\ t \in Threads
  BY CallsAre DEF IInv, TypeOK, Threads, LockOps, Passes, Valid, CallType
<1>2. PICK d : /\ call'[t] = d /\ d.mm = c.mm
               /\ \/ d.op = c.op /\ d.i = c.i /\ d.j = c.j
                  \/ GoOn(t) /\ d = Advance(c)
  BY StepOrGoOn
<1>3. ASSUME NEW l \in Shared, bit'[l]
      PROVE  d.op # "leave" /\ ToBeDropped(d, l)
  <2>1. CASE c.op = "drop"
    <3>1. bit[l]
      BY <1>3, <2>1 DEF LockOps
    <3>2. PICK i \in DOMAIN Vmas[c.mm] : \E k \in DOMAIN LocksOf("drop", Vmas[c.mm][i]) :
            l = LocksOf("drop", Vmas[c.mm][i])[k] /\ ~Before(c, i, k)
      BY <2>1, <3>1 DEF IInv, LeftToDrop, ToBeDropped
    <3>3. PICK k \in DOMAIN LocksOf("drop", Vmas[c.mm][i]) :
            l = LocksOf("drop", Vmas[c.mm][i])[k] /\ ~Before(c, i, k)
      BY <3>2
    <3>4. d.op = "drop" /\ ~Before(d, i, k)
      <4>1. CASE d.op = c.op /\ d.i = c.i /\ d.j = c.j
        BY <2>1, <3>3, <4>1 DEF Before
      <4>2. CASE GoOn(t) /\ d = Advance(c)
        <5>1. (d.op = "drop" /\ ~Before(d, i, k)) \/ (i = c.i /\ k = c.j)
          BY <1>1, <2>1, <3>3, <4>2, AdvanceGoesOn
        <5>2. ~(i = c.i /\ k = c.j)
          BY <1>3, <2>1, <3>3, <4>2 DEF Vma
        <5>3. QED  BY <5>1, <5>2
      <4>3. QED  BY <1>2, <4>1, <4>2
    <3>5. QED  BY <1>2, <3>3, <3>4 DEF ToBeDropped
  <2>2. CASE c.op \in LockOps
    <3>1. d.op \notin {"drop", "leave"}
      BY <1>1, <1>2, <2>2, AdvanceGoesOn DEF LockOps, After
    <3>2. \E i \in DOMAIN Vmas[c.mm] : \E k \in DOMAIN LocksOf("drop", Vmas[c.mm][i]) :
            l = LocksOf("drop", Vmas[c.mm][i])[k]
      <4>1. CASE bit[l]
        BY <4>1 DEF IInv, LeftToDrop, ToBeDropped
      <4>2. CASE c.j \in DOMAIN LocksOf(c.op, Vma(c)) /\ l = LocksOf(c.op, Vma(c))[c.j]
        <5>1. Vma(c) \in Area
          BY <1>1, VmasAre DEF Vma
        <5>2. \A p \in LockOps : \A k \in DOMAIN LocksOf(p, Vma(c)) :
                \E n \in DOMAIN LocksOf("drop", Vma(c)) : LocksOf("drop", Vma(c))[n] = LocksOf(p, Vma(c))[k]
          BY <5>1, TakenAndDropped
        <5>3. PICK n \in DOMAIN LocksOf("drop", Vma(c)) : LocksOf("drop", Vma(c))[n] = l
          BY <2>2, <4>2, <5>2
        <5>4. QED  BY <1>1, <5>3 DEF Vma
      <4>3. QED  BY <1>3, <4>1, <4>2
    <3>3. QED  BY <1>2, <3>1, <3>2 DEF ToBeDropped
  <2>3. QED  BY <2>1, <2>2
<1>4. \A w \in Takers : mm_all_locks_mutex' = w => w = t
  OBVIOUS
<1>5. QED  BY <1>2, <1>3, <1>4 DEF LeftToDrop

(* A step at lock l, of which the owner still knows what it has. *)
LEMMA LockStep ==
  ASSUME IInv, NEW t \in Takers, NEW l \in Shared, call[t].op \in LockOps \cup {"drop"},
         AtLast(call[t]), call[t].j \in DOMAIN LocksOf(call[t].op, Vma(call[t])),
         l = LocksOf(call[t].op, Vma(call[t]))[call[t].j],
         (\E s \in Steps : Step(t, s)) \/ GoOn(t), UNCHANGED <<mm_all_locks_mutex, marked>>,
         \/ UNCHANGED owner
         \/ owner[l] \in {NoThread, t} /\ \E o \in {NoThread, t} : owner' = [owner EXCEPT ![l] = o],
         UNCHANGED bit \/ \E b \in BOOLEAN : bit' = [bit EXCEPT ![l] = b],
         call[t].op \in LockOps => /\ owner[l] = t => owner'[l] = t
                                   /\ GoOn(t) => owner'[l] = t,
         call[t].op = "drop" => /\ bit'[l] => bit[l]
                                /\ GoOn(t) => ~bit'[l],
         \A x \in Files : HasFile(t, x)', \A x \in Roots : HasRoot(t, x)'
  PROVE  IInv'
<1>1. owner \in [Rwsems -> Threads \cup {NoThread}] /\ bit \in [Files \cup Roots -> BOOLEAN]
      /\ l \in Rwsems /\ t \in Threads
  BY DEF IInv, TypeOK, Rwsems, Shared, Threads
<1>2. owner' \in [Rwsems -> Threads \cup {NoThread}] /\ bit' \in [Files \cup Roots -> BOOLEAN]
  BY <1>1
<1>3. /\ \A x \in Rwsems : owner'[x] # owner[x] =>
           x = l /\ owner[x] \in {NoThread, t} /\ owner'[x] \in {NoThread, t}
      /\ \A x \in Shared : bit'[x] # bit[x] => x = l
      /\ Shared \subseteq Rwsems
  BY <1>1 DEF Rwsems, Shared
<1>4. /\ TypeOK' /\ Roles' /\ MutexIsHeld' /\ MmapLockIsHeld' /\ MarksKeepFaultsOut'
      /\ AreasAreMarked' /\ OthersHold' /\ mm_all_locks_mutex = t
      /\ \A u \in Threads \ {t} : call'[u] = call[u]
  BY <1>2, <1>3, PassGoesOn
<1>5. \A w \in Takers \ {t} : call'[w] = call[w]
  BY <1>4 DEF Threads
<1>6. FilesAreHeld' /\ RootsAreHeld'
  BY <1>3, <1>4, <1>5, OwnerHasNext
<1>7. TakenSoFar'
  BY <1>3, <1>4, <1>5, TakenGoesOn
<1>8. LeftToDrop'
  <2>1. \A x \in Shared : bit'[x] => bit[x] \/ (call[t].op \in LockOps /\ x = l)
    BY <1>3
  <2>2. QED  BY <1>4, <2>1, LeftGoesOn
<1>9. QED  BY <1>4, <1>6, <1>7, <1>8 DEF IInv

(* Where the owner is at a lock, and after the step it takes there. *)
LEMMA AtHere ==
  ASSUME IInv, NEW t \in Takers, NEW ops, NEW kind, NEW l, NEW z, At(t, ops, kind, l, z),
         ops \subseteq LockOps \cup {"drop"}, kind \in {Files, Roots}
  PROVE  /\ call[t].op \in ops /\ call[t].step = z /\ AtLast(call[t])
         /\ call[t].j \in DOMAIN LocksOf(call[t].op, Vma(call[t]))
         /\ l = LocksOf(call[t].op, Vma(call[t]))[call[t].j]
         /\ mm_all_locks_mutex = t
         /\ owner \in [Rwsems -> Threads \cup {NoThread}] /\ bit \in [Files \cup Roots -> BOOLEAN]
         /\ l \in Shared /\ l \in Rwsems /\ l \in Files \cup Roots /\ t # NoThread
<1>1. /\ call[t].op \in ops /\ call[t].step = z /\ l \in kind /\ AtLast(call[t])
      /\ call[t].j \in DOMAIN LocksOf(call[t].op, Vma(call[t]))
      /\ l = LocksOf(call[t].op, Vma(call[t]))[call[t].j]
  BY AtIs
<1>2. owner \in [Rwsems -> Threads \cup {NoThread}] /\ bit \in [Files \cup Roots -> BOOLEAN]
  BY DEF IInv, TypeOK
<1>3. l \in Shared /\ l \in Rwsems /\ l \in Files \cup Roots
  BY <1>1 DEF Rwsems, Shared
<1>4. t \in Threads /\ t # NoThread /\ call[t].op \in Passes
  BY <1>1, LocksAssumption DEF Threads, LockOps, Passes
<1>5. mm_all_locks_mutex = t
  BY <1>4 DEF IInv, MutexIsHeld
<1>6. QED  BY <1>1, <1>2, <1>3, <1>4, <1>5

LEMMA AtNext ==
  ASSUME IInv, NEW t \in Takers, NEW ops, NEW kind, NEW l, NEW z, At(t, ops, kind, l, z),
         ops \subseteq LockOps \cup {"drop"}, kind \in {Files, Roots}
  PROVE  /\ \A ops2, kind2, x, z2 : At(t, ops2, kind2, x, z2)
              <=> call[t].op \in ops2 /\ z2 = z /\ x = l /\ x \in kind2
         /\ \A s \in Steps : Step(t, s) => \A ops2, kind2, x, z2 : At(t, ops2, kind2, x, z2)'
              <=> call[t].op \in ops2 /\ z2 = s /\ x = l /\ x \in kind2
         /\ GoOn(t) => \A ops2, kind2, x :
              ~At(t, ops2, kind2, x, "first")' /\ ~At(t, ops2, kind2, x, "second")'
<1>1. /\ call[t].op \in ops /\ AtLast(call[t])
      /\ \A ops2, kind2, x, z2 : At(t, ops2, kind2, x, z2)
           <=> call[t].op \in ops2 /\ z2 = z /\ x = l /\ x \in kind2
  BY AtIs
<1>2. call[t].op \in Passes /\ Valid(call[t]) /\ \A d : Become(t, d) => call'[t] = d
  <2>1. t \in Threads /\ call[t].op \in Passes
    BY <1>1 DEF Threads, LockOps, Passes
  <2>2. QED  BY <2>1, CallsAre DEF IInv, TypeOK, Become
<1>3. ASSUME NEW s \in Steps, Step(t, s)
      PROVE  \A ops2, kind2, x, z2 : At(t, ops2, kind2, x, z2)'
              <=> call[t].op \in ops2 /\ z2 = s /\ x = l /\ x \in kind2
  <2>1. /\ call'[t].op = call[t].op /\ call'[t].mm = call[t].mm /\ call'[t].i = call[t].i
        /\ call'[t].j = call[t].j /\ call'[t].step = s
    <3>1. call'[t] = [call[t] EXCEPT !.step = s]
      BY <1>2, <1>3 DEF Step
    <3>2. QED  BY <1>2, <3>1, StepIsValid
  <2>2. \A ops2, kind2, x, z2 : At(t, ops2, kind2, x, z2)'
          <=> z2 = s /\ At(t, ops2, kind2, x, call[t].step)
    BY <2>1, AtAfterStep
  <2>3. At(t, ops, kind, l, z) => call[t].step = z
    BY AtIs
  <2>4. QED  BY <1>1, <2>2, <2>3
<1>4. ASSUME GoOn(t)
      PROVE  \A ops2, kind2, x :
               ~At(t, ops2, kind2, x, "first")' /\ ~At(t, ops2, kind2, x, "second")'
  <2>1. call'[t] = Advance(call[t])
    BY <1>2, <1>4 DEF GoOn
  <2>2. call'[t].step = "test"
    BY <1>1, <1>2, <2>1, AdvanceGoesOn
  <2>3. QED  BY <2>2, AtAfterGoOn
<1>5. QED  BY <1>1, <1>3, <1>4, Zenon

(* The steps at a lock, one by one.                                         *)
LEMMA LockMapping ==
  ASSUME IInv, NEW t \in Takers, NEW l \in Files, vm_lock_mapping(t, l)
  PROVE  IInv'
<1> DEFINE ops == {"hugetlb", "files"}
<1>1. PICK z \in {"test", "first", "second"} : At(t, ops, Files, l, z)
  BY DEF vm_lock_mapping
<1>2. ops \subseteq LockOps \cup {"drop"} /\ Files \in {Files, Roots}
  BY DEF LockOps
<1> HIDE DEF ops
<1>3. /\ call[t].op \in ops /\ call[t].step = z /\ AtLast(call[t])
      /\ call[t].j \in DOMAIN LocksOf(call[t].op, Vma(call[t]))
      /\ l = LocksOf(call[t].op, Vma(call[t]))[call[t].j]
      /\ mm_all_locks_mutex = t
      /\ owner \in [Rwsems -> Threads \cup {NoThread}] /\ bit \in [Files \cup Roots -> BOOLEAN]
      /\ l \in Shared /\ l \in Rwsems /\ l \in Files \cup Roots /\ t # NoThread
  BY <1>1, <1>2, AtHere
<1>4. /\ \A ops2, kind2, x, z2 : At(t, ops2, kind2, x, z2)
           <=> call[t].op \in ops2 /\ z2 = z /\ x = l /\ x \in kind2
      /\ \A s \in Steps : Step(t, s) => \A ops2, kind2, x, z2 : At(t, ops2, kind2, x, z2)'
           <=> call[t].op \in ops2 /\ z2 = s /\ x = l /\ x \in kind2
      /\ GoOn(t) => \A ops2, kind2, x :
           ~At(t, ops2, kind2, x, "first")' /\ ~At(t, ops2, kind2, x, "second")'
  BY <1>1, <1>2, AtNext
<1>5. /\ \A x \in Files : HasFile(t, x)
      /\ \A x \in Roots : HasRoot(t, x) /\ x # l
  BY <1>3, OwnerHas, LocksAssumption
<1>6. /\ "test" \in Steps /\ "first" \in Steps /\ "second" \in Steps
      /\ call[t].op \in LockOps /\ call[t].op # "drop" /\ UNCHANGED <<mm_all_locks_mutex, marked>>
      /\ call[t].op \in LockOps \cup {"drop"}
  BY <1>3 DEF ops, Steps, LockOps, vm_lock_mapping
<1>7. CASE At(t, {"hugetlb", "files"}, Files, l, "test") /\ Test(t, l, FALSE) /\ ~bit[l]
  <2>1. Step(t, "first") /\ bit' = bit /\ owner' = owner /\ z = "test"
    BY <1>3, <1>4, <1>7 DEF Test
  <2>2. \A x \in Files : HasFile(t, x)'
    BY <1>3, <1>4, <1>5, <1>6, <1>7, <2>1 DEF HasFile, Rwsems
  <2>3. \A x \in Roots : HasRoot(t, x)'
    BY <1>3, <1>4, <1>5, <1>6, <1>7, <2>1 DEF HasRoot, Rwsems
  <2>4. /\ UNCHANGED owner \/ (owner[l] \in {NoThread, t} /\ \E o \in {NoThread, t} : owner' = [owner EXCEPT ![l] = o])
        /\ UNCHANGED bit \/ \E b \in BOOLEAN : bit' = [bit EXCEPT ![l] = b]
        /\ (\E s \in Steps : Step(t, s)) \/ GoOn(t)
    BY <1>3, <1>4, <1>5, <1>6, <1>7, <2>1 DEF HasFile
  <2>5. (owner[l] = t => owner'[l] = t) /\ (GoOn(t) => owner'[l] = t)
    BY <1>3, <1>4, <1>5, <1>6, <1>7, <2>1 DEF HasFile
  <2>6. QED  BY <1>3, <1>6, <2>2, <2>3, <2>4, <2>5, LockStep
<1>8. CASE At(t, {"hugetlb", "files"}, Files, l, "test") /\ Test(t, l, FALSE) /\ bit[l]
  <2>1. GoOn(t) /\ bit' = bit /\ owner' = owner /\ z = "test"
    BY <1>3, <1>4, <1>8 DEF Test
  <2>2. \A x \in Files : HasFile(t, x)'
    BY <1>3, <1>4, <1>5, <1>6, <1>8, <2>1 DEF HasFile, Rwsems
  <2>3. \A x \in Roots : HasRoot(t, x)'
    BY <1>3, <1>4, <1>5, <1>6, <1>8, <2>1 DEF HasRoot, Rwsems
  <2>4. /\ UNCHANGED owner \/ (owner[l] \in {NoThread, t} /\ \E o \in {NoThread, t} : owner' = [owner EXCEPT ![l] = o])
        /\ UNCHANGED bit \/ \E b \in BOOLEAN : bit' = [bit EXCEPT ![l] = b]
        /\ (\E s \in Steps : Step(t, s)) \/ GoOn(t)
    BY <1>3, <1>4, <1>5, <1>6, <1>8, <2>1 DEF HasFile
  <2>5. (owner[l] = t => owner'[l] = t) /\ (GoOn(t) => owner'[l] = t)
    BY <1>3, <1>4, <1>5, <1>6, <1>8, <2>1 DEF HasFile
  <2>6. QED  BY <1>3, <1>6, <2>2, <2>3, <2>4, <2>5, LockStep
<1>9. CASE At(t, {"hugetlb", "files"}, Files, l, "first") /\ Set(l) /\ Step(t, "second") /\ UNCHANGED owner
  <2>1. /\ Step(t, "second") /\ owner' = owner /\ z = "first"
        /\ bit' = [bit EXCEPT ![l] = TRUE]
    BY <1>3, <1>4, <1>9 DEF Set
  <2>2. \A x \in Files : HasFile(t, x)'
    BY <1>3, <1>4, <1>5, <1>6, <1>9, <2>1 DEF HasFile, Rwsems
  <2>3. \A x \in Roots : HasRoot(t, x)'
    BY <1>3, <1>4, <1>5, <1>6, <1>9, <2>1 DEF HasRoot, Rwsems
  <2>4. /\ UNCHANGED owner \/ (owner[l] \in {NoThread, t} /\ \E o \in {NoThread, t} : owner' = [owner EXCEPT ![l] = o])
        /\ UNCHANGED bit \/ \E b \in BOOLEAN : bit' = [bit EXCEPT ![l] = b]
        /\ (\E s \in Steps : Step(t, s)) \/ GoOn(t)
    BY <1>3, <1>4, <1>5, <1>6, <1>9, <2>1 DEF HasFile
  <2>5. (owner[l] = t => owner'[l] = t) /\ (GoOn(t) => owner'[l] = t)
    BY <1>3, <1>4, <1>5, <1>6, <1>9, <2>1 DEF HasFile
  <2>6. QED  BY <1>3, <1>6, <2>2, <2>3, <2>4, <2>5, LockStep
<1>10. CASE At(t, {"hugetlb", "files"}, Files, l, "second") /\ Down(t, l) /\ GoOn(t) /\ UNCHANGED bit
  <2>1. /\ GoOn(t) /\ bit' = bit /\ z = "second"
        /\ owner[l] = NoThread /\ owner' = [owner EXCEPT ![l] = t]
    BY <1>3, <1>4, <1>10 DEF Down
  <2>2. \A x \in Files : HasFile(t, x)'
    BY <1>3, <1>4, <1>5, <1>6, <1>10, <2>1 DEF HasFile, Rwsems
  <2>3. \A x \in Roots : HasRoot(t, x)'
    BY <1>3, <1>4, <1>5, <1>6, <1>10, <2>1 DEF HasRoot, Rwsems
  <2>4. /\ UNCHANGED owner \/ (owner[l] \in {NoThread, t} /\ \E o \in {NoThread, t} : owner' = [owner EXCEPT ![l] = o])
        /\ UNCHANGED bit \/ \E b \in BOOLEAN : bit' = [bit EXCEPT ![l] = b]
        /\ (\E s \in Steps : Step(t, s)) \/ GoOn(t)
    BY <1>3, <1>4, <1>5, <1>6, <1>10, <2>1 DEF HasFile
  <2>5. (owner[l] = t => owner'[l] = t) /\ (GoOn(t) => owner'[l] = t)
    BY <1>3, <1>4, <1>5, <1>6, <1>10, <2>1 DEF HasFile
  <2>6. QED  BY <1>3, <1>6, <2>2, <2>3, <2>4, <2>5, LockStep
<1>11. QED  BY <1>7, <1>8, <1>9, <1>10 DEF vm_lock_mapping, Test

LEMMA UnlockMapping ==
  ASSUME IInv, NEW t \in Takers, NEW l \in Files, vm_unlock_mapping(t, l)
  PROVE  IInv'
<1> DEFINE ops == {"drop"}
<1>1. PICK z \in {"test", "first", "second"} : At(t, ops, Files, l, z)
  BY DEF vm_unlock_mapping
<1>2. ops \subseteq LockOps \cup {"drop"} /\ Files \in {Files, Roots}
  BY DEF LockOps
<1> HIDE DEF ops
<1>3. /\ call[t].op \in ops /\ call[t].step = z /\ AtLast(call[t])
      /\ call[t].j \in DOMAIN LocksOf(call[t].op, Vma(call[t]))
      /\ l = LocksOf(call[t].op, Vma(call[t]))[call[t].j]
      /\ mm_all_locks_mutex = t
      /\ owner \in [Rwsems -> Threads \cup {NoThread}] /\ bit \in [Files \cup Roots -> BOOLEAN]
      /\ l \in Shared /\ l \in Rwsems /\ l \in Files \cup Roots /\ t # NoThread
  BY <1>1, <1>2, AtHere
<1>4. /\ \A ops2, kind2, x, z2 : At(t, ops2, kind2, x, z2)
           <=> call[t].op \in ops2 /\ z2 = z /\ x = l /\ x \in kind2
      /\ \A s \in Steps : Step(t, s) => \A ops2, kind2, x, z2 : At(t, ops2, kind2, x, z2)'
           <=> call[t].op \in ops2 /\ z2 = s /\ x = l /\ x \in kind2
      /\ GoOn(t) => \A ops2, kind2, x :
           ~At(t, ops2, kind2, x, "first")' /\ ~At(t, ops2, kind2, x, "second")'
  BY <1>1, <1>2, AtNext
<1>5. /\ \A x \in Files : HasFile(t, x)
      /\ \A x \in Roots : HasRoot(t, x) /\ x # l
  BY <1>3, OwnerHas, LocksAssumption
<1>6. /\ "test" \in Steps /\ "first" \in Steps /\ "second" \in Steps
      /\ call[t].op = "drop" /\ call[t].op \notin LockOps /\ UNCHANGED <<mm_all_locks_mutex, marked>>
      /\ call[t].op \in LockOps \cup {"drop"}
  BY <1>3 DEF ops, Steps, LockOps, vm_unlock_mapping
<1>7. CASE At(t, {"drop"}, Files, l, "test") /\ Test(t, l, TRUE) /\ bit[l]
  <2>1. Step(t, "first") /\ bit' = bit /\ owner' = owner /\ z = "test"
    BY <1>3, <1>4, <1>7 DEF Test
  <2>2. \A x \in Files : HasFile(t, x)'
    BY <1>3, <1>4, <1>5, <1>6, <1>7, <2>1 DEF HasFile, Rwsems
  <2>3. \A x \in Roots : HasRoot(t, x)'
    BY <1>3, <1>4, <1>5, <1>6, <1>7, <2>1 DEF HasRoot, Rwsems
  <2>4. /\ UNCHANGED owner \/ (owner[l] \in {NoThread, t} /\ \E o \in {NoThread, t} : owner' = [owner EXCEPT ![l] = o])
        /\ UNCHANGED bit \/ \E b \in BOOLEAN : bit' = [bit EXCEPT ![l] = b]
        /\ (\E s \in Steps : Step(t, s)) \/ GoOn(t)
    BY <1>3, <1>4, <1>5, <1>6, <1>7, <2>1 DEF HasFile
  <2>5. (bit'[l] => bit[l]) /\ (GoOn(t) => ~bit'[l])
    BY <1>3, <1>4, <1>5, <1>6, <1>7, <2>1 DEF HasFile
  <2>6. QED  BY <1>3, <1>6, <2>2, <2>3, <2>4, <2>5, LockStep
<1>8. CASE At(t, {"drop"}, Files, l, "test") /\ Test(t, l, TRUE) /\ ~bit[l]
  <2>1. GoOn(t) /\ bit' = bit /\ owner' = owner /\ z = "test"
    BY <1>3, <1>4, <1>8 DEF Test
  <2>2. \A x \in Files : HasFile(t, x)'
    BY <1>3, <1>4, <1>5, <1>6, <1>8, <2>1 DEF HasFile, Rwsems
  <2>3. \A x \in Roots : HasRoot(t, x)'
    BY <1>3, <1>4, <1>5, <1>6, <1>8, <2>1 DEF HasRoot, Rwsems
  <2>4. /\ UNCHANGED owner \/ (owner[l] \in {NoThread, t} /\ \E o \in {NoThread, t} : owner' = [owner EXCEPT ![l] = o])
        /\ UNCHANGED bit \/ \E b \in BOOLEAN : bit' = [bit EXCEPT ![l] = b]
        /\ (\E s \in Steps : Step(t, s)) \/ GoOn(t)
    BY <1>3, <1>4, <1>5, <1>6, <1>8, <2>1 DEF HasFile
  <2>5. (bit'[l] => bit[l]) /\ (GoOn(t) => ~bit'[l])
    BY <1>3, <1>4, <1>5, <1>6, <1>8, <2>1 DEF HasFile
  <2>6. QED  BY <1>3, <1>6, <2>2, <2>3, <2>4, <2>5, LockStep
<1>9. CASE At(t, {"drop"}, Files, l, "first") /\ Up(l) /\ Step(t, "second") /\ UNCHANGED bit
  <2>1. /\ Step(t, "second") /\ bit' = bit /\ z = "first"
        /\ owner' = [owner EXCEPT ![l] = NoThread]
    BY <1>3, <1>4, <1>9 DEF Up
  <2>2. \A x \in Files : HasFile(t, x)'
    BY <1>3, <1>4, <1>5, <1>6, <1>9, <2>1 DEF HasFile, Rwsems
  <2>3. \A x \in Roots : HasRoot(t, x)'
    BY <1>3, <1>4, <1>5, <1>6, <1>9, <2>1 DEF HasRoot, Rwsems
  <2>4. /\ UNCHANGED owner \/ (owner[l] \in {NoThread, t} /\ \E o \in {NoThread, t} : owner' = [owner EXCEPT ![l] = o])
        /\ UNCHANGED bit \/ \E b \in BOOLEAN : bit' = [bit EXCEPT ![l] = b]
        /\ (\E s \in Steps : Step(t, s)) \/ GoOn(t)
    BY <1>3, <1>4, <1>5, <1>6, <1>9, <2>1 DEF HasFile
  <2>5. (bit'[l] => bit[l]) /\ (GoOn(t) => ~bit'[l])
    BY <1>3, <1>4, <1>5, <1>6, <1>9, <2>1 DEF HasFile
  <2>6. QED  BY <1>3, <1>6, <2>2, <2>3, <2>4, <2>5, LockStep
<1>10. CASE At(t, {"drop"}, Files, l, "second") /\ Clear(l) /\ GoOn(t) /\ UNCHANGED owner
  <2>1. /\ GoOn(t) /\ owner' = owner /\ z = "second"
        /\ bit' = [bit EXCEPT ![l] = FALSE]
    BY <1>3, <1>4, <1>10 DEF Clear
  <2>2. \A x \in Files : HasFile(t, x)'
    BY <1>3, <1>4, <1>5, <1>6, <1>10, <2>1 DEF HasFile, Rwsems
  <2>3. \A x \in Roots : HasRoot(t, x)'
    BY <1>3, <1>4, <1>5, <1>6, <1>10, <2>1 DEF HasRoot, Rwsems
  <2>4. /\ UNCHANGED owner \/ (owner[l] \in {NoThread, t} /\ \E o \in {NoThread, t} : owner' = [owner EXCEPT ![l] = o])
        /\ UNCHANGED bit \/ \E b \in BOOLEAN : bit' = [bit EXCEPT ![l] = b]
        /\ (\E s \in Steps : Step(t, s)) \/ GoOn(t)
    BY <1>3, <1>4, <1>5, <1>6, <1>10, <2>1 DEF HasFile
  <2>5. (bit'[l] => bit[l]) /\ (GoOn(t) => ~bit'[l])
    BY <1>3, <1>4, <1>5, <1>6, <1>10, <2>1 DEF HasFile
  <2>6. QED  BY <1>3, <1>6, <2>2, <2>3, <2>4, <2>5, LockStep
<1>11. QED  BY <1>7, <1>8, <1>9, <1>10 DEF vm_unlock_mapping, Test

LEMMA LockAnonVma ==
  ASSUME IInv, NEW t \in Takers, NEW l \in Roots, vm_lock_anon_vma(t, l)
  PROVE  IInv'
<1> DEFINE ops == {"anon"}
<1>1. PICK z \in {"test", "first", "second"} : At(t, ops, Roots, l, z)
  BY DEF vm_lock_anon_vma
<1>2. ops \subseteq LockOps \cup {"drop"} /\ Roots \in {Files, Roots}
  BY DEF LockOps
<1> HIDE DEF ops
<1>3. /\ call[t].op \in ops /\ call[t].step = z /\ AtLast(call[t])
      /\ call[t].j \in DOMAIN LocksOf(call[t].op, Vma(call[t]))
      /\ l = LocksOf(call[t].op, Vma(call[t]))[call[t].j]
      /\ mm_all_locks_mutex = t
      /\ owner \in [Rwsems -> Threads \cup {NoThread}] /\ bit \in [Files \cup Roots -> BOOLEAN]
      /\ l \in Shared /\ l \in Rwsems /\ l \in Files \cup Roots /\ t # NoThread
  BY <1>1, <1>2, AtHere
<1>4. /\ \A ops2, kind2, x, z2 : At(t, ops2, kind2, x, z2)
           <=> call[t].op \in ops2 /\ z2 = z /\ x = l /\ x \in kind2
      /\ \A s \in Steps : Step(t, s) => \A ops2, kind2, x, z2 : At(t, ops2, kind2, x, z2)'
           <=> call[t].op \in ops2 /\ z2 = s /\ x = l /\ x \in kind2
      /\ GoOn(t) => \A ops2, kind2, x :
           ~At(t, ops2, kind2, x, "first")' /\ ~At(t, ops2, kind2, x, "second")'
  BY <1>1, <1>2, AtNext
<1>5. /\ \A x \in Roots : HasRoot(t, x)
      /\ \A x \in Files : HasFile(t, x) /\ x # l
  BY <1>3, OwnerHas, LocksAssumption
<1>6. /\ "test" \in Steps /\ "first" \in Steps /\ "second" \in Steps
      /\ call[t].op \in LockOps /\ call[t].op # "drop" /\ UNCHANGED <<mm_all_locks_mutex, marked>>
      /\ call[t].op \in LockOps \cup {"drop"}
  BY <1>3 DEF ops, Steps, LockOps, vm_lock_anon_vma
<1>7. CASE At(t, {"anon"}, Roots, l, "test") /\ Test(t, l, FALSE) /\ ~bit[l]
  <2>1. Step(t, "first") /\ bit' = bit /\ owner' = owner /\ z = "test"
    BY <1>3, <1>4, <1>7 DEF Test
  <2>2. \A x \in Roots : HasRoot(t, x)'
    BY <1>3, <1>4, <1>5, <1>6, <1>7, <2>1 DEF HasRoot, Rwsems
  <2>3. \A x \in Files : HasFile(t, x)'
    BY <1>3, <1>4, <1>5, <1>6, <1>7, <2>1 DEF HasFile, Rwsems
  <2>4. /\ UNCHANGED owner \/ (owner[l] \in {NoThread, t} /\ \E o \in {NoThread, t} : owner' = [owner EXCEPT ![l] = o])
        /\ UNCHANGED bit \/ \E b \in BOOLEAN : bit' = [bit EXCEPT ![l] = b]
        /\ (\E s \in Steps : Step(t, s)) \/ GoOn(t)
    BY <1>3, <1>4, <1>5, <1>6, <1>7, <2>1 DEF HasRoot
  <2>5. (owner[l] = t => owner'[l] = t) /\ (GoOn(t) => owner'[l] = t)
    BY <1>3, <1>4, <1>5, <1>6, <1>7, <2>1 DEF HasRoot
  <2>6. QED  BY <1>3, <1>6, <2>2, <2>3, <2>4, <2>5, LockStep
<1>8. CASE At(t, {"anon"}, Roots, l, "test") /\ Test(t, l, FALSE) /\ bit[l]
  <2>1. GoOn(t) /\ bit' = bit /\ owner' = owner /\ z = "test"
    BY <1>3, <1>4, <1>8 DEF Test
  <2>2. \A x \in Roots : HasRoot(t, x)'
    BY <1>3, <1>4, <1>5, <1>6, <1>8, <2>1 DEF HasRoot, Rwsems
  <2>3. \A x \in Files : HasFile(t, x)'
    BY <1>3, <1>4, <1>5, <1>6, <1>8, <2>1 DEF HasFile, Rwsems
  <2>4. /\ UNCHANGED owner \/ (owner[l] \in {NoThread, t} /\ \E o \in {NoThread, t} : owner' = [owner EXCEPT ![l] = o])
        /\ UNCHANGED bit \/ \E b \in BOOLEAN : bit' = [bit EXCEPT ![l] = b]
        /\ (\E s \in Steps : Step(t, s)) \/ GoOn(t)
    BY <1>3, <1>4, <1>5, <1>6, <1>8, <2>1 DEF HasRoot
  <2>5. (owner[l] = t => owner'[l] = t) /\ (GoOn(t) => owner'[l] = t)
    BY <1>3, <1>4, <1>5, <1>6, <1>8, <2>1 DEF HasRoot
  <2>6. QED  BY <1>3, <1>6, <2>2, <2>3, <2>4, <2>5, LockStep
<1>9. CASE At(t, {"anon"}, Roots, l, "first") /\ Down(t, l) /\ Step(t, "second") /\ UNCHANGED bit
  <2>1. /\ Step(t, "second") /\ bit' = bit /\ z = "first"
        /\ owner[l] = NoThread /\ owner' = [owner EXCEPT ![l] = t]
    BY <1>3, <1>4, <1>9 DEF Down
  <2>2. /\ owner'[l] = t /\ \A x \in Rwsems : x # l => owner'[x] = owner[x]
        /\ bit' = bit /\ ~bit[l]
    BY <1>3, <1>4, <1>5, <1>6, <2>1 DEF HasRoot
  <2>3. \A ops2, kind2, x, z2 : At(t, ops2, kind2, x, z2)'
          <=> call[t].op \in ops2 /\ z2 = "second" /\ x = l /\ x \in kind2
    BY <1>4, <1>6, <2>1
  <2>4. \A x \in Roots : HasRoot(t, x)'
    <3>1. HasRoot(t, l)'
      <4>1. call[t].op = "anon"
        BY <1>4, <1>9
      <4>2. /\ \A ops2 : ~At(t, ops2, Roots, l, "first")'
            /\ At(t, {"anon", "drop"}, Roots, l, "second")'
        BY <2>3, <4>1
      <4> QED  BY <2>2, <4>2 DEF HasRoot
    <3>2. ASSUME NEW x \in Roots, x # l PROVE HasRoot(t, x)'
      <4>1. owner'[x] = owner[x] /\ bit'[x] = bit[x]
        BY <2>2, <3>2 DEF Rwsems
      <4>2. \A ops2, z2 : ~At(t, ops2, Roots, x, z2) /\ ~At(t, ops2, Roots, x, z2)'
        BY <1>4, <2>3, <3>2
      <4>3. HasRoot(t, x)
        BY <1>5
      <4> QED  BY <4>1, <4>2, <4>3 DEF HasRoot
    <3> QED  BY <3>1, <3>2
  <2>5. \A x \in Files : HasFile(t, x)'
    <3> SUFFICES ASSUME NEW x \in Files PROVE HasFile(t, x)'
      OBVIOUS
    <3>1. x # l /\ HasFile(t, x)
      BY <1>5
    <3>2. owner'[x] = owner[x] /\ bit'[x] = bit[x]
      BY <2>2, <3>1 DEF Rwsems
    <3>3. \A ops2, z2 : ~At(t, ops2, Files, x, z2) /\ ~At(t, ops2, Files, x, z2)'
      BY <1>4, <2>3, <3>1
    <3> QED  BY <3>1, <3>2, <3>3 DEF HasFile
  <2>6. /\ UNCHANGED owner \/ (owner[l] \in {NoThread, t} /\ \E o \in {NoThread, t} : owner' = [owner EXCEPT ![l] = o])
        /\ UNCHANGED bit \/ \E b \in BOOLEAN : bit' = [bit EXCEPT ![l] = b]
        /\ (\E s \in Steps : Step(t, s)) \/ GoOn(t)
    BY <1>3, <1>4, <1>5, <1>6, <1>9, <2>1 DEF HasRoot
  <2>7. (owner[l] = t => owner'[l] = t) /\ (GoOn(t) => owner'[l] = t)
    BY <1>3, <1>4, <1>5, <1>6, <1>9, <2>1 DEF HasRoot
  <2>8. QED  BY <1>3, <1>6, <2>4, <2>5, <2>6, <2>7, LockStep
<1>10. CASE At(t, {"anon"}, Roots, l, "second") /\ Set(l) /\ GoOn(t) /\ UNCHANGED owner
  <2>1. /\ GoOn(t) /\ owner' = owner /\ z = "second"
        /\ bit' = [bit EXCEPT ![l] = TRUE]
    BY <1>3, <1>4, <1>10 DEF Set
  <2>2. \A x \in Roots : HasRoot(t, x)'
    BY <1>3, <1>4, <1>5, <1>6, <1>10, <2>1 DEF HasRoot, Rwsems
  <2>3. \A x \in Files : HasFile(t, x)'
    BY <1>3, <1>4, <1>5, <1>6, <1>10, <2>1 DEF HasFile, Rwsems
  <2>4. /\ UNCHANGED owner \/ (owner[l] \in {NoThread, t} /\ \E o \in {NoThread, t} : owner' = [owner EXCEPT ![l] = o])
        /\ UNCHANGED bit \/ \E b \in BOOLEAN : bit' = [bit EXCEPT ![l] = b]
        /\ (\E s \in Steps : Step(t, s)) \/ GoOn(t)
    BY <1>3, <1>4, <1>5, <1>6, <1>10, <2>1 DEF HasRoot
  <2>5. (owner[l] = t => owner'[l] = t) /\ (GoOn(t) => owner'[l] = t)
    BY <1>3, <1>4, <1>5, <1>6, <1>10, <2>1 DEF HasRoot
  <2>6. QED  BY <1>3, <1>6, <2>2, <2>3, <2>4, <2>5, LockStep
<1>11. QED  BY <1>7, <1>8, <1>9, <1>10 DEF vm_lock_anon_vma, Test

LEMMA UnlockAnonVma ==
  ASSUME IInv, NEW t \in Takers, NEW l \in Roots, vm_unlock_anon_vma(t, l)
  PROVE  IInv'
<1> DEFINE ops == {"drop"}
<1>1. PICK z \in {"test", "first", "second"} : At(t, ops, Roots, l, z)
  BY DEF vm_unlock_anon_vma
<1>2. ops \subseteq LockOps \cup {"drop"} /\ Roots \in {Files, Roots}
  BY DEF LockOps
<1> HIDE DEF ops
<1>3. /\ call[t].op \in ops /\ call[t].step = z /\ AtLast(call[t])
      /\ call[t].j \in DOMAIN LocksOf(call[t].op, Vma(call[t]))
      /\ l = LocksOf(call[t].op, Vma(call[t]))[call[t].j]
      /\ mm_all_locks_mutex = t
      /\ owner \in [Rwsems -> Threads \cup {NoThread}] /\ bit \in [Files \cup Roots -> BOOLEAN]
      /\ l \in Shared /\ l \in Rwsems /\ l \in Files \cup Roots /\ t # NoThread
  BY <1>1, <1>2, AtHere
<1>4. /\ \A ops2, kind2, x, z2 : At(t, ops2, kind2, x, z2)
           <=> call[t].op \in ops2 /\ z2 = z /\ x = l /\ x \in kind2
      /\ \A s \in Steps : Step(t, s) => \A ops2, kind2, x, z2 : At(t, ops2, kind2, x, z2)'
           <=> call[t].op \in ops2 /\ z2 = s /\ x = l /\ x \in kind2
      /\ GoOn(t) => \A ops2, kind2, x :
           ~At(t, ops2, kind2, x, "first")' /\ ~At(t, ops2, kind2, x, "second")'
  BY <1>1, <1>2, AtNext
<1>5. /\ \A x \in Roots : HasRoot(t, x)
      /\ \A x \in Files : HasFile(t, x) /\ x # l
  BY <1>3, OwnerHas, LocksAssumption
<1>6. /\ "test" \in Steps /\ "first" \in Steps /\ "second" \in Steps
      /\ call[t].op = "drop" /\ call[t].op \notin LockOps /\ UNCHANGED <<mm_all_locks_mutex, marked>>
      /\ call[t].op \in LockOps \cup {"drop"}
  BY <1>3 DEF ops, Steps, LockOps, vm_unlock_anon_vma
<1>7. CASE At(t, {"drop"}, Roots, l, "test") /\ Test(t, l, TRUE) /\ bit[l]
  <2>1. Step(t, "first") /\ bit' = bit /\ owner' = owner /\ z = "test"
    BY <1>3, <1>4, <1>7 DEF Test
  <2>2. \A x \in Roots : HasRoot(t, x)'
    BY <1>3, <1>4, <1>5, <1>6, <1>7, <2>1 DEF HasRoot, Rwsems
  <2>3. \A x \in Files : HasFile(t, x)'
    BY <1>3, <1>4, <1>5, <1>6, <1>7, <2>1 DEF HasFile, Rwsems
  <2>4. /\ UNCHANGED owner \/ (owner[l] \in {NoThread, t} /\ \E o \in {NoThread, t} : owner' = [owner EXCEPT ![l] = o])
        /\ UNCHANGED bit \/ \E b \in BOOLEAN : bit' = [bit EXCEPT ![l] = b]
        /\ (\E s \in Steps : Step(t, s)) \/ GoOn(t)
    BY <1>3, <1>4, <1>5, <1>6, <1>7, <2>1 DEF HasRoot
  <2>5. (bit'[l] => bit[l]) /\ (GoOn(t) => ~bit'[l])
    BY <1>3, <1>4, <1>5, <1>6, <1>7, <2>1 DEF HasRoot
  <2>6. QED  BY <1>3, <1>6, <2>2, <2>3, <2>4, <2>5, LockStep
<1>8. CASE At(t, {"drop"}, Roots, l, "test") /\ Test(t, l, TRUE) /\ ~bit[l]
  <2>1. GoOn(t) /\ bit' = bit /\ owner' = owner /\ z = "test"
    BY <1>3, <1>4, <1>8 DEF Test
  <2>2. \A x \in Roots : HasRoot(t, x)'
    BY <1>3, <1>4, <1>5, <1>6, <1>8, <2>1 DEF HasRoot, Rwsems
  <2>3. \A x \in Files : HasFile(t, x)'
    BY <1>3, <1>4, <1>5, <1>6, <1>8, <2>1 DEF HasFile, Rwsems
  <2>4. /\ UNCHANGED owner \/ (owner[l] \in {NoThread, t} /\ \E o \in {NoThread, t} : owner' = [owner EXCEPT ![l] = o])
        /\ UNCHANGED bit \/ \E b \in BOOLEAN : bit' = [bit EXCEPT ![l] = b]
        /\ (\E s \in Steps : Step(t, s)) \/ GoOn(t)
    BY <1>3, <1>4, <1>5, <1>6, <1>8, <2>1 DEF HasRoot
  <2>5. (bit'[l] => bit[l]) /\ (GoOn(t) => ~bit'[l])
    BY <1>3, <1>4, <1>5, <1>6, <1>8, <2>1 DEF HasRoot
  <2>6. QED  BY <1>3, <1>6, <2>2, <2>3, <2>4, <2>5, LockStep
<1>9. CASE At(t, {"drop"}, Roots, l, "first") /\ Clear(l) /\ Step(t, "second") /\ UNCHANGED owner
  <2>1. /\ Step(t, "second") /\ owner' = owner /\ z = "first"
        /\ bit' = [bit EXCEPT ![l] = FALSE]
    BY <1>3, <1>4, <1>9 DEF Clear
  <2>2. \A x \in Roots : HasRoot(t, x)'
    BY <1>3, <1>4, <1>5, <1>6, <1>9, <2>1 DEF HasRoot, Rwsems
  <2>3. \A x \in Files : HasFile(t, x)'
    BY <1>3, <1>4, <1>5, <1>6, <1>9, <2>1 DEF HasFile, Rwsems
  <2>4. /\ UNCHANGED owner \/ (owner[l] \in {NoThread, t} /\ \E o \in {NoThread, t} : owner' = [owner EXCEPT ![l] = o])
        /\ UNCHANGED bit \/ \E b \in BOOLEAN : bit' = [bit EXCEPT ![l] = b]
        /\ (\E s \in Steps : Step(t, s)) \/ GoOn(t)
    BY <1>3, <1>4, <1>5, <1>6, <1>9, <2>1 DEF HasRoot
  <2>5. (bit'[l] => bit[l]) /\ (GoOn(t) => ~bit'[l])
    BY <1>3, <1>4, <1>5, <1>6, <1>9, <2>1 DEF HasRoot
  <2>6. QED  BY <1>3, <1>6, <2>2, <2>3, <2>4, <2>5, LockStep
<1>10. CASE At(t, {"drop"}, Roots, l, "second") /\ Up(l) /\ GoOn(t) /\ UNCHANGED bit
  <2>1. /\ GoOn(t) /\ bit' = bit /\ z = "second"
        /\ owner' = [owner EXCEPT ![l] = NoThread]
    BY <1>3, <1>4, <1>10 DEF Up
  <2>2. \A x \in Roots : HasRoot(t, x)'
    BY <1>3, <1>4, <1>5, <1>6, <1>10, <2>1 DEF HasRoot, Rwsems
  <2>3. \A x \in Files : HasFile(t, x)'
    BY <1>3, <1>4, <1>5, <1>6, <1>10, <2>1 DEF HasFile, Rwsems
  <2>4. ~bit[l] /\ owner[l] = t
    <3>1. At(t, {"anon", "drop"}, Roots, l, "second")
      BY <1>4, <1>6, <2>1
    <3>2. QED  BY <1>5, <3>1 DEF HasRoot
  <2>5. /\ UNCHANGED owner \/ (owner[l] \in {NoThread, t} /\ \E o \in {NoThread, t} : owner' = [owner EXCEPT ![l] = o])
        /\ UNCHANGED bit \/ \E b \in BOOLEAN : bit' = [bit EXCEPT ![l] = b]
        /\ (\E s \in Steps : Step(t, s)) \/ GoOn(t)
    BY <2>1, <2>4
  <2>6. (bit'[l] => bit[l]) /\ (GoOn(t) => ~bit'[l])
    BY <2>1, <2>4
  <2>7. QED  BY <1>3, <1>6, <2>2, <2>3, <2>5, <2>6, LockStep
<1>11. QED  BY <1>7, <1>8, <1>9, <1>10 DEF vm_unlock_anon_vma, Test

-----------------------------------------------------------------------------
(* The other steps of a caller *)

(* A step of the owner that touches no lock. *)
LEMMA NoLockStep ==
  ASSUME IInv, NEW t \in Takers, UNCHANGED <<mm_all_locks_mutex, owner, bit>>,
         mm_all_locks_mutex = t, call'[t].step = "test",
         call[t].step = "test" \/ LocksOf(call[t].op, Vma(call[t])) = <<>>,
         \A w \in Takers \ {t} : call'[w] = call[w]
  PROVE  FilesAreHeld' /\ RootsAreHeld'
<1>1. (\A l \in Files : HasFile(t, l)) /\ (\A l \in Roots : HasRoot(t, l))
  BY OwnerHas
<1>2. DOMAIN <<>> = {}
  BY EmptySeq, LenProperties
<1>3. \A ops, kind, l : /\ ~At(t, ops, kind, l, "first")' /\ ~At(t, ops, kind, l, "second")'
                        /\ ~At(t, ops, kind, l, "first")  /\ ~At(t, ops, kind, l, "second")
  BY <1>2, AtAfterGoOn DEF At
<1>4. (\A l \in Files : HasFile(t, l)') /\ (\A l \in Roots : HasRoot(t, l)')
  BY <1>1, <1>3 DEF HasFile, HasRoot
<1>5. QED  BY <1>4, OwnerHasNext

(* A signal, or the caller, begins the dropping pass. *)
LEMMA DropBegins ==
  ASSUME IInv, NEW t \in Takers, call[t].op \in Passes \cup {"held"}, call[t].step = "test",
         NEW d, Become(t, d), Valid(d), d.op = "drop", d.mm = call[t].mm, d.i = 1, d.j = 1,
         d.step = "test", UNCHANGED <<mm_all_locks_mutex, owner, bit, marked>>
  PROVE  IInv'
<1> DEFINE c == call[t]
<1>1. c.mm \in Mms
  BY CallsAre DEF IInv, Threads, Valid, CallType
<1>2. /\ TypeOK' /\ Roles' /\ MutexIsHeld' /\ MmapLockIsHeld' /\ MarksKeepFaultsOut'
      /\ OthersHold' /\ mm_all_locks_mutex = t
      /\ call'[t] = d /\ \A u \in Threads \ {t} : call'[u] = call[u]
  <2>1. /\ d.op \in Passes \cup {"held", "leave"} /\ d.op \notin {"vmas", "held"}
        /\ marked' \subseteq Areas /\ bit' \in [Files \cup Roots -> BOOLEAN]
        /\ owner' \in [Rwsems -> Threads \cup {NoThread}]
    BY DEF IInv, TypeOK, Passes
  <2>2. QED  BY <2>1, OwnerKeeps
<1>3. \A w \in Takers \ {t} : call'[w] = call[w]
  BY <1>2 DEF Threads
<1>4. AreasAreMarked'
  BY <1>2, <1>3 DEF IInv, AreasAreMarked, LockOps
<1>5. FilesAreHeld' /\ RootsAreHeld'
  BY <1>2, <1>3, NoLockStep
<1>6. TakenSoFar'
  <2>1. \A p \in LockOps : \A i, k : ~Passed(d, p, i, k)
    BY DEF Passed, Earlier, LockOps
  <2>2. QED  BY <1>2, <1>3, <2>1 DEF IInv, TakenSoFar
<1>7. LeftToDrop'
  <2>1. ASSUME NEW l \in Shared, bit'[l]
        PROVE  d.op # "leave" /\ ToBeDropped(d, l)
    <3>1. PICK i \in DOMAIN Vmas[c.mm] : \E k \in DOMAIN LocksOf("drop", Vmas[c.mm][i]) :
            l = LocksOf("drop", Vmas[c.mm][i])[k]
      BY <1>2, <2>1 DEF IInv, LeftToDrop, ToBeDropped
    <3>2. PICK k \in DOMAIN LocksOf("drop", Vmas[c.mm][i]) : l = LocksOf("drop", Vmas[c.mm][i])[k]
      BY <3>1
    <3>3. i \in Nat \ {0} /\ k \in Nat \ {0}
      BY <1>1, VmasAre, LocksAre
    <3>4. ~Before(d, i, k)
      BY <3>3 DEF Before
    <3>5. QED  BY <3>2, <3>4 DEF ToBeDropped
  <2>2. QED  BY <1>2, <2>1 DEF LeftToDrop
<1>8. QED  BY <1>2, <1>4, <1>5, <1>6, <1>7 DEF IInv

LEMMA InterruptedKeeps ==
  ASSUME IInv, NEW t \in Takers, Interrupted(t)
  PROVE  IInv'
<1> DEFINE c == call[t]  d == [NoCall(c.mm) EXCEPT !.op = "drop"]
<1>1. /\ c.op \in Passes /\ c.step = "test" /\ Become(t, d)
      /\ UNCHANGED <<mm_all_locks_mutex, owner, bit, marked>>
  BY DEF Interrupted
<1>2. c.mm \in Mms /\ "drop" \in Ops
  BY CallsAre DEF IInv, Threads, Valid, CallType, Ops, Passes
<1>3. Valid(d) /\ d.op = "drop" /\ d.mm = c.mm /\ d.i = 1 /\ d.j = 1 /\ d.step = "test"
  BY <1>2, FirstIsValid DEF NoCall
<1> HIDE DEF d
<1>4. QED  BY <1>1, <1>3, DropBegins

LEMMA DropKeeps ==
  ASSUME IInv, NEW t \in Takers, Drop(t)
  PROVE  IInv'
<1> DEFINE c == call[t]  d == [c EXCEPT !.op = "drop"]
<1>1. /\ c.op = "held" /\ c.step = "test" /\ c.i = 1 /\ c.j = 1 /\ Become(t, d)
      /\ UNCHANGED <<mm_all_locks_mutex, owner, bit, marked>>
  BY DEF Drop, IInv, Roles
<1>2. c \in CallType /\ c.mm \in Mms /\ "drop" \in Ops
  BY CallsAre DEF IInv, Threads, Valid, CallType, Ops, Passes
<1>3. d.op = "drop" /\ d.mm = c.mm /\ d.i = 1 /\ d.j = 1 /\ d.step = "test"
  BY <1>1, <1>2 DEF CallType
<1>4. d = [NoCall(c.mm) EXCEPT !.op = "drop"]
  BY <1>1, <1>2 DEF CallType, NoCall
<1>5. Valid(d)
  BY <1>2, <1>4, FirstIsValid
<1> HIDE DEF d
<1>6. QED  BY <1>1, <1>3, <1>5, DropBegins

LEMMA SkipKeeps ==
  ASSUME IInv, NEW t \in Takers, SkipVma(t)
  PROVE  IInv'
<1>1. /\ call[t].op \in LockOps \cup {"drop"} /\ GoOn(t) /\ AtLast(call[t])
      /\ LocksOf(call[t].op, Vma(call[t])) = <<>>
      /\ UNCHANGED <<mm_all_locks_mutex, owner, bit, marked>>
  BY DEF SkipVma, LockOps, Passes, AtLast
<1>2. DOMAIN LocksOf(call[t].op, Vma(call[t])) = {}
  BY <1>1, EmptySeq, LenProperties
<1>3. owner' \in [Rwsems -> Threads \cup {NoThread}] /\ bit' \in [Files \cup Roots -> BOOLEAN]
  BY <1>1 DEF IInv, TypeOK
<1>4. /\ TypeOK' /\ Roles' /\ MutexIsHeld' /\ MmapLockIsHeld' /\ MarksKeepFaultsOut'
      /\ AreasAreMarked' /\ OthersHold' /\ mm_all_locks_mutex = t
      /\ \A u \in Threads \ {t} : call'[u] = call[u]
  BY <1>1, <1>3, PassGoesOn
<1>5. \A w \in Takers \ {t} : call'[w] = call[w]
  BY <1>4 DEF Threads
<1>6. call'[t].step = "test"
  <2>1. Valid(call[t]) /\ call[t].op \in Passes /\ call'[t] = Advance(call[t])
    BY <1>1, CallsAre DEF IInv, TypeOK, Threads, GoOn, Become, LockOps, Passes
  <2>2. QED  BY <1>1, <2>1, AdvanceGoesOn
<1>7. FilesAreHeld' /\ RootsAreHeld'
  BY <1>1, <1>4, <1>5, <1>6, NoLockStep
<1>8. TakenSoFar'
  BY <1>1, <1>2, <1>4, <1>5, TakenGoesOn
<1>9. LeftToDrop'
  <2>1. call[t].op = "drop" => DOMAIN LocksOf("drop", Vma(call[t])) = {}
    BY <1>2
  <2>2. QED  BY <1>1, <1>4, <2>1, LeftGoesOn
<1>10. QED  BY <1>4, <1>7, <1>8, <1>9 DEF IInv

LEMMA MarkKeeps ==
  ASSUME IInv, NEW t \in Takers, MarkVma(t)
  PROVE  IInv'
<1> DEFINE c == call[t]  d == Advance(c)
<1>1. /\ c.op = "vmas" /\ c.op \in Passes /\ c.step = "test" /\ Become(t, d)
      /\ UNCHANGED <<mm_all_locks_mutex, owner, bit>>
      /\ \A u \in Threads : ~(call[u].op = "fault" /\ call[u].mm = c.mm /\ call[u].i = c.i)
      /\ marked' = marked \cup {<<c.mm, c.i>>}
  BY DEF MarkVma, vma_start_write, GoOn, IInv, Roles, Passes
<1>2. Valid(c) /\ c.mm \in Mms /\ c.i \in DOMAIN Vmas[c.mm]
  BY CallsAre DEF IInv, Threads, Valid, CallType
<1>3. AtLast(c)
  BY <1>1, <1>2, VmasAre, LocksAre DEF AtLast, Vma, LockOps
<1>4. /\ Valid(d) /\ d.mm = c.mm /\ d.step = "test"
      /\ d.op = "vmas" \/ d.op = "hugetlb"
  BY <1>1, <1>2, <1>3, AdvanceGoesOn DEF After
<1>5. \A i \in DOMAIN Vmas[c.mm] :
        d.op \in LockOps \cup {"held"} \/ (d.op = "vmas" /\ i < d.i) => <<c.mm, i>> \in marked'
  <2>1. \A i \in DOMAIN Vmas[c.mm] :
          d.op \in LockOps \cup {"held"} \/ (d.op = "vmas" /\ i < d.i)
            => \/ c.op \in LockOps \cup {"held"} \/ (c.op = "vmas" /\ i < c.i)
               \/ (c.op = "vmas" /\ i = c.i)
    BY <1>1, <1>2, <1>3, AdvanceGoesOn
  <2>2. QED  BY <1>1, <2>1 DEF IInv, AreasAreMarked
<1>6. \A p \in LockOps : \A i \in DOMAIN Vmas[c.mm] : \A k \in DOMAIN LocksOf(p, Vmas[c.mm][i]) :
        ~Passed(d, p, i, k)
  <2>1. \A p \in LockOps : \A i, k : ~Passed(c, p, i, k) /\ p # c.op
    BY <1>1 DEF Passed, Earlier, LockOps
  <2>2. \A p \in LockOps : \A i \in DOMAIN Vmas[c.mm] : \A k \in DOMAIN LocksOf(p, Vmas[c.mm][i]) :
          Passed(d, p, i, k) => Passed(c, p, i, k) \/ (p = c.op /\ i = c.i /\ k = c.j)
    BY <1>1, <1>2, <1>3, AdvanceGoesOn
  <2>3. QED  BY <2>1, <2>2
<1> HIDE DEF d
<1>7. /\ TypeOK' /\ Roles' /\ MutexIsHeld' /\ MmapLockIsHeld' /\ MarksKeepFaultsOut'
      /\ OthersHold' /\ mm_all_locks_mutex = t
      /\ call'[t] = d /\ \A u \in Threads \ {t} : call'[u] = call[u]
  <2>1. marked' \subseteq Areas /\ <<c.mm, c.i>> \in Areas
    BY <1>1, <1>2, AreasAre DEF IInv, TypeOK
  <2>2. \A a \in marked' \ marked : \A u \in Others :
          call[u].op = "fault" => <<call[u].mm, call[u].i>> # a
    BY <1>1 DEF Threads
  <2>3. /\ d.op \in Passes \cup {"held", "leave"} /\ d.op # "held"
        /\ bit' \in [Files \cup Roots -> BOOLEAN]
        /\ owner' \in [Rwsems -> Threads \cup {NoThread}]
        /\ \A l \in Rwsems : owner'[l] = owner[l]
        /\ marked \subseteq marked'
    BY <1>1, <1>4 DEF IInv, TypeOK, Passes
  <2>4. QED  BY <1>1, <1>4, <2>1, <2>2, <2>3, OwnerKeeps
<1>8. \A w \in Takers \ {t} : call'[w] = call[w]
  BY <1>7 DEF Threads
<1>9. AreasAreMarked'
  <2>1. \A w \in Takers \ {t} : \A i \in DOMAIN Vmas[call'[w].mm] :
          call'[w].op \in LockOps \cup {"held"} \/ (call'[w].op = "vmas" /\ i < call'[w].i)
            => <<call'[w].mm, i>> \in marked'
    BY <1>1, <1>8 DEF IInv, AreasAreMarked
  <2>2. \A i \in DOMAIN Vmas[call'[t].mm] :
          call'[t].op \in LockOps \cup {"held"} \/ (call'[t].op = "vmas" /\ i < call'[t].i)
            => <<call'[t].mm, i>> \in marked'
    BY <1>4, <1>5, <1>7
  <2>3. ASSUME NEW w \in Takers
        PROVE  \A i \in DOMAIN Vmas[call'[w].mm] :
          call'[w].op \in LockOps \cup {"held"} \/ (call'[w].op = "vmas" /\ i < call'[w].i)
            => <<call'[w].mm, i>> \in marked'
    <3>1. CASE w = t
      BY <2>2, <3>1, Zenon
    <3>2. CASE w # t
      <4>1. w \in Takers \ {t}
        BY <3>2
      <4> QED  BY <2>1, <4>1, Zenon
    <3> QED  BY <3>1, <3>2
  <2>4. QED  BY <2>3, Zenon DEF AreasAreMarked
<1>10. FilesAreHeld' /\ RootsAreHeld'
  BY <1>1, <1>4, <1>7, <1>8, NoLockStep
<1>11. TakenSoFar'
  BY <1>1, <1>4, <1>6, <1>7, <1>8 DEF IInv, TakenSoFar
<1>12. LeftToDrop'
  BY <1>1, <1>4, <1>7 DEF IInv, LeftToDrop, ToBeDropped
<1>13. QED  BY <1>7, <1>9, <1>10, <1>11, <1>12 DEF IInv

(* A taker without the mutex takes or drops its mmap_lock. *)
LEMMA OutsideKeeps ==
  ASSUME IInv, NEW t \in Takers, mm_all_locks_mutex # t, call[t].op \in {"idle", "leave"},
         NEW d, Become(t, d), Valid(d), d.op \in {"idle", "enter"},
         d.op = "enter" => d.i = 1 /\ d.j = 1 /\ d.step = "test",
         NEW m \in Mms, NEW o \in {NoThread, t}, owner[m] \in {NoThread, t},
         owner' = [owner EXCEPT ![m] = o], d.op = "enter" => d.mm = m /\ o = t,
         UNCHANGED <<mm_all_locks_mutex, bit>>, marked' \subseteq marked,
         \A a \in marked \ marked' : a[1] = m
  PROVE  IInv'
<1>1. t \in Threads /\ owner \in [Rwsems -> Threads \cup {NoThread}] /\ m \in Rwsems /\ m \notin Shared
      /\ Shared \subseteq Rwsems
  BY LocksAssumption DEF IInv, TypeOK, Threads, Rwsems, Shared
<1>2. /\ owner' \in [Rwsems -> Threads \cup {NoThread}] /\ owner'[m] = o
      /\ \A l \in Rwsems \ {m} : owner'[l] = owner[l]
      /\ \A l \in Shared : owner'[l] = owner[l]
  BY <1>1
<1>3. TypeOK' /\ call'[t] = d /\ \A u \in Threads \ {t} : call'[u] = call[u]
  BY <1>1, <1>2, TypesGoOn DEF IInv, TypeOK
<1>4. /\ \A w \in Takers \ {t} : call'[w] = call[w]
      /\ \A u \in Others : call'[u] = call[u]
  BY <1>3, LocksAssumption DEF Threads
<1>5. \A w \in Threads \ {t} : call[w].op \notin {"idle", "fault"} => call[w].mm # m
  BY LocksAssumption DEF IInv, MmapLockIsHeld, Threads
<1>6. Roles'
  BY <1>3, <1>4 DEF IInv, Roles, Passes
<1>7. MutexIsHeld'
  BY <1>3, <1>4 DEF IInv, MutexIsHeld, Passes
<1>8. MmapLockIsHeld'
  <2>1. \A w \in Threads \ {t} : call[w].op \notin {"idle", "fault"} => owner'[call[w].mm] = w
    <3>1. \A w \in Threads : call[w].mm \in Rwsems
      BY CallsAre DEF IInv, Valid, CallType, Rwsems
    <3>2. QED  BY <1>2, <1>5, <3>1 DEF IInv, MmapLockIsHeld
  <2>2. d.op = "enter" => owner'[d.mm] = t
    BY <1>2
  <2>3. QED  BY <1>3, <2>1, <2>2 DEF MmapLockIsHeld
<1>9. MarksKeepFaultsOut'
  <2>1. d.op # "fault"
    OBVIOUS
  <2>2. QED  BY <1>3, <2>1 DEF IInv, MarksKeepFaultsOut
<1>10. AreasAreMarked'
  <2>1. \A w \in Takers \ {t} : \A i \in DOMAIN Vmas[call[w].mm] :
          call[w].op \in LockOps \cup {"held"} \/ (call[w].op = "vmas" /\ i < call[w].i)
            => <<call[w].mm, i>> \in marked'
    <3>1. \A w \in Takers \ {t} : \A i \in DOMAIN Vmas[call[w].mm] :
            call[w].op \in LockOps \cup {"held"} \/ (call[w].op = "vmas" /\ i < call[w].i)
              => <<call[w].mm, i>> \in marked /\ call[w].mm # m
      BY <1>5 DEF IInv, AreasAreMarked, LockOps, Threads
    <3>2. QED  BY <3>1
  <2>2. QED  BY <1>3, <1>4, <2>1 DEF AreasAreMarked, LockOps
<1>11. OthersHold'
  <2>1. \A u \in Others : Vma(call[u]) \in Area
    BY CallsAre, VmasAre DEF IInv, Valid, CallType, Vma, Threads
  <2>2. \A v \in Area : v.file \in Shared \cup {NoFile} /\ RootOf(v) \in Shared \cup {NoFile}
    BY EmptySeq, LenProperties, ElementOfSeq DEF Area, Shared, RootOf
  <2>3. \A u \in Others : Vma(call'[u]) = Vma(call[u])
    BY <1>4
  <2>4. QED  BY <1>2, <1>4, <2>1, <2>2, <2>3 DEF IInv, OthersHold
<1>12. \A w \in Takers : \A ops \in SUBSET Passes : \A kind, l, z :
         At(w, ops, kind, l, z)' <=> At(w, ops, kind, l, z)
  <2>1. \A w \in Takers \ {t} : \A ops \in SUBSET Passes : \A kind, l, z :
          At(w, ops, kind, l, z)' <=> At(w, ops, kind, l, z)
    BY <1>4, AtStays
  <2>2. \A ops \in SUBSET Passes : \A kind, l, z : ~At(t, ops, kind, l, z)' /\ ~At(t, ops, kind, l, z)
    BY <1>3 DEF At, Passes
  <2>3. QED  BY <2>1, <2>2
<1>13. {"hugetlb", "files"} \in SUBSET Passes /\ {"anon"} \in SUBSET Passes
       /\ {"drop"} \in SUBSET Passes /\ {"anon", "drop"} \in SUBSET Passes
       /\ {"hugetlb", "files", "drop"} \in SUBSET Passes
  BY DEF Passes
<1>14. FilesAreHeld'
  BY <1>2, <1>12, <1>13 DEF IInv, FilesAreHeld, Shared
<1>15. RootsAreHeld'
  BY <1>2, <1>12, <1>13 DEF IInv, RootsAreHeld, Shared
<1>16. TakenSoFar'
  <2>1. \A p \in LockOps : \A i, k : ~Passed(d, p, i, k)
    BY DEF Passed, Earlier, LockOps
  <2>2. \A w \in Takers, p \in LockOps : \A i \in DOMAIN Vmas[call[w].mm] :
          \A k \in DOMAIN LocksOf(p, Vmas[call[w].mm][i]) :
            LocksOf(p, Vmas[call[w].mm][i])[k] \in Shared
    <3>1. \A w \in Takers : call[w].mm \in Mms
      BY CallsAre DEF IInv, Valid, CallType, Threads
    <3>2. QED  BY <3>1, VmasAre, LocksAre
  <2>3. QED  BY <1>2, <1>3, <1>4, <2>1, <2>2 DEF IInv, TakenSoFar
<1>17. LeftToDrop'
  BY <1>4 DEF IInv, LeftToDrop
<1>18. QED  BY <1>3, <1>6, <1>7, <1>8, <1>9, <1>10, <1>11, <1>14, <1>15, <1>16, <1>17 DEF IInv

LEMMA EnterKeeps ==
  ASSUME IInv, NEW t \in Takers, NEW m \in Mms, TakeEnter(t, m)
  PROVE  IInv'
<1> DEFINE d == [NoCall(m) EXCEPT !.op = "enter"]
<1>1. /\ call[t].op = "idle" /\ Become(t, d) /\ owner[m] = NoThread
      /\ owner' = [owner EXCEPT ![m] = t] /\ UNCHANGED <<mm_all_locks_mutex, bit, marked>>
  BY DEF TakeEnter, Down
<1>2. Valid(d) /\ d.op = "enter" /\ d.mm = m /\ d.i = 1 /\ d.j = 1 /\ d.step = "test"
  BY FirstIsValid DEF NoCall, Ops
<1> HIDE DEF d
<1>3. mm_all_locks_mutex # t
  BY <1>1 DEF IInv, MutexIsHeld, Passes
<1>4. QED  BY <1>1, <1>2, <1>3, OutsideKeeps

LEMMA LeaveKeeps ==
  ASSUME IInv, NEW t \in Takers, TakeLeave(t)
  PROVE  IInv'
<1> DEFINE m == call[t].mm  d == NoCall(m)
<1>1. /\ call[t].op = "leave" /\ mm_all_locks_mutex # t /\ Become(t, d)
      /\ owner' = [owner EXCEPT ![m] = NoThread] /\ marked' = {a \in marked : a[1] # m}
      /\ UNCHANGED <<mm_all_locks_mutex, bit>>
  BY DEF TakeLeave, MmapUnlock, Up
<1>2. m \in Mms /\ owner[m] = t
  BY <1>1, CallsAre DEF IInv, MmapLockIsHeld, Threads, Valid, CallType
<1>3. Valid(d) /\ d.op = "idle"
  <2>1. "idle" \in Ops /\ d = [NoCall(m) EXCEPT !.op = "idle"] /\ d.op = "idle"
    BY DEF NoCall, Ops
  <2>2. QED  BY <1>2, <2>1, FirstIsValid
<1>4. marked' \subseteq marked /\ \A a \in marked \ marked' : a[1] = m
  BY <1>1
<1> HIDE DEF d, m
<1>5. /\ owner[m] \in {NoThread, t} /\ NoThread \in {NoThread, t} /\ d.op # "enter"
      /\ d.op \in {"idle", "enter"} /\ call[t].op \in {"idle", "leave"}
  BY <1>1, <1>2, <1>3
<1>6. /\ owner' = [owner EXCEPT ![m] = NoThread] /\ UNCHANGED <<mm_all_locks_mutex, bit>>
      /\ mm_all_locks_mutex # t /\ call[t].op \in {"idle", "leave"} /\ Become(t, d)
      /\ d.op \in {"idle", "enter"} /\ d.op # "enter" /\ NoThread \in {NoThread, t}
  BY <1>1, <1>5
<1>7. QED  BY <1>2, <1>3, <1>4, <1>5, <1>6, OutsideKeeps

(* Nothing is locked or set before the mutex is taken, or when it is dropped. *)
LEMMA NothingWithoutMutex ==
  ASSUME IInv, mm_all_locks_mutex = NoThread
                 \/ \E t \in Takers : mm_all_locks_mutex = t /\ call[t].op = "leave"
  PROVE  \A l \in Shared : ~bit[l] /\ owner[l] \notin Takers
<1>1. NoThread \notin Takers
  BY LocksAssumption
<1>2. \A w \in Takers : mm_all_locks_mutex = w => call[w].op = "leave"
  BY <1>1
<1>3. \A l \in Shared : ~bit[l]
  BY <1>1 DEF IInv, FilesAreHeld, RootsAreHeld, LeftToDrop, Shared
<1>4. \A l \in Files : owner[l] \notin Takers
  BY <1>3 DEF IInv, FilesAreHeld, Shared
<1>5. \A l \in Roots : owner[l] \notin Takers
  <2>1. SUFFICES ASSUME NEW l \in Roots, NEW w \in Takers, owner[l] = w
                 PROVE  FALSE
    OBVIOUS
  <2>2. mm_all_locks_mutex = w /\ At(w, {"anon", "drop"}, Roots, l, "second")
    BY <1>3, <2>1 DEF IInv, RootsAreHeld, Shared
  <2>3. call[w].op \in {"anon", "drop"}
    BY <2>2 DEF At
  <2>4. QED  BY <1>2, <2>2, <2>3
<1>6. QED  BY <1>3, <1>4, <1>5 DEF Shared

(* So the mutex may change its owner. *)
LEMMA MutexChanges ==
  ASSUME IInv, \A l \in Shared : ~bit[l] /\ owner[l] \notin Takers, UNCHANGED <<owner, bit>>,
         \A w \in Takers : call'[w].op \in {"idle", "enter", "vmas", "leave"}
  PROVE  FilesAreHeld' /\ RootsAreHeld' /\ TakenSoFar' /\ LeftToDrop'
<1>1. \A w \in Takers : \A ops \in SUBSET (LockOps \cup {"drop"}) : \A kind, l, z : ~At(w, ops, kind, l, z)'
  BY DEF At, LockOps
<1>2. {"hugetlb", "files"} \in SUBSET (LockOps \cup {"drop"})
      /\ {"anon"} \in SUBSET (LockOps \cup {"drop"}) /\ {"drop"} \in SUBSET (LockOps \cup {"drop"})
      /\ {"anon", "drop"} \in SUBSET (LockOps \cup {"drop"})
  BY DEF LockOps
<1>3. FilesAreHeld'
  BY <1>1, <1>2 DEF FilesAreHeld, Shared
<1>4. RootsAreHeld'
  BY <1>1, <1>2 DEF RootsAreHeld, Shared
<1>5. TakenSoFar'
  <2>1. \A w \in Takers, p \in LockOps : \A i, k : ~Passed(call'[w], p, i, k)
    BY DEF Passed, Earlier, LockOps
  <2>2. QED  BY <2>1 DEF TakenSoFar
<1>6. LeftToDrop'
  BY DEF LeftToDrop
<1>7. QED  BY <1>3, <1>4, <1>5, <1>6

LEMMA TakeMutexKeeps ==
  ASSUME IInv, NEW t \in Takers, TakeMutex(t)
  PROVE  IInv'
<1> DEFINE c == call[t]  d == [c EXCEPT !.op = "vmas"]
<1>1. /\ c.op = "enter" /\ mm_all_locks_mutex = NoThread /\ mm_all_locks_mutex' = t /\ Become(t, d)
      /\ c.i = 1 /\ c.j = 1 /\ c.step = "test" /\ UNCHANGED <<owner, bit, marked>>
  BY DEF TakeMutex, IInv, Roles
<1>2. c \in CallType /\ c.mm \in Mms /\ t \in Threads /\ "vmas" \in Ops
  BY CallsAre DEF IInv, Threads, Valid, CallType, Ops, Passes
<1>3. d.op = "vmas" /\ d.mm = c.mm /\ d.i = 1 /\ d.j = 1 /\ d.step = "test"
  BY <1>1, <1>2 DEF CallType
<1>4. d = [NoCall(c.mm) EXCEPT !.op = "vmas"]
  BY <1>1, <1>2 DEF CallType, NoCall
<1>5. Valid(d)
  BY <1>2, <1>4, FirstIsValid
<1> HIDE DEF d
<1>6. TypeOK' /\ call'[t] = d /\ \A u \in Threads \ {t} : call'[u] = call[u]
  <2>1. /\ mm_all_locks_mutex' \in Takers \cup {NoThread}
        /\ owner' \in [Rwsems -> Threads \cup {NoThread}]
        /\ bit' \in [Files \cup Roots -> BOOLEAN] /\ marked' \subseteq Areas /\ TypeOK
    BY <1>1 DEF IInv, TypeOK
  <2>2. QED  BY <1>1, <1>2, <1>5, <2>1, TypesGoOn
<1>7. /\ \A w \in Takers \ {t} : call'[w] = call[w]
      /\ \A u \in Others : call'[u] = call[u]
  BY <1>6, LocksAssumption DEF Threads
<1>8. \A w \in Takers : call[w].op \in {"idle", "enter", "leave"}
  <2>1. \A w \in Takers : mm_all_locks_mutex # w
    BY <1>1, LocksAssumption
  <2>2. QED  BY <2>1 DEF IInv, Roles, MutexIsHeld
<1>9. Roles'
  BY <1>3, <1>6, <1>7 DEF IInv, Roles, Passes
<1>10. MutexIsHeld'
  BY <1>1, <1>3, <1>6, <1>7, <1>8 DEF MutexIsHeld, Passes
<1>11. MmapLockIsHeld'
  BY <1>1, <1>3, <1>6 DEF IInv, MmapLockIsHeld
<1>12. MarksKeepFaultsOut'
  BY <1>1, <1>3, <1>6 DEF IInv, MarksKeepFaultsOut
<1>13. AreasAreMarked'
  <2>1. \A w \in Takers \ {t} : call'[w].op \notin LockOps \cup {"held", "vmas"}
    BY <1>7, <1>8 DEF LockOps
  <2>2. call'[t].op \notin LockOps \cup {"held"} /\ call'[t].i = 1 /\ call'[t].mm \in Mms
    BY <1>2, <1>3, <1>6 DEF LockOps
  <2>3. \A i \in DOMAIN Vmas[call'[t].mm] : ~(i < call'[t].i)
    BY <2>2, VmasAre
  <2>4. QED  BY <2>1, <2>2, <2>3 DEF AreasAreMarked
<1>14. OthersHold'
  BY <1>1, <1>7 DEF IInv, OthersHold
<1>15. FilesAreHeld' /\ RootsAreHeld' /\ TakenSoFar' /\ LeftToDrop'
  <2>1. \A w \in Takers : call'[w].op \in {"idle", "enter", "vmas", "leave"}
    BY <1>3, <1>6, <1>7, <1>8
  <2>2. QED  BY <1>1, <2>1, NothingWithoutMutex, MutexChanges
<1>16. QED  BY <1>6, <1>9, <1>10, <1>11, <1>12, <1>13, <1>14, <1>15 DEF IInv

LEMMA DropMutexKeeps ==
  ASSUME IInv, NEW t \in Takers, DropMutex(t)
  PROVE  IInv'
<1>1. /\ call[t].op = "leave" /\ mm_all_locks_mutex = t /\ mm_all_locks_mutex' = NoThread
      /\ UNCHANGED <<owner, bit, marked, call>>
  BY DEF DropMutex
<1>2. \A w \in Takers : call[w].op \in {"idle", "enter", "leave"} /\ w # NoThread
  BY <1>1, LocksAssumption DEF IInv, Roles, MutexIsHeld
<1>3. TypeOK'
  BY <1>1 DEF IInv, TypeOK, Vma
<1>4. /\ Roles' /\ MmapLockIsHeld' /\ MarksKeepFaultsOut' /\ AreasAreMarked' /\ OthersHold'
  BY <1>1 DEF IInv, Roles, MmapLockIsHeld, MarksKeepFaultsOut, AreasAreMarked, OthersHold, Vma
<1>5. MutexIsHeld'
  BY <1>1, <1>2 DEF MutexIsHeld, Passes
<1>6. FilesAreHeld' /\ RootsAreHeld' /\ TakenSoFar' /\ LeftToDrop'
  BY <1>1, <1>2, NothingWithoutMutex, MutexChanges
<1>7. QED  BY <1>3, <1>4, <1>5, <1>6 DEF IInv

-----------------------------------------------------------------------------
(* The others *)

LEMMA OtherStep ==
  ASSUME IInv, NEW u \in Others, NEW d, Become(u, d), Valid(d), d.op \in {"idle", "adjust", "fault"},
         UNCHANGED <<mm_all_locks_mutex, bit>>, owner' \in [Rwsems -> Threads \cup {NoThread}],
         \A l \in Rwsems : owner'[l] # owner[l] =>
           owner[l] \in {NoThread, u} /\ owner'[l] \in {NoThread, u},
         d.op = "adjust" => owner'[d.mm] = u, marked' \subseteq Areas,
         \A a \in marked \ marked' : owner[a[1]] = u,
         \A a \in marked' \ marked : \A w \in Threads :
           call[w].op = "fault" => <<call[w].mm, call[w].i>> # a,
         d.op = "fault" => <<d.mm, d.i>> \notin marked',
         d.op = "adjust" /\ d.step \in {"root", "changed", "unlock"}
           => Vma(d).file = NoFile \/ owner'[Vma(d).file] = u,
         d.op \in {"adjust", "fault"} /\ d.step = "changed"
           => RootOf(Vma(d)) = NoFile \/ owner'[RootOf(Vma(d))] = u
  PROVE  IInv'
<1>1. u \in Threads /\ u # NoThread /\ u \notin Takers /\ NoThread \notin Takers /\ Shared \subseteq Rwsems
  BY LocksAssumption DEF Threads, Rwsems, Shared
<1>2. \A l \in Shared : owner'[l] # owner[l] => owner[l] \notin Takers /\ owner'[l] \notin Takers
  BY <1>1
<1>3. \A w \in Threads : w # NoThread
  BY LocksAssumption DEF Threads
<1>4. \A a \in marked \ marked' : \A t \in Takers : call[t].op # "idle" => call[t].mm # a[1]
  <2>1. SUFFICES ASSUME NEW a \in marked \ marked', NEW t \in Takers,
                        call[t].op # "idle", call[t].mm = a[1]
                 PROVE  FALSE
    OBVIOUS
  <2>2. t \in Threads /\ call[t].op # "fault"
    BY DEF IInv, Roles, Threads, Passes
  <2>3. owner[a[1]] = t
    BY <2>1, <2>2 DEF IInv, MmapLockIsHeld
  <2>4. QED  BY <1>1, <2>3
<1>5. /\ TypeOK' /\ Roles' /\ MutexIsHeld' /\ AreasAreMarked'
      /\ FilesAreHeld' /\ RootsAreHeld' /\ TakenSoFar' /\ LeftToDrop'
      /\ call'[u] = d /\ \A t \in Threads \ {u} : call'[t] = call[t]
  BY <1>2, <1>4, OthersKeep
<1>6. MmapLockIsHeld'
  <2>1. \A w \in Threads \ {u} : call[w].op \notin {"idle", "fault"} => owner'[call[w].mm] = w
    <3>1. \A w \in Threads : call[w].mm \in Rwsems
      BY CallsAre DEF IInv, Valid, CallType, Rwsems
    <3>2. QED  BY <1>3, <3>1 DEF IInv, MmapLockIsHeld
  <2>2. QED  BY <1>5, <2>1 DEF MmapLockIsHeld
<1>7. MarksKeepFaultsOut'
  <2>1. \A w \in Threads \ {u} : call[w].op = "fault" => <<call[w].mm, call[w].i>> \notin marked'
    BY DEF IInv, MarksKeepFaultsOut
  <2>2. QED  BY <1>5, <2>1 DEF MarksKeepFaultsOut
<1>8. OthersHold'
  <2>1. ASSUME NEW w \in Others \ {u}, NEW l \in Shared, owner[l] = w
        PROVE  owner'[l] = w
    BY <1>1, <1>3, <2>1 DEF Threads
  <2>2. \A w \in Others : Vma(call[w]) \in Area
    BY CallsAre, VmasAre DEF IInv, Valid, CallType, Vma, Threads
  <2>3. \A v \in Area : v.file \in Shared \cup {NoFile} /\ RootOf(v) \in Shared \cup {NoFile}
    BY EmptySeq, LenProperties, ElementOfSeq DEF Area, Shared, RootOf
  <2>4. \A w \in Others \ {u} : call'[w] = call[w] /\ Vma(call'[w]) = Vma(call[w])
    BY <1>5 DEF Threads
  <2>5. \A w \in Others \ {u} :
          /\ call'[w].op = "adjust" /\ call'[w].step \in {"root", "changed", "unlock"}
               => Vma(call'[w]).file = NoFile \/ owner'[Vma(call'[w]).file] = w
          /\ call'[w].op \in {"adjust", "fault"} /\ call'[w].step = "changed"
               => RootOf(Vma(call'[w])) = NoFile \/ owner'[RootOf(Vma(call'[w]))] = w
    BY <2>1, <2>2, <2>3, <2>4 DEF IInv, OthersHold
  <2>6. /\ call'[u].op = "adjust" /\ call'[u].step \in {"root", "changed", "unlock"}
             => Vma(call'[u]).file = NoFile \/ owner'[Vma(call'[u]).file] = u
        /\ call'[u].op \in {"adjust", "fault"} /\ call'[u].step = "changed"
             => RootOf(Vma(call'[u])) = NoFile \/ owner'[RootOf(Vma(call'[u]))] = u
    BY <1>5
  <2>7. QED  BY <2>5, <2>6 DEF OthersHold
<1>9. QED  BY <1>5, <1>6, <1>7, <1>8 DEF IInv

(* What every step of another thread begins with. *)
LEMMA OtherIs ==
  ASSUME IInv, NEW u \in Others
  PROVE  /\ Valid(call[u]) /\ call[u].mm \in Mms /\ call[u].mm \in Rwsems /\ u # NoThread
         /\ Vma(call[u]).file \in Shared \cup {NoFile} /\ RootOf(Vma(call[u])) \in Shared \cup {NoFile}
         /\ Vma(call[u]).file # NoFile => RootOf(Vma(call[u])) # Vma(call[u]).file
         /\ Shared \subseteq Rwsems /\ call[u].mm \notin Shared /\ NoFile \notin Shared
         /\ owner \in [Rwsems -> Threads \cup {NoThread}] /\ marked \subseteq Areas
         /\ u \in Threads /\ NoThread \in Threads \cup {NoThread} /\ u \in Threads \cup {NoThread}
         /\ call[u].op = "adjust" => owner[call[u].mm] = u
         /\ call[u].op = "fault" => <<call[u].mm, call[u].i>> \notin marked
<1>1. u \in Threads /\ u # NoThread
  BY LocksAssumption DEF Threads
<1>2. Valid(call[u]) /\ call[u].mm \in Mms /\ call[u].i \in DOMAIN Vmas[call[u].mm]
  BY <1>1, CallsAre DEF IInv, Valid, CallType
<1>3. Vma(call[u]) \in Area
  BY <1>2, VmasAre DEF Vma
<1>4. Vma(call[u]).file \in Files \cup {NoFile} /\ RootOf(Vma(call[u])) \in Roots \cup {NoFile}
  BY <1>3, EmptySeq, LenProperties, ElementOfSeq DEF Area, RootOf
<1>5. /\ call[u].op = "adjust" => owner[call[u].mm] = u
      /\ call[u].op = "fault" => <<call[u].mm, call[u].i>> \notin marked
      /\ owner \in [Rwsems -> Threads \cup {NoThread}] /\ marked \subseteq Areas
  BY <1>1 DEF IInv, TypeOK, MmapLockIsHeld, MarksKeepFaultsOut
<1>6. QED  BY <1>1, <1>2, <1>4, <1>5, LocksAssumption DEF Shared, Rwsems

LEMMA NoFileIs ==
  NoFile \notin Shared
BY LocksAssumption DEF Shared

LEMMA BeginIsValid ==
  ASSUME NEW m \in Mms, NEW i \in DOMAIN Vmas[m], NEW d \in CallType, d.mm = m, d.i = i, d.j = 1
  PROVE  Valid(d)
<1>1. Vmas[m][i] \in Area
  BY VmasAre
<1>2. Len(LocksOf(d.op, Vma(d))) \in Nat
  BY <1>1, LocksAre DEF Vma
<1>3. QED  BY <1>1, <1>2 DEF Valid

LEMMA NoCallIsValid ==
  ASSUME NEW m \in Mms
  PROVE  Valid(NoCall(m)) /\ NoCall(m).op = "idle"
<1>1. "idle" \in Ops /\ NoCall(m) = [NoCall(m) EXCEPT !.op = "idle"] /\ NoCall(m).op = "idle"
  BY DEF NoCall, Ops
<1>2. QED  BY <1>1, FirstIsValid

LEMMA DownIs ==
  ASSUME NEW u \in Threads, owner \in [Rwsems -> Threads \cup {NoThread}], NEW l \in Rwsems, Down(u, l)
  PROVE  /\ owner' \in [Rwsems -> Threads \cup {NoThread}] /\ owner'[l] = u
         /\ \A x \in Rwsems : owner'[x] # owner[x] => x = l /\ owner[x] = NoThread /\ owner'[x] = u
BY DEF Down

LEMMA OptionallyIs ==
  ASSUME NEW u \in Threads, owner \in [Rwsems -> Threads \cup {NoThread}],
         NEW l, l # NoFile => l \in Rwsems, Optionally(u, l, NoFile)
  PROVE  /\ owner' \in [Rwsems -> Threads \cup {NoThread}]
         /\ l # NoFile => owner'[l] = u
         /\ \A x \in Rwsems : owner'[x] # owner[x] =>
              x = l /\ l # NoFile /\ owner[x] = NoThread /\ owner'[x] = u
BY DownIs DEF Optionally

LEMMA UndoIs ==
  ASSUME NEW u \in Threads, owner \in [Rwsems -> Threads \cup {NoThread}],
         NEW l, l # NoFile => l \in Rwsems /\ owner[l] = u, Undo(l)
  PROVE  /\ owner' \in [Rwsems -> Threads \cup {NoThread}]
         /\ \A x \in Rwsems : owner'[x] # owner[x] =>
              x = l /\ l # NoFile /\ owner[x] = u /\ owner'[x] = NoThread
BY DEF Undo, Up

LEMMA AdjustEnterKeeps ==
  ASSUME IInv, NEW u \in Others, NEW m \in Mms, NEW i \in DOMAIN Vmas[m], AdjustEnter(u, m, i)
  PROVE  IInv'
<1>1. PICK d : d = [NoCall(m) EXCEPT !.op = "adjust", !.i = i, !.step = "vma"]
  OBVIOUS
<1>2. Become(u, d) /\ Down(u, m) /\ UNCHANGED <<mm_all_locks_mutex, bit, marked>>
  BY <1>1 DEF AdjustEnter
<1>3. Valid(d) /\ d.op = "adjust" /\ d.mm = m /\ d.i = i /\ d.step = "vma"
  <2>1. "vma" \in Steps /\ "adjust" \in Ops /\ i \in Nat \ {0} /\ 1 \in Nat \ {0}
    BY VmasAre DEF Steps, Ops
  <2>2. /\ d \in CallType /\ d.op = "adjust" /\ d.mm = m /\ d.i = i /\ d.j = 1 /\ d.step = "vma"
    BY <1>1, <2>1 DEF CallType, NoCall
  <2>3. QED  BY <2>2, BeginIsValid
<1>4. m \in Rwsems
  BY DEF Rwsems
<1>5. /\ owner' \in [Rwsems -> Threads \cup {NoThread}] /\ owner'[m] = u
      /\ \A x \in Rwsems : owner'[x] # owner[x] => owner[x] = NoThread /\ owner'[x] = u
  BY <1>2, <1>4, OtherIs, DownIs
<1>6. marked' \subseteq Areas /\ marked' = marked
  BY <1>2, OtherIs
<1>7. QED  BY <1>2, <1>3, <1>5, <1>6, OtherStep

LEMMA FaultEnterKeeps ==
  ASSUME IInv, NEW u \in Others, NEW m \in Mms, NEW i \in DOMAIN Vmas[m], FaultEnter(u, m, i)
  PROVE  IInv'
<1>1. PICK d : d = [NoCall(m) EXCEPT !.op = "fault", !.i = i, !.step = "root"]
  OBVIOUS
<1>2. /\ Become(u, d) /\ <<m, i>> \notin marked /\ UNCHANGED <<mm_all_locks_mutex, owner, bit, marked>>
  BY <1>1 DEF FaultEnter
<1>3. Valid(d) /\ d.op = "fault" /\ d.mm = m /\ d.i = i /\ d.step = "root"
  <2>1. "root" \in Steps /\ "fault" \in Ops /\ i \in Nat \ {0} /\ 1 \in Nat \ {0}
    BY VmasAre DEF Steps, Ops
  <2>2. /\ d \in CallType /\ d.op = "fault" /\ d.mm = m /\ d.i = i /\ d.j = 1 /\ d.step = "root"
    BY <1>1, <2>1 DEF CallType, NoCall
  <2>3. QED  BY <2>2, BeginIsValid
<1>4. /\ marked' \subseteq Areas /\ marked' = marked /\ owner' = owner
      /\ owner' \in [Rwsems -> Threads \cup {NoThread}]
  BY <1>2, OtherIs
<1>5. QED  BY <1>2, <1>3, <1>4, OtherStep

LEMMA AdjustMarkKeeps ==
  ASSUME IInv, NEW u \in Others, AdjustMark(u)
  PROVE  IInv'
<1> DEFINE c == call[u]  d == [c EXCEPT !.step = "file"]
<1>1. /\ c.op = "adjust" /\ Become(u, d) /\ marked' = marked \cup {<<c.mm, c.i>>}
      /\ \A t \in Threads : ~(call[t].op = "fault" /\ call[t].mm = c.mm /\ call[t].i = c.i)
      /\ UNCHANGED <<mm_all_locks_mutex, owner, bit>>
  BY DEF AdjustMark, InStep, Step, vma_start_write
<1>2. Valid(d) /\ d.op = "adjust" /\ d.mm = c.mm /\ d.step = "file"
  BY <1>1, OtherIs, StepIsValid DEF Steps
<1> HIDE DEF d
<1>3. <<c.mm, c.i>> \in Areas
  BY OtherIs, AreasAre DEF Valid
<1>4. /\ marked' \subseteq Areas /\ owner' = owner /\ owner[d.mm] = u
      /\ owner' \in [Rwsems -> Threads \cup {NoThread}]
  BY <1>1, <1>2, <1>3, OtherIs
<1>5. /\ marked \subseteq marked'
      /\ \A a \in marked' \ marked : \A w \in Threads :
           call[w].op = "fault" => <<call[w].mm, call[w].i>> # a
  BY <1>1
<1>6. QED  BY <1>1, <1>2, <1>4, <1>5, OtherStep

(* A step within a change or a fault. *)
LEMMA NextKeeps ==
  ASSUME IInv, NEW u \in Others, call[u].op \in {"adjust", "fault"}, NEW s \in Steps, Step(u, s),
         UNCHANGED <<mm_all_locks_mutex, bit, marked>>, owner' \in [Rwsems -> Threads \cup {NoThread}],
         \A l \in Rwsems : owner'[l] # owner[l] =>
           owner[l] \in {NoThread, u} /\ owner'[l] \in {NoThread, u} /\ l \in Shared,
         call[u].op = "adjust" /\ s \in {"root", "changed", "unlock"}
           => Vma(call[u]).file = NoFile \/ owner'[Vma(call[u]).file] = u,
         s = "changed" => RootOf(Vma(call[u])) = NoFile \/ owner'[RootOf(Vma(call[u]))] = u
  PROVE  IInv'
<1> DEFINE c == call[u]  d == [c EXCEPT !.step = s]
<1>1. Become(u, d)
  BY DEF Step
<1>2. Valid(d) /\ d.op = c.op /\ d.mm = c.mm /\ d.i = c.i /\ d.step = s
  <2>1. Valid(c)
    BY OtherIs
  <2>2. QED  BY <2>1, StepIsValid
<1>3. Vma(d) = Vma(c)
  BY <1>2 DEF Vma
<1> HIDE DEF d
<1>4. /\ d.op = "adjust" => owner'[d.mm] = u
      /\ d.op = "fault" => <<d.mm, d.i>> \notin marked'
      /\ marked' \subseteq Areas /\ marked' = marked
  BY <1>2, OtherIs
<1>5. QED  BY <1>1, <1>2, <1>3, <1>4, OtherStep

LEMMA PrepareKeeps ==
  ASSUME IInv, NEW u \in Others, vma_prepare(u)
  PROVE  IInv'
<1> DEFINE f == Vma(call[u]).file  r == RootOf(Vma(call[u]))
<1>1. /\ call[u].op = "adjust" /\ UNCHANGED <<mm_all_locks_mutex, bit, marked>>
      /\ "root" \in Steps /\ "changed" \in Steps
  BY DEF vma_prepare, InStep, Steps
<1>2. /\ u \in Threads /\ owner \in [Rwsems -> Threads \cup {NoThread}] /\ NoFile \notin Shared
      /\ f \in Shared \cup {NoFile} /\ r \in Shared \cup {NoFile} /\ Shared \subseteq Rwsems
      /\ f # NoFile => r # f
  BY OtherIs, NoFileIs
<1> HIDE DEF f, r
<1>3. CASE InStep(u, "adjust", "file") /\ Optionally(u, f, NoFile) /\ Step(u, "root")
  <2>1. /\ owner' \in [Rwsems -> Threads \cup {NoThread}]
        /\ f # NoFile => owner'[f] = u
        /\ \A x \in Rwsems : owner'[x] # owner[x] =>
             x = f /\ f # NoFile /\ owner[x] = NoThread /\ owner'[x] = u
    BY <1>2, <1>3, OptionallyIs
  <2>2. \A x \in Rwsems : owner'[x] # owner[x] =>
          owner[x] \in {NoThread, u} /\ owner'[x] \in {NoThread, u} /\ x \in Shared
    BY <1>2, <2>1
  <2>3. /\ call[u].op \in {"adjust", "fault"} /\ (f = NoFile \/ owner'[f] = u)
        /\ \E s \in Steps : s = "root" /\ Step(u, s)
    BY <1>1, <1>3, <2>1
  <2>4. QED  BY <1>1, <2>1, <2>2, <2>3, NextKeeps DEF f
<1>4. CASE InStep(u, "adjust", "root") /\ Optionally(u, r, NoFile) /\ Step(u, "changed")
  <2>1. /\ owner' \in [Rwsems -> Threads \cup {NoThread}]
        /\ r # NoFile => owner'[r] = u
        /\ \A x \in Rwsems : owner'[x] # owner[x] =>
             x = r /\ r # NoFile /\ owner[x] = NoThread /\ owner'[x] = u
    BY <1>2, <1>4, OptionallyIs
  <2>2. \A x \in Rwsems : owner'[x] # owner[x] =>
          owner[x] \in {NoThread, u} /\ owner'[x] \in {NoThread, u} /\ x \in Shared
    BY <1>2, <2>1
  <2>3. f # NoFile => owner[f] = u
    BY <1>4 DEF InStep, IInv, OthersHold, f
  <2>4. f # NoFile => owner'[f] = u
    BY <1>2, <2>1, <2>3
  <2>5. /\ call[u].op \in {"adjust", "fault"} /\ (f = NoFile \/ owner'[f] = u)
        /\ (r = NoFile \/ owner'[r] = u) /\ \E s \in Steps : s = "changed" /\ Step(u, s)
    BY <1>1, <1>4, <2>1, <2>4
  <2>6. QED  BY <1>1, <2>1, <2>2, <2>5, NextKeeps DEF f, r
<1>5. QED  BY <1>3, <1>4 DEF vma_prepare, f, r

LEMMA CompleteKeeps ==
  ASSUME IInv, NEW u \in Others, vma_complete(u)
  PROVE  IInv'
<1> DEFINE f == Vma(call[u]).file  r == RootOf(Vma(call[u]))
<1>1. /\ call[u].op = "adjust" /\ UNCHANGED <<mm_all_locks_mutex, bit, marked>>
      /\ "unlock" \in Steps /\ "test" \in Steps
  BY DEF vma_complete, InStep, Steps
<1>2. /\ u \in Threads /\ owner \in [Rwsems -> Threads \cup {NoThread}] /\ NoFile \notin Shared
      /\ f \in Shared \cup {NoFile} /\ r \in Shared \cup {NoFile} /\ Shared \subseteq Rwsems
      /\ f # NoFile => r # f
  BY OtherIs, NoFileIs
<1> HIDE DEF f, r
<1>3. CASE InStep(u, "adjust", "changed") /\ Undo(r) /\ Step(u, "unlock")
  <2>1. (f # NoFile => owner[f] = u) /\ (r # NoFile => owner[r] = u)
    BY <1>3 DEF InStep, IInv, OthersHold, f, r
  <2>2. /\ owner' \in [Rwsems -> Threads \cup {NoThread}]
        /\ \A x \in Rwsems : owner'[x] # owner[x] =>
             x = r /\ r # NoFile /\ owner[x] = u /\ owner'[x] = NoThread
    BY <1>2, <1>3, <2>1, UndoIs
  <2>3. \A x \in Rwsems : owner'[x] # owner[x] =>
          owner[x] \in {NoThread, u} /\ owner'[x] \in {NoThread, u} /\ x \in Shared
    BY <1>2, <2>2
  <2>4. f # NoFile => owner'[f] = u
    BY <1>2, <2>1, <2>2
  <2>5. QED  BY <1>1, <1>3, <2>2, <2>3, <2>4, NextKeeps DEF f
<1>4. CASE InStep(u, "adjust", "unlock") /\ Undo(f) /\ Step(u, "test")
  <2>1. f # NoFile => owner[f] = u
    BY <1>4 DEF InStep, IInv, OthersHold, f
  <2>2. /\ owner' \in [Rwsems -> Threads \cup {NoThread}]
        /\ \A x \in Rwsems : owner'[x] # owner[x] =>
             x = f /\ f # NoFile /\ owner[x] = u /\ owner'[x] = NoThread
    BY <1>2, <1>4, <2>1, UndoIs
  <2>3. \A x \in Rwsems : owner'[x] # owner[x] =>
          owner[x] \in {NoThread, u} /\ owner'[x] \in {NoThread, u} /\ x \in Shared
    BY <1>2, <2>2
  <2>4. QED  BY <1>1, <1>4, <2>2, <2>3, NextKeeps
<1>5. QED  BY <1>3, <1>4 DEF vma_complete, f, r

LEMMA AdjustLeaveKeeps ==
  ASSUME IInv, NEW u \in Others, AdjustLeave(u)
  PROVE  IInv'
<1> DEFINE m == call[u].mm  d == NoCall(m)
<1>1. /\ call[u].op = "adjust" /\ Become(u, d) /\ UNCHANGED <<mm_all_locks_mutex, bit>>
      /\ owner' = [owner EXCEPT ![m] = NoThread] /\ marked' = {a \in marked : a[1] # m}
  BY DEF AdjustLeave, InStep, MmapUnlock, Up
<1>2. Valid(d) /\ d.op = "idle"
  BY OtherIs, NoCallIsValid
<1> HIDE DEF d
<1>3. /\ owner' \in [Rwsems -> Threads \cup {NoThread}]
      /\ \A l \in Rwsems : owner'[l] # owner[l] => owner[l] = u /\ owner'[l] = NoThread
  BY <1>1, OtherIs
<1>4. /\ marked' \subseteq Areas /\ marked' \subseteq marked
      /\ \A a \in marked \ marked' : owner[a[1]] = u
  BY <1>1, OtherIs
<1>5. QED  BY <1>1, <1>2, <1>3, <1>4, OtherStep

LEMMA FaultRootKeeps ==
  ASSUME IInv, NEW u \in Others, FaultRoot(u)
  PROVE  IInv'
<1> DEFINE r == RootOf(Vma(call[u]))
<1>1. /\ call[u].op = "fault" /\ Optionally(u, r, NoFile) /\ Step(u, "changed") /\ "changed" \in Steps
      /\ UNCHANGED <<mm_all_locks_mutex, bit, marked>>
  BY DEF FaultRoot, InStep, Steps
<1>2. /\ u \in Threads /\ owner \in [Rwsems -> Threads \cup {NoThread}] /\ NoFile \notin Shared
      /\ r \in Shared \cup {NoFile} /\ Shared \subseteq Rwsems
  BY OtherIs, NoFileIs
<1> HIDE DEF r
<1>3. /\ owner' \in [Rwsems -> Threads \cup {NoThread}]
      /\ r # NoFile => owner'[r] = u
      /\ \A x \in Rwsems : owner'[x] # owner[x] =>
             x = r /\ r # NoFile /\ owner[x] = NoThread /\ owner'[x] = u
  BY <1>1, <1>2, OptionallyIs
<1>4. \A x \in Rwsems : owner'[x] # owner[x] =>
        owner[x] \in {NoThread, u} /\ owner'[x] \in {NoThread, u} /\ x \in Shared
  BY <1>2, <1>3
<1>5. /\ call[u].op \in {"adjust", "fault"} /\ call[u].op # "adjust" /\ (r = NoFile \/ owner'[r] = u)
      /\ \E s \in Steps : s = "changed" /\ Step(u, s)
  BY <1>1, <1>3
<1>6. QED  BY <1>1, <1>3, <1>4, <1>5, NextKeeps DEF r

LEMMA FaultLeaveKeeps ==
  ASSUME IInv, NEW u \in Others, FaultLeave(u)
  PROVE  IInv'
<1> DEFINE r == RootOf(Vma(call[u]))  d == NoCall(call[u].mm)
<1>1. /\ call[u].op = "fault" /\ Undo(r) /\ Become(u, d) /\ (r # NoFile => owner[r] = u)
      /\ UNCHANGED <<mm_all_locks_mutex, bit, marked>>
  BY DEF FaultLeave, InStep, IInv, OthersHold
<1>2. Valid(d) /\ d.op = "idle"
  BY OtherIs, NoCallIsValid
<1> HIDE DEF d
<1>3. /\ owner' \in [Rwsems -> Threads \cup {NoThread}]
      /\ \A x \in Rwsems : owner'[x] # owner[x] => owner[x] = u /\ owner'[x] = NoThread
  BY <1>1, OtherIs, UndoIs
<1>4. marked' \subseteq Areas /\ marked' = marked
  BY <1>1, OtherIs
<1>5. QED  BY <1>1, <1>2, <1>3, <1>4, OtherStep

-----------------------------------------------------------------------------
(* The invariant *)

LEMMA InitKeeps ==
  ASSUME Init
  PROVE  IInv
<1>1. FirstMm \in Mms
  BY LocksAssumption DEF FirstMm
<1>2. Valid(NoCall(FirstMm)) /\ NoCall(FirstMm).op = "idle"
  BY <1>1, NoCallIsValid
<1>3. \A t \in Threads : call[t] = NoCall(FirstMm) /\ call[t].op = "idle"
  BY <1>2 DEF Init
<1>4. TypeOK
  <2>1. call \in [Threads -> CallType] /\ \A t \in Threads : Valid(call[t])
    BY <1>2, <1>3 DEF Init, Valid
  <2>2. QED  BY <2>1 DEF Init, TypeOK, CallType, Valid
<1>5. \A t \in Takers \cup Others : call[t].op = "idle" /\ t # NoThread
  BY <1>3, LocksAssumption DEF Threads
<1>6. Roles /\ MutexIsHeld /\ MmapLockIsHeld /\ MarksKeepFaultsOut /\ AreasAreMarked /\ OthersHold
  BY <1>5 DEF Init, Roles, MutexIsHeld, MmapLockIsHeld, MarksKeepFaultsOut, AreasAreMarked,
              OthersHold, LockOps, Passes, Threads
<1>7. \A l \in Shared : ~bit[l] /\ owner[l] \notin Takers
  BY <1>5 DEF Init, Shared, Rwsems
<1>8. \A t \in Takers : \A ops \in SUBSET Passes : \A kind, l, z : ~At(t, ops, kind, l, z)
  BY <1>5 DEF At, Passes
<1>9. {"hugetlb", "files"} \in SUBSET Passes /\ {"anon"} \in SUBSET Passes
      /\ {"drop"} \in SUBSET Passes /\ {"anon", "drop"} \in SUBSET Passes
  BY DEF Passes
<1>10. FilesAreHeld
  BY <1>7, <1>8, <1>9 DEF FilesAreHeld, Shared
<1>11. RootsAreHeld
  BY <1>7, <1>8, <1>9 DEF RootsAreHeld, Shared
<1>12. TakenSoFar
  <2>1. \A t \in Takers, p \in LockOps : \A i, k : ~Passed(call[t], p, i, k)
    BY <1>5 DEF Passed, Earlier, LockOps
  <2>2. QED  BY <2>1 DEF TakenSoFar
<1>13. LeftToDrop
  BY <1>7 DEF LeftToDrop
<1>14. QED  BY <1>4, <1>6, <1>10, <1>11, <1>12, <1>13 DEF IInv

LEMMA NextKeepsIInv ==
  ASSUME IInv, [Next]_vars
  PROVE  IInv'
<1>1. CASE UNCHANGED vars
  <2>1. UNCHANGED <<mm_all_locks_mutex, owner, bit, marked, call>>
    BY <1>1 DEF vars
  <2>2. TypeOK' /\ Roles' /\ MutexIsHeld' /\ MmapLockIsHeld' /\ MarksKeepFaultsOut'
    BY <2>1 DEF IInv, TypeOK, Roles, MutexIsHeld, MmapLockIsHeld, MarksKeepFaultsOut, Vma
  <2>3. AreasAreMarked' /\ OthersHold' /\ TakenSoFar' /\ LeftToDrop'
    <3>1. AreasAreMarked' /\ OthersHold'
      BY <2>1 DEF IInv, AreasAreMarked, OthersHold, Vma
    <3>2. TakenSoFar'
      BY <2>1 DEF IInv, TakenSoFar
    <3>3. LeftToDrop'
      BY <2>1 DEF IInv, LeftToDrop
    <3>4. QED  BY <3>1, <3>2, <3>3
  <2>4. \A t, ops, kind, l, z : At(t, ops, kind, l, z)' <=> At(t, ops, kind, l, z)
    BY <2>1, AtStays
  <2>5. FilesAreHeld' /\ RootsAreHeld'
    BY <2>1, <2>4 DEF IInv, FilesAreHeld, RootsAreHeld
  <2>6. QED  BY <2>2, <2>3, <2>5 DEF IInv
<1>2. ASSUME NEW t \in Takers, (\E m \in Mms : TakeEnter(t, m)) \/ Take(t) \/ Interrupted(t)
      PROVE  IInv'
  <2>1. CASE \E m \in Mms : TakeEnter(t, m)
    BY <2>1, EnterKeeps
  <2>2. CASE Interrupted(t)
    BY <2>2, InterruptedKeeps
  <2>3. CASE TakeMutex(t)
    BY <2>3, TakeMutexKeeps
  <2>4. CASE MarkVma(t)
    BY <2>4, MarkKeeps
  <2>5. CASE SkipVma(t)
    BY <2>5, SkipKeeps
  <2>6. CASE \E l \in Files : vm_lock_mapping(t, l) \/ vm_unlock_mapping(t, l)
    BY <2>6, LockMapping, UnlockMapping
  <2>7. CASE \E l \in Roots : vm_lock_anon_vma(t, l) \/ vm_unlock_anon_vma(t, l)
    BY <2>7, LockAnonVma, UnlockAnonVma
  <2>8. CASE Drop(t)
    BY <2>8, DropKeeps
  <2>9. CASE DropMutex(t)
    BY <2>9, DropMutexKeeps
  <2>10. CASE TakeLeave(t)
    BY <2>10, LeaveKeeps
  <2>11. QED  BY <1>2, <2>1, <2>2, <2>3, <2>4, <2>5, <2>6, <2>7, <2>8, <2>9, <2>10 DEF Take, Pass
<1>3. ASSUME NEW u \in Others,
             \/ \E a \in Areas : AdjustEnter(u, a[1], a[2]) \/ FaultEnter(u, a[1], a[2])
             \/ Adjust(u) \/ FaultIn(u)
      PROVE  IInv'
  <2>1. CASE \E a \in Areas : AdjustEnter(u, a[1], a[2]) \/ FaultEnter(u, a[1], a[2])
    <3>1. PICK a \in Areas : AdjustEnter(u, a[1], a[2]) \/ FaultEnter(u, a[1], a[2])
      BY <2>1
    <3>2. a[1] \in Mms /\ a[2] \in DOMAIN Vmas[a[1]]
      BY DEF Areas
    <3>3. QED  BY <3>1, <3>2, AdjustEnterKeeps, FaultEnterKeeps
  <2>2. CASE AdjustMark(u)
    BY <2>2, AdjustMarkKeeps
  <2>3. CASE vma_prepare(u)
    BY <2>3, PrepareKeeps
  <2>4. CASE vma_complete(u)
    BY <2>4, CompleteKeeps
  <2>5. CASE AdjustLeave(u)
    BY <2>5, AdjustLeaveKeeps
  <2>6. CASE FaultRoot(u)
    BY <2>6, FaultRootKeeps
  <2>7. CASE FaultLeave(u)
    BY <2>7, FaultLeaveKeeps
  <2>8. QED  BY <1>3, <2>1, <2>2, <2>3, <2>4, <2>5, <2>6, <2>7 DEF Adjust, FaultIn
<1>4. QED  BY <1>1, <1>2, <1>3 DEF Next

(* Whatever the threads and however areas share files and roots, the locks  *)
(* a caller has are those its passes have come by.                          *)
THEOREM Invariant ==
  Spec => []IInv
<1>1. Init => IInv
  BY InitKeeps
<1>2. IInv /\ [Next]_vars => IInv'
  BY NextKeepsIInv
<1>3. QED  BY <1>1, <1>2, PTL DEF Spec

(* The variables keep their types, and no pass of mm_take_all_locks() or    *)
(* mm_drop_all_locks() runs past the areas or the locks of one.             *)
THEOREM TypeCorrect ==
  Spec => []TypeOK
<1>1. IInv => TypeOK
  BY DEF IInv
<1>2. QED  BY <1>1, Invariant, PTL

(* The bit in the rb_root of an anon_vma is never seen by who else locks    *)
(* the root, to change an area or to fault in a page.                       *)
THEOREM BitIsNeverSeen ==
  Spec => []NobodySeesOurBit
<1>1. IInv => NobodySeesOurBit
  BY LocksAssumption DEF IInv, RootsAreHeld, NobodySeesOurBit
<1>2. QED  BY <1>1, Invariant, PTL

(* No BUG() of vm_lock_mapping(), vm_lock_anon_vma(), vm_unlock_mapping()   *)
(* or vm_unlock_anon_vma() is reached.                                      *)
THEOREM BugsAreNotReached ==
  Spec => []BitsStayAsTested
<1>1. ASSUME IInv, NEW t \in Takers, NEW l \in Files \cup Roots
      PROVE  /\ At(t, {"hugetlb", "files"}, Files, l, "first") => ~bit[l]
             /\ At(t, {"anon"}, Roots, l, "first") \/ At(t, {"anon"}, Roots, l, "second") => ~bit[l]
             /\ At(t, {"drop"}, Roots, l, "first") => bit[l]
             /\ At(t, {"drop"}, Files, l, "first") \/ At(t, {"drop"}, Files, l, "second") => bit[l]
  <2>1. At(t, {"anon"}, Roots, l, "second") => At(t, {"anon", "drop"}, Roots, l, "second")
    BY DEF At
  <2>2. \A ops, kind, z : At(t, ops, kind, l, z) => l \in kind
    BY DEF At
  <2>3. QED  BY <1>1, <2>1, <2>2 DEF IInv, FilesAreHeld, RootsAreHeld
<1>2. IInv => BitsStayAsTested
  BY <1>1 DEF BitsStayAsTested
<1>3. QED  BY <1>2, Invariant, PTL

(* A call that succeeds has every lock of its address space, though each is *)
(* taken only once, and nobody changes or faults in an area of it.          *)
THEOREM AllAreHeld ==
  Spec => []AllLocksAreHeld
<1>1. ASSUME IInv, NEW t \in Takers, call[t].op = "held", NEW i \in DOMAIN Vmas[call[t].mm]
      PROVE  /\ \A k \in DOMAIN LocksOf("drop", Vmas[call[t].mm][i]) :
                  owner[LocksOf("drop", Vmas[call[t].mm][i])[k]] = t
             /\ \A u \in Others : call[u].op \in {"adjust", "fault"} =>
                  call[u].mm # call[t].mm \/ call[u].i # i
  <2> DEFINE m == call[t].mm
  <2>1. m \in Mms /\ t \in Threads /\ \A u \in Others : u \in Threads /\ u # t
    BY <1>1, CallsAre, LocksAssumption DEF IInv, Valid, CallType, Threads
  <2>2. ASSUME NEW k \in DOMAIN LocksOf("drop", Vmas[m][i])
        PROVE  owner[LocksOf("drop", Vmas[m][i])[k]] = t
    <3>1. PICK p \in LockOps : \E n \in DOMAIN LocksOf(p, Vmas[m][i]) :
            LocksOf("drop", Vmas[m][i])[k] = LocksOf(p, Vmas[m][i])[n]
      BY <2>1, VmasAre, TakenAndDropped
    <3>2. Passed(call[t], p, i, k) /\ \A n : Passed(call[t], p, i, n)
      BY <1>1 DEF Passed, Earlier, LockOps
    <3>3. QED  BY <1>1, <3>1, <3>2 DEF IInv, TakenSoFar
  <2>3. owner[m] = t
    BY <1>1, <2>1 DEF IInv, MmapLockIsHeld
  <2>4. <<m, i>> \in marked
    BY <1>1 DEF IInv, AreasAreMarked
  <2>5. ASSUME NEW u \in Others, call[u].op \in {"adjust", "fault"}, call[u].mm = m, call[u].i = i
        PROVE  FALSE
    <3>1. CASE call[u].op = "adjust"
      BY <1>1, <2>1, <2>3, <2>5, <3>1 DEF IInv, MmapLockIsHeld
    <3>2. CASE call[u].op = "fault"
      BY <1>1, <2>1, <2>4, <2>5, <3>2 DEF IInv, MarksKeepFaultsOut
    <3>3. QED  BY <2>5, <3>1, <3>2
  <2>6. QED  BY <2>2, <2>5
<1>2. IInv => AllLocksAreHeld
  BY <1>1 DEF AllLocksAreHeld
<1>3. QED  BY <1>2, Invariant, PTL

(* Once the mutex is dropped no bit is set and no lock is a taker's,        *)
(* wherever a signal has stopped the call.                                  *)
THEOREM AllIsDropped ==
  Spec => []NothingIsLeft
<1>1. IInv => NothingIsLeft
  BY NothingWithoutMutex DEF NothingIsLeft, Shared
<1>2. QED  BY <1>1, Invariant, PTL
=============================================================================
