---------------------------- MODULE AddressSpace ----------------------------
(***************************************************************************)
(* The areas of an address space in mm/mmap.c: mmap_region(),              *)
(* do_brk_flags() behind a munmap (vm_brk_flags(); brk() itself grows into *)
(* free pages), do_vmi_munmap(), vma_modify() as mprotect() calls it,      *)
(* vma_merge_extend() and copy_vma() as mremap() calls them,               *)
(* remap_file_pages(), special mappings, exit_mmap(), and the anon_vma a   *)
(* page fault finds for an area.  All calls run under the mmap_lock from   *)
(* end to end: a call is invoked, takes effect with every failure of an    *)
(* allocation the code handles, and returns; page faults come in between.  *)
(*                                                                         *)
(* Addresses are page numbers.  The process has not forked.                *)
(***************************************************************************)
EXTENDS Integers, FiniteSets, FiniteSetsExt

CONSTANTS
  NPages,       \* bound: pages of the address space
  MapCounts,    \* the values of sysctl_max_map_count
  NumAnons,     \* bound: anon_vmas
  Files,        \* files that can be mapped
  Closers,      \* those whose areas have a vm_ops->close()
  Special,      \* stands for the file of a special mapping
  NoFile,       \* vm_file of an anonymous area
  Kinds,        \* what mmap() maps: flags and file
  Offsets,      \* bound: pages of a file at which a mapping may start
  MaxOffset,    \* bound: pages of a file, and of the offsets of anonymous areas
  Written,      \* bound: what is written to through private areas
  MaxFaulted,   \* bound: anonymous pages
  Unmapped      \* stands for no content

ASSUME SpaceAssumption ==
  /\ NPages \in Nat \ {0} /\ MapCounts \subseteq Nat \ {0} /\ MapCounts # {} /\ NumAnons \in Nat
  /\ NoFile \notin Files /\ Special \notin Files \cup {NoFile} /\ Closers \subseteq Files
  /\ Kinds \subseteq [flags : {"r", "rw", "shared"}, file : Files \cup {NoFile}]
  /\ Offsets \subseteq 0..NPages /\ MaxOffset \in Nat /\ MaxOffset >= NPages
  /\ Written \subseteq Files \cup {NoFile, Special} /\ MaxFaulted \in Nat

VARIABLES
  mm,    \* areas, map_count, total_vm, data_vm; users of files; the anon_vma
         \* and the index of every anonymous page
  call,  \* the call the mmap_lock is held for, or how it ended
  sysctl_max_map_count

vars == <<mm, call, sysctl_max_map_count>>

Page   == 0..(NPages - 1)
NoAnon == 0
Anons  == 1..NumAnons

NoPage == [anon |-> NoAnon, index |-> 0]
Mapped == Files \cup {NoFile, Special}

NoCall ==
  [op |-> "none", start |-> 0, end |-> 0, to |-> 0, flags |-> "r", file |-> NoFile,
   pgoff |-> 0]
Calls ==
  [op : {"mmap", "brk", "mremap", "move", "special", "munmap", "mprotect", "exit"},
   start : 0..NPages, end : 0..NPages, to : Page, flags : {"r", "rw", "shared"},
   file : Mapped, pgoff : 0..MaxOffset]

-----------------------------------------------------------------------------
(* Areas *)

The(S)      == CHOOSE x \in S : TRUE
vma_pages(v) == v.end - v.start
PagesOf(v)  == v.start..(v.end - 1)

Intersecting(areas, start, end) == {v \in areas : v.start < end /\ v.end > start}
vma_lookup(areas, addr)         == {v \in areas : v.start <= addr /\ addr < v.end}
vma_prev(areas, addr) ==
  {v \in areas : v.end <= addr /\ \A u \in areas : u.end <= addr => u.end <= v.end}

(* Pages of private writable mappings count as data. *)
DataPages(v) == IF v.flags = "rw" THEN vma_pages(v) ELSE 0

(* An area of f opens, or its close() is called. *)
Used(users, f, by) == IF f \in Closers THEN [users EXCEPT ![f] = @ + by] ELSE users

(* remove_mt(): areas go, with their pages. *)
Remove(m, gone) ==
  [m EXCEPT
     !.areas     = @ \ gone,
     !.map_count = @ - Cardinality(gone),
     !.total_vm  = @ - MapThenSumSet(vma_pages, gone),
     !.data_vm   = @ - MapThenSumSet(DataPages, gone),
     !.users     = [f \in Closers |-> @[f] - Cardinality({v \in gone : v.file = f})],
     !.anon_page = [p \in Page |->
                      IF \E v \in gone : p \in PagesOf(v) THEN NoPage ELSE @[p]]]

(* A special mapping, which has a may_split(), stays whole. *)
may_split(m, addr) ==
  \A v \in m.areas : v.file = Special => ~(v.start < addr /\ addr < v.end)

(* __split_vma(): the area around addr, if there is one, becomes two. *)
SplitAt(m, addr) ==
  LET around == {v \in m.areas : v.start < addr /\ addr < v.end}
      v      == The(around) IN
  IF around = {} THEN m ELSE
  [m EXCEPT
     !.areas     = (@ \ around) \cup {[v EXCEPT !.end = addr],
                                      [v EXCEPT !.start = addr, !.pgoff = @ + (addr - v.start)]},
     !.map_count = @ + 1,
     !.users     = Used(@, v.file, 1)]

-----------------------------------------------------------------------------
(* Which areas can become one.  list_is_singular() of an area that has no   *)
(* anon_vma is false; of one that has, true before a fork.                  *)

(* Faulty variant: any two anon_vmas will do. *)
is_mergeable_anon_vma_Any(a, b, singular) == TRUE

is_mergeable_anon_vma(a, b, singular) ==
  a = b \/ (NoAnon \in {a, b} /\ singular)

is_mergeable_vma(v, file, flags, may_remove) ==
  v.flags = flags /\ v.file = file /\ (may_remove => v.file \notin Closers \cup {Special})

can_vma_merge_before(v, flags, anon, file, pgoff) ==
  /\ is_mergeable_vma(v, file, flags, TRUE)
  /\ is_mergeable_anon_vma(anon, v.anon, v.anon # NoAnon)
  /\ v.pgoff = pgoff

can_vma_merge_after(v, flags, anon, file, pgoff) ==
  /\ is_mergeable_vma(v, file, flags, FALSE)
  /\ is_mergeable_anon_vma(anon, v.anon, v.anon # NoAnon)
  /\ v.pgoff + vma_pages(v) = pgoff

(* dst takes over the pages of src, and needs its anon_vma to find them. *)
dup_anon_vma(dst, src) == IF dst.anon = NoAnon THEN [dst EXCEPT !.anon = src.anon] ELSE dst

-----------------------------------------------------------------------------
(* vma_merge(): [addr, end) joins its neighbours, by the cases of the       *)
(* comment above it.  p, c and n are its prev, curr and next.  A result is  *)
(* the areas and how many of them are gone; there is none when nothing can  *)
(* be merged.                                                               *)

Merged(areas, old, new, gone) == {[areas |-> (areas \ old) \cup new, gone |-> gone]}

(* Faulty variant: of curr and next, only one is counted off. *)
MergeBoth_CountsOne(areas, p, curr, n) ==
  LET q == dup_anon_vma(p, n)
      r == IF curr = {} THEN q ELSE dup_anon_vma(q, The(curr)) IN
  Merged(areas, {p, n} \cup curr, {[r EXCEPT !.end = n.end]}, 1)

(* cases 1 and 6 *)
MergeBoth(areas, p, curr, n) ==
  LET q == dup_anon_vma(p, n)
      r == IF curr = {} THEN q ELSE dup_anon_vma(q, The(curr)) IN
  Merged(areas, {p, n} \cup curr, {[r EXCEPT !.end = n.end]}, 1 + Cardinality(curr))

(* Faulty variant: what is left of curr keeps its offset. *)
MergePrev_KeepsOffset(areas, p, curr, end) ==
  LET c == The(curr)
      q == [dup_anon_vma(p, c) EXCEPT !.end = end] IN
  CASE curr = {}    -> Merged(areas, {p}, {[p EXCEPT !.end = end]}, 0)
    [] curr # {} /\ c.end = end ->
         IF c.file \in Closers THEN {} ELSE Merged(areas, {p, c}, {q}, 1)
    [] OTHER -> Merged(areas, {p, c}, {q, [c EXCEPT !.start = end]}, 0)

(* Faulty variant: the close() of curr is not looked for. *)
MergePrev_NoCloseTest(areas, p, curr, end) ==
  LET c == The(curr)
      q == [dup_anon_vma(p, c) EXCEPT !.end = end] IN
  CASE curr = {}    -> Merged(areas, {p}, {[p EXCEPT !.end = end]}, 0)
    [] curr # {} /\ c.end = end -> Merged(areas, {p, c}, {q}, 1)
    [] OTHER ->
         Merged(areas, {p, c},
                {q, [c EXCEPT !.start = end, !.pgoff = @ + (end - c.start)]}, 0)

(* cases 2, 7 and 5 *)
MergePrev(areas, p, curr, end) ==
  LET c == The(curr)
      q == [dup_anon_vma(p, c) EXCEPT !.end = end] IN
  CASE curr = {}    -> Merged(areas, {p}, {[p EXCEPT !.end = end]}, 0)
    [] curr # {} /\ c.end = end ->
         IF c.file \in Closers THEN {} ELSE Merged(areas, {p, c}, {q}, 1)
    [] OTHER ->
         Merged(areas, {p, c},
                {q, [c EXCEPT !.start = end, !.pgoff = @ + (end - c.start)]}, 0)

(* Faulty variant: prev keeps the pages next has taken. *)
MergeIntoNext_KeepsEnd(areas, p, n, addr) ==
  Merged(areas, {n},
         {[dup_anon_vma(n, p) EXCEPT !.start = addr, !.pgoff = @ - (p.end - addr)]}, 0)

(* case 4: prev gives its end to next *)
MergeIntoNext(areas, p, n, addr) ==
  Merged(areas, {p, n},
         {[p EXCEPT !.end = addr],
          [dup_anon_vma(n, p) EXCEPT !.start = addr, !.pgoff = @ - (p.end - addr)]}, 0)

(* cases 3 and 8 *)
MergeNext(areas, curr, n, addr, pglen) ==
  IF curr = {}
  THEN Merged(areas, {n}, {[n EXCEPT !.start = addr, !.pgoff = @ - pglen]}, 0)
  ELSE LET c == The(curr) IN
       Merged(areas, {n, c},
              {[dup_anon_vma(n, c) EXCEPT !.start = addr, !.pgoff = c.pgoff]}, 1)

vma_merge(areas, prev, addr, end, flags, anon, file, pgoff) ==
  LET p     == The(prev)
      after == IF prev = {} THEN 0 ELSE p.end
      first == Intersecting(areas, after, end)
      curr  == {v \in first : \A u \in first : v.start <= u.start}
      next  == IF curr = {} \/ end = The(curr).end THEN vma_lookup(areas, end) ELSE {}
      n     == The(next)
      merge_prev ==
        prev # {} /\ addr = p.end /\ can_vma_merge_after(p, flags, anon, file, pgoff)
      merge_next ==
        next # {} /\ can_vma_merge_before(n, flags, anon, file, pgoff + (end - addr)) IN
  IF file = Special THEN {} ELSE
  CASE merge_prev /\ merge_next /\ is_mergeable_anon_vma(p.anon, n.anon, TRUE) ->
         MergeBoth(areas, p, curr, n)
    [] merge_prev /\ ~(merge_next /\ is_mergeable_anon_vma(p.anon, n.anon, TRUE)) ->
         MergePrev(areas, p, curr, end)
    [] merge_next /\ ~merge_prev /\ prev # {} /\ addr < p.end ->
         MergeIntoNext(areas, p, n, addr)
    [] merge_next /\ ~merge_prev /\ (prev = {} \/ addr >= p.end) ->
         MergeNext(areas, curr, n, addr, end - addr)
    [] OTHER -> {}

-----------------------------------------------------------------------------
(* The calls.  Each is the set of its outcomes, one for every point at      *)
(* which an allocation can fail; a failure leaves what was done before it.  *)

Succeeds(m) == [mm |-> m, ends |-> "ok"]
Fails(m)    == [mm |-> m, ends |-> "failed"]
BUG(m)      == [mm |-> m, ends |-> "bug"]
Ok(u)       == u.ends = "ok"

Account(m, flags, pages) ==
  [m EXCEPT !.total_vm = @ + pages, !.data_vm = @ + IF flags = "rw" THEN pages ELSE 0]

(* An area that munmap() cuts a hole into leaves one more behind. *)
PunchesHole(m, start, end) == \E v \in m.areas : v.start < start /\ end < v.end

(* Faulty variant: the limit is not looked at. *)
do_vmi_munmap_NoLimit(m, start, end) ==
  LET split_start == SplitAt(m, start)
      split_both  == SplitAt(split_start, end) IN
  IF Intersecting(m.areas, start, end) = {} THEN {Succeeds(m)}
  ELSE IF ~may_split(m, start) THEN {Fails(m)}
  ELSE IF ~may_split(m, end) THEN {Fails(m), Fails(split_start)}
  ELSE {Fails(m), Fails(split_start), Fails(split_both),
        Succeeds(Remove(split_both, Intersecting(split_both.areas, start, end)))}

(* A hole is refused at the limit, and a part of a special mapping always;  *)
(* the splits at the two ends are not undone when something fails later.    *)
do_vmi_munmap(m, start, end) ==
  LET split_start == SplitAt(m, start)
      split_both  == SplitAt(split_start, end) IN
  IF Intersecting(m.areas, start, end) = {} THEN {Succeeds(m)}
  ELSE IF \/ PunchesHole(m, start, end) /\ m.map_count >= sysctl_max_map_count
          \/ ~may_split(m, start)
       THEN {Fails(m)}
  ELSE IF ~may_split(m, end) THEN {Fails(m), Fails(split_start)}
  ELSE {Fails(m), Fails(split_start), Fails(split_both),
        Succeeds(Remove(split_both, Intersecting(split_both.areas, start, end)))}

(* vma_link(): an area of its own.  The driver opens the file. *)
vma_link(m, v) ==
  [m EXCEPT !.areas = @ \cup {v}, !.map_count = @ + 1, !.users = Used(@, v.file, 1)]

Insert(m, start, end, flags, file, pgoff) ==
  vma_link(m, [start |-> start, end |-> end, flags |-> flags, file |-> file,
               pgoff |-> pgoff, anon |-> NoAnon])

(* vma_expand() over [start, end), and over next if it ends there *)
vma_expand(m, v, start, end, pgoff, next) ==
  LET over == {u \in next : u # v /\ u.end = end}
      w    == IF over = {} THEN v ELSE dup_anon_vma(v, The(over)) IN
  [m EXCEPT
     !.areas     = (@ \ ({v} \cup over)) \cup
                   {[w EXCEPT !.start = start, !.end = end, !.pgoff = pgoff]},
     !.map_count = @ - Cardinality(over)]

(* mmap_region() on free pages: a neighbour takes them, or a new area does, *)
(* also when the neighbour's allocation fails.                              *)
MapFree(m, addr, end, flags, file, pgoff) ==
  LET next  == {v \in vma_lookup(m.areas, end) :
                  can_vma_merge_before(v, flags, NoAnon, file, pgoff + (end - addr))}
      anon  == IF next = {} THEN NoAnon ELSE The(next).anon
      prev  == {v \in vma_prev(m.areas, addr) :
                  v.end = addr /\ can_vma_merge_after(v, flags, anon, file, pgoff)}
      v     == The(IF prev = {} THEN next ELSE prev)
      start == IF prev = {} THEN addr ELSE v.start
      stop  == IF next = {} THEN end ELSE The(next).end
      off   == IF prev = {} THEN v.pgoff - (end - addr) ELSE v.pgoff IN
  {Insert(m, addr, end, flags, file, pgoff)} \cup
  IF prev \cup next = {} THEN {} ELSE {vma_expand(m, v, start, stop, off, next)}

Placed(u, c) ==
  IF ~Ok(u) THEN {u} ELSE
  {Fails(u.mm)} \cup
  {Succeeds(Account(m, c.flags, c.end - c.start)) :
     m \in MapFree(u.mm, c.start, c.end, c.flags, c.file, c.pgoff)}

(* do_mmap() and mmap_region(): what is in the way goes, and stays away     *)
(* when the call fails after all.                                           *)
mmap_region(m, c) ==
  {Fails(m)} \cup
  IF m.map_count > sysctl_max_map_count THEN {} ELSE
  UNION {Placed(u, c) : u \in do_vmi_munmap(m, c.start, c.end)}

(* The heap grows into its last area, or gets a new one. *)
do_brk_flags(m, start, end) ==
  LET heap == {v \in vma_prev(m.areas, start) :
                 v.end = start /\ can_vma_merge_after(v, "rw", NoAnon, NoFile, start)} IN
  IF heap = {} THEN Insert(m, start, end, "rw", NoFile, start)
  ELSE [m EXCEPT !.areas = (@ \ heap) \cup {[The(heap) EXCEPT !.end = end]}]

vm_brk_flags(m, c) ==
  UNION {IF ~Ok(u) \/ u.mm.map_count > sysctl_max_map_count THEN {Fails(u.mm)} ELSE
         {Fails(u.mm),
          Succeeds(Account(do_brk_flags(u.mm, c.start, c.end), "rw", c.end - c.start))} :
         u \in do_vmi_munmap(m, c.start, c.end)}

WithMerge(m, r) == [m EXCEPT !.areas = r.areas, !.map_count = @ - r.gone]

(* mremap() in place: the area that ends where the call starts grows. *)
vma_merge_extend(m, c) ==
  LET prev == {v \in m.areas : v.end = c.start}
      v    == The(prev) IN
  {Fails(m)} \cup
  {Succeeds(Account(WithMerge(m, r), c.flags, c.end - c.start)) :
     r \in vma_merge(m.areas, prev, c.start, c.end, v.flags, v.anon, v.file, c.pgoff)}

(* split_vma() at addr, refused at the limit *)
split_vma(m, addr) ==
  IF addr \in {v.start : v \in m.areas} \cup {v.end : v \in m.areas} THEN {Succeeds(m)}
  ELSE {Fails(m)} \cup
       IF m.map_count >= sysctl_max_map_count \/ ~may_split(m, addr) THEN {}
       ELSE {Succeeds(SplitAt(m, addr))}

SetFlags(m, start, end, flags) ==
  [m EXCEPT !.areas = {IF v.start = start /\ v.end = end THEN [v EXCEPT !.flags = flags] ELSE v :
                         v \in @}]

(* vma_modify(), and the flags mprotect() gives the area it gets back *)
vma_modify(m, c) ==
  LET v     == The(vma_lookup(m.areas, c.start))
      prev  == IF v.start < c.start THEN {v} ELSE vma_prev(m.areas, c.start)
      pgoff == v.pgoff + (c.start - v.start)
      moved == [m EXCEPT !.data_vm = @ + IF c.flags = "rw" THEN c.end - c.start
                                                           ELSE c.start - c.end] IN
  {Succeeds(WithMerge(moved, r)) :
     r \in vma_merge(m.areas, prev, c.start, c.end, c.flags, v.anon, v.file, pgoff)} \cup
  UNION {IF ~Ok(u) THEN {u} ELSE
         {IF ~Ok(w) THEN w
          ELSE Succeeds(SetFlags([w.mm EXCEPT !.data_vm = moved.data_vm],
                                 c.start, c.end, c.flags)) :
            w \in split_vma(u.mm, c.end)} :
         u \in split_vma(m, c.start)}

(* copy_vma(): [addr, addr + len) for what mremap() moves there from start, *)
(* in a neighbour or, also when the neighbour's allocation fails, in a copy *)
(* of the area.  Its assertion: an area with pages is never its own         *)
(* neighbour.                                                               *)
copy_vma(m, v, start, addr, len) ==
  LET faulted == v.file # NoFile \/ v.anon # NoAnon
      pgoff   == IF faulted THEN v.pgoff + (start - v.start) ELSE addr
      merged  == vma_merge(m.areas, vma_prev(m.areas, addr), addr, addr + len,
                           v.flags, v.anon, v.file, pgoff)
      itself(r) == \A u \in r.areas : addr \in PagesOf(u) => v.start \in PagesOf(u) IN
  {Fails(m),
   Succeeds(vma_link(m, [v EXCEPT !.start = addr, !.end = addr + len, !.pgoff = pgoff]))} \cup
  {IF itself(r) /\ faulted THEN BUG(m) ELSE Succeeds(WithMerge(m, r)) : r \in merged}

(* mremap() moves the pages to the copy and unmaps where they were, which   *)
(* stays mapped when that fails.                                            *)
move_vma(m, c) ==
  LET v   == The(vma_lookup(m.areas, c.start))
      len == c.end - c.start
      Moved(n) ==
        [n EXCEPT !.anon_page =
           [p \in Page |-> CASE p \in c.start..(c.end - 1)       -> NoPage
                             [] p \in c.to..(c.to + len - 1)     -> @[c.start + (p - c.to)]
                             [] OTHER                            -> @[p]]] IN
  IF m.map_count + 2 >= sysctl_max_map_count - 3 THEN {Fails(m)} ELSE
  UNION {IF ~Ok(u) THEN {u} ELSE
         {Succeeds(w.mm) : w \in do_vmi_munmap(Account(Moved(u.mm), v.flags, len),
                                               c.start, c.end)} :
         u \in copy_vma(m, v, c.start, c.to, len)}

(* Only free pages will do, and no limit is looked at. *)
insert_vm_struct(m, start, end, flags) ==
  {Fails(m)} \cup
  IF Intersecting(m.areas, start, end) # {} THEN {}
  ELSE {Succeeds(Insert(m, start, end, flags, Special, 0))}

install_special_mapping(m, c) ==
  {IF Ok(u) THEN Succeeds(Account(u.mm, c.flags, c.end - c.start)) ELSE u :
     u \in insert_vm_struct(m, c.start, c.end, c.flags)}

(* Every area is closed; there must be as many as were counted. *)
exit_mmap(m) ==
  IF Cardinality(m.areas) # m.map_count THEN {BUG(m)} ELSE {Succeeds(Remove(m, m.areas))}

-----------------------------------------------------------------------------
(* A page fault that needs an anon_vma for its area *)

anon_vma_compatible(a, b) ==
  a.end = b.start /\ a.file = b.file /\ b.pgoff = a.pgoff + vma_pages(a)

reusable_anon_vma(old, a, b) ==
  IF anon_vma_compatible(a, b) THEN old.anon ELSE NoAnon

find_mergeable_anon_vma(areas, v) ==
  LET from_next == {reusable_anon_vma(n, v, n) : n \in vma_lookup(areas, v.end)} \ {NoAnon}
      from_prev == {reusable_anon_vma(p, p, v) : p \in vma_prev(areas, v.start)} \ {NoAnon} IN
  IF from_next # {} THEN from_next ELSE from_prev

(* anon_vma_prepare(): the area's own, a neighbour's, or a new one, of which *)
(* the first is as good as any.                                             *)
Fault(p) ==
  LET v      == The(vma_lookup(mm.areas, p))
      shared == find_mergeable_anon_vma(mm.areas, v)
      unused == Anons \ {u.anon : u \in mm.areas} IN
  /\ call = NoCall
  /\ Cardinality({q \in Page : mm.anon_page[q] # NoPage}) < MaxFaulted
  /\ vma_lookup(mm.areas, p) # {} /\ v.flags = "rw" /\ v.file \in Written
  /\ mm.anon_page[p] = NoPage
  /\ \E a \in CASE v.anon # NoAnon                  -> {v.anon}
                [] v.anon = NoAnon /\ shared # {} -> shared
                [] v.anon = NoAnon /\ shared = {} -> {x \in unused : \A y \in unused : x <= y} :
       mm' = [mm EXCEPT !.areas = (@ \ {v}) \cup {[v EXCEPT !.anon = a]},
                        !.anon_page[p] = [anon |-> a, index |-> v.pgoff + p - v.start]]
  /\ UNCHANGED <<call, sysctl_max_map_count>>

-----------------------------------------------------------------------------
(* The system calls take the mmap_lock and check their arguments, ... *)

Take(c) == call = NoCall /\ call' = c /\ UNCHANGED <<mm, sysctl_max_map_count>>

Request(op, start, end, flags, file, pgoff) ==
  Take([op |-> op, start |-> start, end |-> end, to |-> 0, flags |-> flags, file |-> file,
        pgoff |-> pgoff])

CallMmap(start, end)   ==
  \E k \in Kinds, off \in Offsets \cup {start} :
    /\ IF k.file = NoFile THEN off = start ELSE off \in Offsets
    /\ Request("mmap", start, end, k.flags, k.file, off)
CallMunmap(start, end) == Request("munmap", start, end, "r", NoFile, 0)
CallBrk(start, end)    == Request("brk", start, end, "rw", NoFile, start)

(* mprotect() goes through the areas of its range one by one. *)
CallMprotect(start, end) ==
  \E v \in mm.areas, flags \in {"r", "rw"} :
    /\ v.start <= start /\ end <= v.end /\ v.flags \in {"r", "rw"} \ {flags}
    /\ Request("mprotect", start, end, flags, NoFile, 0)

(* vma_expandable(): the pages behind the area are free. *)
CallMremap(start, end) ==
  \E v \in mm.areas :
    /\ v.end = start /\ v.file # Special /\ Intersecting(mm.areas, start, end) = {}
    /\ v.pgoff + (end - v.start) <= MaxOffset
    /\ Request("mremap", start, end, v.flags, v.file, v.pgoff + vma_pages(v))

(* mremap() with MREMAP_FIXED to free pages; a special mapping moves whole. *)
CallMove(start, end) ==
  \E v \in mm.areas, to \in Page :
    LET until == to + (end - start) IN
    /\ v.start <= start /\ end <= v.end /\ may_split(mm, start) /\ may_split(mm, end)
    /\ until <= NPages /\ Intersecting(mm.areas, to, until) = {}
    /\ Take([NoCall EXCEPT !.op = "move", !.start = start, !.end = end, !.to = to,
                           !.flags = v.flags, !.file = v.file])

(* remap_file_pages(): shared areas of one file, without a hole, become one *)
(* mapping of another part of it.                                           *)
CallRemapFilePages(start, end) ==
  \E v \in vma_lookup(mm.areas, start), off \in Offsets :
    /\ v.flags = "shared"
    /\ \A p \in start..(end - 1) : \E u \in vma_lookup(mm.areas, p) :
         u.file = v.file /\ u.flags = v.flags
    /\ Request("mmap", start, end, v.flags, v.file, off)

(* The kernel maps its own pages into a process once. *)
CallSpecial(start, end) ==
  /\ \A v \in mm.areas : v.file # Special
  /\ Request("special", start, end, "r", Special, 0)

CallExit == Request("exit", 0, NPages, "r", NoFile, 0)

(* ... take effect, ... *)
Effect(op, outcomes) ==
  /\ call.op = op
  /\ \E o \in outcomes :
       mm' = o.mm /\ call' = [NoCall EXCEPT !.op = o.ends]
  /\ UNCHANGED sysctl_max_map_count

Mmap     == Effect("mmap", mmap_region(mm, call))
Munmap   == Effect("munmap", do_vmi_munmap(mm, call.start, call.end))
Brk      == Effect("brk", vm_brk_flags(mm, call))
Mprotect == Effect("mprotect", vma_modify(mm, call))
Mremap   == Effect("mremap", vma_merge_extend(mm, call))
Move     == Effect("move", move_vma(mm, call))
Install  == Effect("special", install_special_mapping(mm, call))
Exit     == Effect("exit", exit_mmap(mm))

(* ... and drop the lock. *)
Return ==
  /\ call.op \in {"ok", "failed"} /\ call' = NoCall
  /\ UNCHANGED <<mm, sysctl_max_map_count>>

(* The administrator sets the limit, below the number of areas too. *)
Sysctl ==
  /\ call = NoCall
  /\ sysctl_max_map_count' \in MapCounts \ {sysctl_max_map_count}
  /\ UNCHANGED <<mm, call>>

Init ==
  /\ mm = [areas |-> {}, map_count |-> 0, total_vm |-> 0, data_vm |-> 0,
           users |-> [f \in Closers |-> 0], anon_page |-> [p \in Page |-> NoPage]]
  /\ call = NoCall
  /\ sysctl_max_map_count \in MapCounts

Next ==
  \/ \E start \in Page, end \in 1..NPages :
       /\ start < end
       /\ \/ CallMmap(start, end) \/ CallMunmap(start, end) \/ CallBrk(start, end)
          \/ CallMprotect(start, end) \/ CallMremap(start, end) \/ CallMove(start, end)
          \/ CallRemapFilePages(start, end) \/ CallSpecial(start, end)
  \/ CallExit
  \/ Mmap \/ Munmap \/ Brk \/ Mprotect \/ Mremap \/ Move \/ Install \/ Exit \/ Return
  \/ Sysctl
  \/ \E p \in Page : Fault(p)

Spec == Init /\ [][Next]_vars

-----------------------------------------------------------------------------
(* Properties *)

(* Every field keeps its type; no area is empty or outside of the space.    *)
TypeOK ==
  /\ mm.areas \subseteq [start : Page, end : 1..NPages, flags : {"r", "rw", "shared"},
                         file : Mapped, pgoff : 0..MaxOffset,
                         anon : Anons \cup {NoAnon}]
  /\ \A v \in mm.areas : v.start < v.end
  /\ mm.map_count \in 0..NPages /\ mm.total_vm \in 0..NPages /\ mm.data_vm \in 0..NPages
  /\ mm.users \in [Closers -> 0..NPages]
  /\ mm.anon_page \in [Page -> [anon : Anons \cup {NoAnon}, index : 0..MaxOffset]]
  /\ call \in Calls \cup {[NoCall EXCEPT !.op = op] : op \in {"none", "ok", "failed", "bug"}}
  /\ sysctl_max_map_count \in MapCounts

(* No page is in two areas, through all the ways in which areas are cut,    *)
(* moved and merged, also when an allocation fails half-way.                *)
AreasAreDisjoint ==
  \A u, v \in mm.areas : u # v => u.end <= v.start \/ v.end <= u.start

(* map_count, total_vm and data_vm, which are kept by increments, are what  *)
(* validate_mm() and exit_mmap() would count: the memory limits compare     *)
(* total_vm, and exit_mmap() is a BUG when map_count is wrong.              *)
CountsMatchAreas ==
  /\ mm.map_count = Cardinality(mm.areas)
  /\ mm.total_vm = MapThenSumSet(vma_pages, mm.areas)
  /\ mm.data_vm = MapThenSumSet(DataPages, mm.areas)

(* An anonymous page is found through the anon_vma and the offset of the    *)
(* area it is in, whatever the area was split from or merged with, and      *)
(* wherever mremap() has taken the page, since the fault.                   *)
AnonPagesAreFound ==
  \A p \in Page : mm.anon_page[p] # NoPage =>
    \E v \in mm.areas :
      p \in PagesOf(v) /\ mm.anon_page[p] = [anon |-> v.anon, index |-> v.pgoff + p - v.start]

(* A file whose areas have a close() is open once for each of its areas:    *)
(* no area goes away in a merge without a close().                          *)
OpensMatchCloses ==
  \A f \in Closers : mm.users[f] = Cardinality({v \in mm.areas : v.file = f})

(* Only a call that fails, in the middle of munmap, and a special mapping   *)
(* take the number of areas past the limit and the one area mmap() allows   *)
(* beyond it.                                                               *)
MapCountIsLimited ==
  [][mm'.map_count > mm.map_count /\ call'.op # "failed" /\ call.op # "special" =>
       mm'.map_count <= sysctl_max_map_count + 1]_vars

(* What is mapped where: each call changes exactly the pages of its range,  *)
(* to exactly what it asked for, a call that fails changes none, unless it  *)
(* is an mmap() that has removed what was in its way, and none ends in one  *)
(* of the assertions of copy_vma() and exit_mmap().                         *)
Content(p) ==
  LET v == The(vma_lookup(mm.areas, p)) IN
  IF vma_lookup(mm.areas, p) = {} THEN Unmapped
  ELSE [flags |-> v.flags, file |-> v.file, off |-> v.pgoff + p - v.start]

Abstract == INSTANCE PageMap WITH map <- [p \in Page |-> Content(p)]

ActsAsPageMap == Abstract!Spec
=============================================================================
