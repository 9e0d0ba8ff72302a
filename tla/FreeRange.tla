------------------------------ MODULE FreeRange ------------------------------
(***************************************************************************)
(* The search of mm/mmap.c for a free range of addresses, which mmap()     *)
(* without MAP_FIXED maps: vm_unmapped_area() and get_unmapped_area() over *)
(* the areas of an address space.  Addresses and lengths are in pages.  An *)
(* area that grows down keeps a guard gap below it that a search leaves    *)
(* free; no area grows up on this architecture, so vm_end_gap() is vm_end. *)
(***************************************************************************)
EXTENDS Integers, FiniteSetsExt

CONSTANTS
  NPages,              \* bound: pages below TASK_SIZE
  AddressPages,        \* 2^w: pages of an unsigned long; arithmetic wraps
  mmap_min_addr,       \* the lowest address a process may map
  mmap_base,           \* where the search downwards begins
  TASK_UNMAPPED_BASE,  \* where the search upwards begins
  stack_guard_gap

ASSUME RangeAssumption ==
  /\ NPages \in Nat \ {0} /\ AddressPages \in Nat /\ AddressPages > 2 * NPages
  /\ mmap_min_addr \in 1..NPages /\ mmap_base \in mmap_min_addr..NPages
  /\ TASK_UNMAPPED_BASE \in mmap_min_addr..NPages /\ stack_guard_gap \in Nat

NoRoom == -1  \* -ENOMEM, the one result that is no multiple of a page

The(S) == CHOOSE x \in S : TRUE

Disjoint(v, start, end) == v.end <= start \/ end <= v.start

vm_start_gap(v) ==
  IF v.growsdown /\ v.start >= stack_guard_gap THEN v.start - stack_guard_gap
  ELSE IF v.growsdown THEN 0 ELSE v.start

(* The area around addr or the first above it, and the last below it; as sets. *)
find_vma(areas, addr) ==
  {v \in areas : v.end > addr /\ \A u \in areas : u.end > addr => v.end <= u.end}
vma_prev(areas, addr) ==
  {v \in areas : v.end <= addr /\ \A u \in areas : u.end <= addr => u.end <= v.end}

(* mas_empty_area() and mas_empty_area_rev(): the first pages of the free    *)
(* ranges of the length in [low, high].                                     *)
EmptyRanges(areas, low, high, length) ==
  {p \in low..(high + 1 - length) : \A v \in areas : Disjoint(v, p, p + length)}

-----------------------------------------------------------------------------
(* A length is of at most NPages pages, so that length + align_mask does    *)
(* not wrap.  high - 1 does when high is 0.                                 *)

GrowingOf(S) == {v \in S : v.growsdown}  \* VM_STARTGAP_FLAGS

unmapped_area_topdown(areas, length, low, high, align_mask, align_offset) ==
  LET need == length + align_mask
      below[limit \in 0..AddressPages] ==
        LET ranges  == EmptyRanges(areas, low, (limit - 1) % AddressPages, need)
            gap_end == Max(ranges) + need - 1
            gap     == gap_end + 1 - length
            next    == GrowingOf(find_vma(areas, gap_end)) IN
        IF ranges = {} THEN NoRoom
        ELSE IF \E v \in next : vm_start_gap(v) <= gap_end
               THEN below[vm_start_gap(The(next))]
               ELSE gap - ((gap - align_offset) % (align_mask + 1))
  IN  below[high]

(* Faulty variant: gives up at the first area that grows. *)
unmapped_area_NoRetry(areas, length, low, high, align_mask, align_offset) ==
  LET need   == length + align_mask
      ranges == EmptyRanges(areas, low, high - 1, need)
      gap    == Min(ranges) + ((align_offset - Min(ranges)) % (align_mask + 1))
      next   == GrowingOf(find_vma(areas, Min(ranges))) IN
  IF ranges = {} \/ \E v \in next : vm_start_gap(v) < gap + need THEN NoRoom ELSE gap

unmapped_area(areas, length, low, high, align_mask, align_offset) ==
  LET need == length + align_mask
      above[limit \in 0..AddressPages] ==
        LET ranges == EmptyRanges(areas, limit, high - 1, need)
            gap    == Min(ranges) + ((align_offset - Min(ranges)) % (align_mask + 1))
            next   == GrowingOf(find_vma(areas, Min(ranges))) IN
        IF ranges = {} THEN NoRoom
        ELSE IF \E v \in next : vm_start_gap(v) < gap + need
               THEN above[The(next).end] ELSE gap
  IN  above[low]

(* A hint is taken when its range is free; what is below it ends there.     *)
HintIsFree(areas, addr, len) ==
  /\ addr # 0 /\ NPages - len >= addr /\ addr >= mmap_min_addr
  /\ \A v \in find_vma(areas, addr) : addr + len <= vm_start_gap(v)

(* Else the search goes down from mmap_base, and when that finds nothing, up. *)
generic_get_unmapped_area_topdown(areas, addr, len) ==
  LET down == unmapped_area_topdown(areas, len, mmap_min_addr, mmap_base, 0, 0)
      up   == unmapped_area(areas, len, TASK_UNMAPPED_BASE, NPages, 0, 0) IN
  IF len > NPages - mmap_min_addr THEN NoRoom
  ELSE IF HintIsFree(areas, addr, len) THEN addr
  ELSE IF down # NoRoom THEN down ELSE up

get_unmapped_area(areas, addr, len) ==
  LET found == generic_get_unmapped_area_topdown(areas, addr, len) IN
  IF found > NPages - len THEN NoRoom ELSE found

-----------------------------------------------------------------------------
(* What a search is for: a free range that ends below the guard gap of the  *)
(* stack next above it.  A range fits well if it keeps out of every gap: one *)
(* may reach below inaccessible memory that a stack has grown down to.      *)

IsFree(areas, p, length) == \A v \in areas : Disjoint(v, p, p + length)

Fits(areas, p, length) ==
  /\ IsFree(areas, p, length)
  /\ \A v \in find_vma(areas, p + length - 1) : p + length <= vm_start_gap(v)

FitsWell(areas, p, length) ==
  \A v \in areas : v.end <= p \/ p + length <= vm_start_gap(v)

Fitting(areas, low, high, length)     == {p \in low..(high - length) : Fits(areas, p, length)}
FittingWell(areas, low, high, length) == {p \in low..(high - length) : FitsWell(areas, p, length)}
=============================================================================
