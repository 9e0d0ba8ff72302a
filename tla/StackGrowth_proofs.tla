------------------------- MODULE StackGrowth_proofs -------------------------
(***************************************************************************)
(* Proofs about StackGrowth and the search of FreeRange, for every address *)
(* space, every gap and every set of threads.                              *)
(*                                                                         *)
(* The search of mm/mmap.c goes on below, or above, every stack whose      *)
(* guard gap it has met.  It ends because each limit lies beyond the last; *)
(* what it returns is shown by way of the first limit from which it would  *)
(* be wrong.  total_vm is compared with the sum of the areas, which each   *)
(* call changes by the areas it puts in, makes longer or takes out.        *)
(***************************************************************************)
EXTENDS StackGrowth, Sums_proofs

-----------------------------------------------------------------------------
(* Numbers, and functions that are defined by what they are elsewhere. *)

LEMMA MaxIsGreatest ==
  ASSUME NEW S, S \subseteq Nat, S # {}, NEW bound \in Nat, \A n \in S : n <= bound
  PROVE  Max(S) \in S /\ \A n \in S : n <= Max(S)
<1>1. \E m \in S : \A n \in S : m >= n
  BY GreatestNat
<1> QED  BY <1>1 DEF Max

LEMMA MinIsLeast ==
  ASSUME NEW S, S \subseteq Nat, S # {}
  PROVE  Min(S) \in S /\ \A n \in S : Min(S) <= n
<1>1. \E m \in S : \A n \in S : m <= n
  BY LeastNat
<1> QED  BY <1>1 DEF Min

(* Every jump leads to an argument of a lower rank, and in the end to one   *)
(* of which the value is known.                                             *)
Descends(D, stop, jump, rank, bound) ==
  /\ rank \in [D -> Nat] /\ bound \in Nat /\ \A x \in D : rank[x] <= bound
  /\ \A x \in D : x \in stop \/ (jump[x] \in D /\ rank[jump[x]] < rank[x])

FollowsJumps(f, D, stop, val, jump) ==
  \A x \in D : f[x] = IF x \in stop THEN val[x] ELSE f[jump[x]]

LEMMA DefinedByDescent ==
  ASSUME NEW D, NEW stop, NEW val, NEW jump, NEW rank, NEW bound,
         Descends(D, stop, jump, rank, bound)
  PROVE  \E f : FollowsJumps(f, D, stop, val, jump)
<1> USE DEF Descends
<1> DEFINE After(g)     == [x \in D |-> IF x \in stop THEN val[x] ELSE g[jump[x]]]
           Solves(g, n) == \A x \in D : rank[x] <= n => g[x] = After(g)[x]
           Unsolved     == {n \in Nat : ~ \E g : Solves(g, n)}
<1>1. ASSUME NEW g, NEW n \in Nat, \A k \in Nat : k < n => Solves(g, k)
      PROVE  Solves(After(g), n)
  <2> SUFFICES ASSUME NEW x \in D, rank[x] <= n, x \notin stop
               PROVE  g[jump[x]] = After(g)[jump[x]]
    OBVIOUS
  <2>1. jump[x] \in D /\ rank[jump[x]] \in Nat /\ rank[jump[x]] < n
    OBVIOUS
  <2> QED  BY <1>1, <2>1
<1>2. ASSUME NEW g, NEW n \in Nat, NEW k \in Nat, k <= n, Solves(g, n)
      PROVE  Solves(g, k)
  BY <1>2
<1>3. Unsolved = {}
  <2> SUFFICES ASSUME Unsolved # {} PROVE FALSE
    OBVIOUS
  <2>1. PICK n \in Unsolved : \A k \in Unsolved : n <= k
    <3> HIDE DEF Solves
    <3>1. Unsolved \subseteq Nat
      OBVIOUS
    <3> QED  BY <3>1, LeastNat
  <2>2. PICK g : \A k \in Nat : k < n => Solves(g, k)
    <3> HIDE DEF Solves
    <3>1. CASE n = 0
      BY <3>1
    <3>2. CASE n # 0
      <4>1. n - 1 \in Nat /\ n - 1 \notin Unsolved
        BY <2>1, <3>2
      <4>2. PICK g : Solves(g, n - 1)
        BY <4>1
      <4>3. \A k \in Nat : k < n => k <= n - 1
        OBVIOUS
      <4> QED  BY <1>2, <4>1, <4>2, <4>3
    <3> QED  BY <3>1, <3>2
  <2>3. Solves(After(g), n)
    <3> HIDE DEF Solves, After
    <3> QED  BY <1>1, <2>2
  <2> HIDE DEF Solves, After
  <2> QED  BY <2>3
<1>4. PICK g : Solves(g, bound)
  <2> HIDE DEF Solves
  <2> QED  BY <1>3
<1> HIDE DEF Descends
<1>5. FollowsJumps(After(g), D, stop, val, jump)
  <2> SUFFICES ASSUME NEW x \in D, x \notin stop
               PROVE  g[jump[x]] = After(g)[jump[x]]
    BY DEF FollowsJumps
  <2>1. jump[x] \in D /\ rank[jump[x]] \in Nat /\ rank[jump[x]] <= bound
    BY DEF Descends
  <2> QED  BY <1>4, <2>1
<1> HIDE DEF After
<1> QED  BY <1>5

-----------------------------------------------------------------------------
(* Layouts of areas *)

Layout(S) ==
  /\ \A v \in S : /\ v.start \in Nat /\ v.end \in Nat /\ v.start < v.end /\ v.end <= NPages
                  /\ v.growsdown \in BOOLEAN
  /\ \A u, v \in S : u = v \/ u.end <= v.start \/ v.end <= u.start

LEMMA FindVma ==
  ASSUME NEW S, Layout(S), NEW addr \in Int
  PROVE  /\ \A v \in find_vma(S, addr) :
              v \in S /\ v.end > addr
                /\ \A u \in S : u.end > addr => u = v \/ v.end <= u.start
         /\ \A u, v \in find_vma(S, addr) : u = v
         /\ \A v \in find_vma(S, addr) : The(find_vma(S, addr)) = v
         /\ find_vma(S, addr) = {} => \A v \in S : v.end <= addr
<1>1. \A v \in find_vma(S, addr) :
        v \in S /\ v.end > addr /\ \A u \in S : u.end > addr => u = v \/ v.end <= u.start
  BY DEF find_vma, Layout
<1>2. \A u, v \in find_vma(S, addr) : u = v
  BY <1>1 DEF Layout
<1>3. ASSUME NEW w \in S, w.end > addr
      PROVE  find_vma(S, addr) # {}
  <2> DEFINE T == {v.end : v \in {u \in S : u.end > addr}}
  <2>1. T \subseteq Nat /\ T # {}
    BY <1>3 DEF Layout
  <2> HIDE DEF T
  <2>2. PICK e \in T : \A f \in T : e <= f
    BY <2>1, LeastNat
  <2> QED  BY <2>2 DEF T, find_vma
<1>4. \A v \in S : v.end > addr \/ v.end <= addr
  BY DEF Layout
<1> QED  BY <1>1, <1>2, <1>3, <1>4 DEF The

LEMMA PrevVma ==
  ASSUME NEW S, Layout(S), NEW addr \in Int
  PROVE  /\ \A v \in vma_prev(S, addr) :
              v \in S /\ v.end <= addr
                /\ \A u \in S : u.end <= addr => u = v \/ u.end <= v.start
         /\ \A u, v \in vma_prev(S, addr) : u = v
         /\ \A v \in vma_prev(S, addr) : The(vma_prev(S, addr)) = v
         /\ vma_prev(S, addr) = {} => \A v \in S : v.end > addr
<1>1. \A v \in vma_prev(S, addr) :
        v \in S /\ v.end <= addr /\ \A u \in S : u.end <= addr => u = v \/ u.end <= v.start
  BY DEF vma_prev, Layout
<1>2. \A u, v \in vma_prev(S, addr) : u = v
  BY <1>1 DEF Layout
<1>3. ASSUME NEW w \in S, w.end <= addr
      PROVE  vma_prev(S, addr) # {}
  <2> DEFINE T == {v.end : v \in {u \in S : u.end <= addr}}
  <2>1. T \subseteq Nat /\ T # {} /\ NPages \in Nat /\ \A n \in T : n <= NPages
    BY <1>3, RangeAssumption DEF Layout
  <2> HIDE DEF T
  <2>2. PICK e \in T : \A f \in T : f <= e
    BY <2>1, GreatestNat
  <2> QED  BY <2>2 DEF T, vma_prev
<1>4. \A v \in S : v.end > addr \/ v.end <= addr
  BY DEF Layout
<1> QED  BY <1>1, <1>2, <1>3, <1>4 DEF The

LEMMA StartGap ==
  ASSUME NEW S, Layout(S), NEW v \in S
  PROVE  /\ vm_start_gap(v) \in Nat /\ vm_start_gap(v) <= v.start
         /\ ~v.growsdown => vm_start_gap(v) = v.start
  BY RangeAssumption DEF vm_start_gap, Layout

-----------------------------------------------------------------------------
(* One step of a search *)

LEMMA WellIsFree ==
  ASSUME NEW S, Layout(S), NEW p \in Nat, NEW n \in Nat, FitsWell(S, p, n)
  PROVE  IsFree(S, p, n)
<1> SUFFICES ASSUME NEW v \in S  PROVE Disjoint(v, p, p + n)
  BY DEF IsFree
<1>1. v.end <= p \/ p + n <= vm_start_gap(v)
  BY DEF FitsWell
<1>2. vm_start_gap(v) \in Nat /\ vm_start_gap(v) <= v.start /\ v.start \in Nat
  BY StartGap DEF Layout
<1> QED  BY <1>1, <1>2 DEF Disjoint

(* From within a free range, the next area is the same one. *)
LEMMA NextOfFree ==
  ASSUME NEW S, Layout(S), NEW a \in Nat, NEW n \in Nat, IsFree(S, a, n),
         NEW g \in Nat, a <= g, g < a + n, NEW h \in Nat, a <= h, h < a + n
  PROVE  /\ find_vma(S, g) = find_vma(S, h)
         /\ \A v \in find_vma(S, g) : v \in S /\ a + n <= v.start
<1>1. \A v \in S : v.end \in Nat /\ v.start \in Nat /\ v.start < v.end
                     /\ (v.end <= a \/ a + n <= v.start)
  BY DEF Layout, IsFree, Disjoint
<1>2. \A v \in S : (v.end > g <=> v.end > h) /\ (v.end > g => a + n <= v.start)
  BY <1>1
<1> QED  BY <1>2 DEF find_vma

LEMMA FitsInFree ==
  ASSUME NEW S, Layout(S), NEW a \in Nat, NEW n \in Nat, IsFree(S, a, n),
         NEW r \in Nat, NEW length \in Nat \ {0}, a <= r, r + length <= a + n,
         NEW g \in Nat, a <= g, g < a + n,
         NEW limit \in Nat, r + length <= limit,
         \A v \in GrowingOf(find_vma(S, g)) : limit <= vm_start_gap(v)
  PROVE  Fits(S, r, length)
<1>1. IsFree(S, r, length)
  BY DEF IsFree, Disjoint, Layout
<1>2. ASSUME NEW v \in find_vma(S, r + length - 1)
      PROVE  r + length <= vm_start_gap(v)
  <2>1. r + length - 1 \in Nat /\ a <= r + length - 1 /\ r + length - 1 < a + n
    OBVIOUS
  <2>2. v \in find_vma(S, g) /\ v \in S /\ a + n <= v.start /\ v.start \in Nat
    BY <1>2, <2>1, NextOfFree DEF Layout
  <2>3. vm_start_gap(v) \in Nat /\ (~v.growsdown => vm_start_gap(v) = v.start)
    BY <2>2, StartGap
  <2>4. v.growsdown => limit <= vm_start_gap(v)
    BY <2>2 DEF GrowingOf
  <2> QED  BY <2>2, <2>3, <2>4
<1> QED  BY <1>1, <1>2 DEF Fits

LEMMA LastRange ==
  ASSUME NEW S, NEW low \in Nat, NEW top \in Nat, NEW n \in Nat,
         EmptyRanges(S, low, top, n) # {}
  PROVE  LET p == Max(EmptyRanges(S, low, top, n)) IN
         /\ p \in Nat /\ low <= p /\ p + n <= top + 1 /\ IsFree(S, p, n)
         /\ \A q \in Nat : low <= q /\ q + n <= top + 1 /\ IsFree(S, q, n) => q <= p
<1> DEFINE ranges == EmptyRanges(S, low, top, n)
<1>1. \A q \in ranges : q \in Nat /\ low <= q /\ q + n <= top + 1 /\ IsFree(S, q, n)
  BY DEF EmptyRanges, IsFree
<1>2. \A q \in Nat : low <= q /\ q + n <= top + 1 /\ IsFree(S, q, n) => q \in ranges
  BY DEF EmptyRanges, IsFree
<1> HIDE DEF ranges
<1>3. ranges \subseteq Nat /\ top + 1 \in Nat /\ \A q \in ranges : q <= top + 1
  BY <1>1
<1>4. Max(ranges) \in ranges /\ \A q \in ranges : q <= Max(ranges)
  <2>1. ranges # {}
    BY DEF ranges
  <2> QED  BY <1>3, <2>1, MaxIsGreatest
<1> QED  BY <1>1, <1>2, <1>4 DEF ranges

LEMMA FirstRange ==
  ASSUME NEW S, NEW low \in Nat, NEW top \in Nat, NEW n \in Nat,
         EmptyRanges(S, low, top, n) # {}
  PROVE  LET p == Min(EmptyRanges(S, low, top, n)) IN
         /\ p \in Nat /\ low <= p /\ p + n <= top + 1 /\ IsFree(S, p, n)
         /\ \A q \in Nat : low <= q /\ q + n <= top + 1 /\ IsFree(S, q, n) => p <= q
<1> DEFINE ranges == EmptyRanges(S, low, top, n)
<1>1. \A q \in ranges : q \in Nat /\ low <= q /\ q + n <= top + 1 /\ IsFree(S, q, n)
  BY DEF EmptyRanges, IsFree
<1>2. \A q \in Nat : low <= q /\ q + n <= top + 1 /\ IsFree(S, q, n) => q \in ranges
  BY DEF EmptyRanges, IsFree
<1> HIDE DEF ranges
<1>3. ranges \subseteq Nat
  BY <1>1
<1>4. Min(ranges) \in ranges /\ \A q \in ranges : Min(ranges) <= q
  <2>1. ranges # {}
    BY DEF ranges
  <2> QED  BY <1>3, <2>1, MinIsLeast
<1> QED  BY <1>1, <1>2, <1>4 DEF ranges

LEMMA NoRange ==
  ASSUME NEW S, NEW low \in Nat, NEW top \in Nat, NEW n \in Nat,
         EmptyRanges(S, low, top, n) = {}
  PROVE  \A q \in Nat : low <= q /\ q + n <= top + 1 => ~IsFree(S, q, n)
<1>1. \A q \in Nat : low <= q /\ q + n <= top + 1 /\ IsFree(S, q, n) => q \in EmptyRanges(S, low, top, n)
  BY DEF EmptyRanges, IsFree
<1> QED  BY <1>1

LEMMA RoundedBy ==
  ASSUME NEW x \in Int, NEW mask \in Nat
  PROVE  x % (mask + 1) \in 0..mask
OBVIOUS

-----------------------------------------------------------------------------
(* The search downwards.  From limit 0, which is below a stack that is less *)
(* than the gap above address zero, it goes on at the top of all addresses; *)
(* what it finds there lies above every area, and is refused by its caller. *)

RoundedDown(x, mask, off) == \E g \in Nat : x = g - ((g - off) % (mask + 1))

LEMMA SearchDown ==
  ASSUME NEW S, Layout(S), NEW length \in Nat \ {0}, NEW mask \in Nat, NEW off \in Nat,
         NPages + length + mask <= AddressPages,
         NEW low \in 1..NPages, NEW high \in 1..NPages
  PROVE  LET r == unmapped_area_topdown(S, length, low, high, mask, off) IN
         /\ r = NoRoom \/ r \in Nat
         /\ r \in 0..(NPages - 1) =>
              /\ r \in low..(high - length) /\ Fits(S, r, length)
              /\ RoundedDown(r, mask, off)
         /\ r \in Nat /\ r >= NPages => \E v \in S : vm_start_gap(v) = 0
         /\ \A p \in low..(high - (length + mask)) :
              FitsWell(S, p, length + mask) => r \in 0..(NPages - 1) /\ p <= r
<1> DEFINE need      == length + mask
           D         == 0..AddressPages
           Top(l)    == (l - 1) % AddressPages
           Ranges(l) == EmptyRanges(S, low, Top(l), need)
           GapEnd(l) == Max(Ranges(l)) + need - 1
           Gap(l)    == GapEnd(l) + 1 - length
           Behind(l)   == GrowingOf(find_vma(S, GapEnd(l)))
           Meets(l)  == \E v \in Behind(l) : vm_start_gap(v) <= GapEnd(l)
           Jump(l)   == vm_start_gap(The(Behind(l)))
           Found(l)  == Gap(l) - ((Gap(l) - off) % (mask + 1))
           Body(f, l) == IF Ranges(l) = {} THEN NoRoom
                         ELSE IF Meets(l) THEN f[Jump(l)] ELSE Found(l)
           below     == CHOOSE f : f = [l \in D |-> Body(f, l)]
           r         == unmapped_area_topdown(S, length, low, high, mask, off)
<1>1. r = below[high]
  BY DEF unmapped_area_topdown
<1> HIDE DEF below, r
<1>2. /\ NPages \in Nat \ {0} /\ AddressPages \in Nat \ {0} /\ need \in Nat \ {0}
      /\ NPages + need <= AddressPages
      /\ \A v \in S : v.start \in Nat /\ v.end \in Nat /\ v.start < v.end /\ v.end <= NPages
  BY RangeAssumption DEF Layout
<1>3. /\ \A l \in D : l # 0 => Top(l) = l - 1
      /\ Top(0) = AddressPages - 1
      /\ \A l \in D : Top(l) \in Nat
  BY <1>2
<1> HIDE DEF Top
<1>4. ASSUME NEW l \in D, Ranges(l) # {}
      PROVE  LET m == Max(Ranges(l)) IN
             /\ m \in Nat /\ low <= m /\ m + need <= Top(l) + 1 /\ IsFree(S, m, need)
             /\ \A q \in Nat : low <= q /\ q + need <= Top(l) + 1 /\ IsFree(S, q, need) => q <= m
  <2>1. low \in Nat /\ need \in Nat /\ Top(l) \in Nat
    BY <1>2, <1>3
  <2> QED  BY <1>4, <2>1, LastRange
<1>5. ASSUME NEW l \in D, Ranges(l) # {}, NEW v \in Behind(l)
      PROVE  /\ v \in S /\ v.end > GapEnd(l) /\ The(Behind(l)) = v
             /\ vm_start_gap(v) \in Nat /\ vm_start_gap(v) <= v.start
  <2>1. GapEnd(l) \in Int
    BY <1>2, <1>4, <1>5
  <2> HIDE DEF GapEnd
  <2>2. v \in find_vma(S, GapEnd(l)) /\ \A u \in Behind(l) : u \in find_vma(S, GapEnd(l))
    BY <1>5 DEF GrowingOf
  <2>3. v \in S /\ v.end > GapEnd(l) /\ \A u \in Behind(l) : u = v
    BY <2>1, <2>2, FindVma
  <2>4. vm_start_gap(v) \in Nat /\ vm_start_gap(v) <= v.start
    BY <2>3, StartGap
  <2> HIDE DEF Behind
  <2>5. The(Behind(l)) = v
    BY <1>5, <2>3 DEF The
  <2> QED  BY <2>3, <2>4, <2>5
<1>6. ASSUME NEW l \in D, Ranges(l) # {}, Meets(l)
      PROVE  l # 0 /\ Jump(l) \in 0..(l - 1) /\ Jump(l) < NPages
  <2>1. PICK v \in Behind(l) : vm_start_gap(v) <= GapEnd(l)
    BY <1>6
  <2>2. /\ v \in S /\ v.end > GapEnd(l) /\ Jump(l) = vm_start_gap(v)
        /\ vm_start_gap(v) \in Nat /\ vm_start_gap(v) <= v.start
    BY <1>5, <1>6, <2>1
  <2>3. GapEnd(l) \in Nat /\ GapEnd(l) <= Top(l)
    BY <1>2, <1>3, <1>4, <1>6
  <2>4. l # 0
    <3> SUFFICES ASSUME l = 0  PROVE FALSE
      OBVIOUS
    <3> DEFINE q == AddressPages - need
    <3>1. q \in Nat /\ low <= q /\ q + need <= Top(0) + 1 /\ NPages <= q
      BY <1>2, <1>3
    <3>2. IsFree(S, q, need)
      BY <1>2, <3>1 DEF IsFree, Disjoint
    <3>3. q <= Max(Ranges(l))
      BY <1>4, <1>6, <3>1, <3>2
    <3>4. GapEnd(l) >= AddressPages - 1 /\ v.end <= NPages
      BY <1>2, <1>4, <1>6, <2>2, <3>3
    <3> QED  BY <1>2, <2>2, <2>3, <3>4
  <2> HIDE DEF GapEnd, Jump
  <2>5. Top(l) = l - 1 /\ v.start < NPages /\ v.start \in Nat
    BY <1>2, <1>3, <2>2, <2>4
  <2>6. l \in Nat
    BY <1>2
  <2> HIDE DEF Behind, Ranges, Meets, need
  <2>7. Jump(l) \in Nat /\ Jump(l) <= l - 1 /\ Jump(l) < NPages
    BY <1>2, <2>1, <2>2, <2>3, <2>5, <2>6
  <2> QED  BY <2>4, <2>6, <2>7
<1>7. below = [l \in D |-> Body(below, l)]
  <2> DEFINE stop == {l \in D : Ranges(l) = {} \/ ~Meets(l)}
             val  == [l \in D |-> IF Ranges(l) = {} THEN NoRoom ELSE Found(l)]
             jump == [l \in D |-> Jump(l)]
             rank == [l \in D |-> l]
  <2>1. \A l \in D : l \in stop \/ (jump[l] \in D /\ rank[jump[l]] < rank[l])
    <3> SUFFICES ASSUME NEW l \in D, Ranges(l) # {}, Meets(l)
                 PROVE  Jump(l) \in D /\ Jump(l) < l
      BY Zenon
    <3> HIDE DEF Ranges, Meets, Jump
    <3> QED  BY <1>2, <1>6
  <2>2. Descends(D, stop, jump, rank, AddressPages)
    <3>1. rank \in [D -> Nat] /\ AddressPages \in Nat /\ \A l \in D : rank[l] <= AddressPages
      BY <1>2
    <3> HIDE DEF D, stop, jump, rank
    <3> QED  BY <2>1, <3>1 DEF Descends
  <2>3. PICK g : FollowsJumps(g, D, stop, val, jump)
    <3> HIDE DEF stop, val, jump, rank, D
    <3> QED  BY <2>2, DefinedByDescent
  <2> DEFINE f == [l \in D |-> g[l]]
  <2>4. \A l \in D : g[l] = Body(f, l)
    <3> SUFFICES ASSUME NEW l \in D  PROVE g[l] = Body(f, l)
      OBVIOUS
    <3>1. l \notin stop => jump[l] \in D
      <4> HIDE DEF stop, jump, D
      <4> QED  BY <2>1
    <3>2. g[l] = IF l \in stop THEN val[l] ELSE g[jump[l]]
      <4> HIDE DEF stop, val, jump
      <4> QED  BY <2>3 DEF FollowsJumps
    <3> HIDE DEF Ranges, Meets, Jump, Found
    <3> QED  BY <3>1, <3>2
  <2>5. f = [l \in D |-> Body(f, l)]
    <3> HIDE DEF Body
    <3> QED  BY <2>4
  <2> HIDE DEF Body, f
  <2> QED  BY <2>5 DEF below
<1>8. \A l \in D : below[l] = Body(below, l)
  <2> HIDE DEF Body, D
  <2> QED  BY <1>7
<1> DEFINE Sound(l) ==
             /\ below[l] = NoRoom \/ below[l] \in Nat
             /\ below[l] \in 0..(NPages - 1) =>
                  /\ below[l] \in low..(l - length) /\ Fits(S, below[l], length)
                  /\ RoundedDown(below[l], mask, off)
             /\ below[l] \in Nat /\ below[l] >= NPages => l = 0 \/ \E v \in S : vm_start_gap(v) = 0
           Complete(l) ==
             \A p \in low..(l - need) :
               FitsWell(S, p, need) => below[l] \in 0..(NPages - 1) /\ p <= below[l]
<1>9. ASSUME NEW l \in 0..NPages, Ranges(l) = {}
      PROVE  Sound(l) /\ Complete(l)
  <2>1. l \in D /\ Top(l) \in Nat /\ (l # 0 => Top(l) = l - 1)
    BY <1>2, <1>3
  <2>2. below[l] = NoRoom
    BY <1>8, <1>9, <2>1
  <2>3. Complete(l)
    <3> SUFFICES ASSUME NEW p \in low..(l - need), FitsWell(S, p, need)  PROVE FALSE
      OBVIOUS
    <3>1. p \in Nat /\ low <= p /\ p + need <= Top(l) + 1
      BY <1>2, <2>1
    <3> QED  BY <1>2, <1>9, <2>1, <3>1, NoRange, WellIsFree
  <2> QED  BY <1>2, <2>2, <2>3 DEF NoRoom
<1>10. ASSUME NEW l \in 0..NPages, Ranges(l) # {}, Meets(l),
              Sound(Jump(l)), Complete(Jump(l))
       PROVE  Sound(l) /\ Complete(l)
  <2>1. l \in D /\ l # 0 /\ Jump(l) \in 0..(l - 1) /\ Top(l) = l - 1
    BY <1>2, <1>3, <1>6, <1>10
  <2>2. below[l] = below[Jump(l)]
    <3> HIDE DEF Ranges, Meets, Jump
    <3> QED  BY <1>8, <1>10, <2>1
  <2>3. PICK v \in Behind(l) : vm_start_gap(v) <= GapEnd(l)
    BY <1>10
  <2>4. /\ v \in S /\ v.end > GapEnd(l) /\ Jump(l) = vm_start_gap(v)
        /\ vm_start_gap(v) \in Nat /\ v.end \in Nat
    BY <1>2, <1>5, <1>10, <2>1, <2>3
  <2>5. Complete(l)
    <3> SUFFICES ASSUME NEW p \in low..(l - need), FitsWell(S, p, need)
                 PROVE  below[Jump(l)] \in 0..(NPages - 1) /\ p <= below[Jump(l)]
      BY <2>2
    <3>1. p \in Nat /\ low <= p /\ p + need <= Top(l) + 1
      BY <1>2, <2>1
    <3>2. p <= Max(Ranges(l))
      BY <1>2, <1>4, <1>10, <2>1, <3>1, WellIsFree
    <3>3. p < v.end
      BY <1>2, <1>4, <1>10, <2>1, <2>4, <3>1, <3>2
    <3>4. p + need <= vm_start_gap(v)
      <4>1. v.end <= p \/ p + need <= vm_start_gap(v)
        BY <2>4 DEF FitsWell
      <4> QED  BY <2>4, <3>1, <3>3, <4>1
    <3>5. p \in low..(Jump(l) - need)
      <4> HIDE DEF Jump
      <4> QED  BY <1>2, <2>4, <3>1, <3>4
    <3> HIDE DEF Jump
    <3> QED  BY <1>10, <3>5
  <2>6. Sound(l)
    <3> DEFINE j == Jump(l)
    <3>1. j \in Nat /\ j < l /\ Sound(j) /\ below[l] = below[j]
      BY <1>10, <2>1, <2>2
    <3>2. j = 0 => \E u \in S : vm_start_gap(u) = 0
      BY <2>4
    <3>3. l \in Nat
      OBVIOUS
    <3> HIDE DEF j
    <3> QED  BY <1>2, <3>1, <3>2, <3>3
  <2> QED  BY <2>5, <2>6
<1>11. ASSUME NEW l \in 0..NPages, Ranges(l) # {}, ~Meets(l)
       PROVE  Sound(l) /\ Complete(l)
  <2> DEFINE m   == Max(Ranges(l))
             cut == (Gap(l) - off) % (mask + 1)
  <2>1. l \in D /\ Top(l) \in Nat /\ (l # 0 => Top(l) = l - 1) /\ (l = 0 => Top(l) = AddressPages - 1)
    BY <1>2, <1>3
  <2>2. below[l] = Found(l)
    <3> HIDE DEF Ranges, Meets, Found
    <3> QED  BY <1>8, <1>11, <2>1
  <2>3. /\ m \in Nat /\ low <= m /\ m + need <= Top(l) + 1 /\ IsFree(S, m, need)
        /\ \A q \in Nat : low <= q /\ q + need <= Top(l) + 1 /\ IsFree(S, q, need) => q <= m
    BY <1>4, <1>11, <2>1
  <2> HIDE DEF Ranges
  <2>4. Gap(l) = m + mask /\ Gap(l) \in Nat /\ GapEnd(l) = m + need - 1 /\ GapEnd(l) \in Nat
    BY <1>2, <2>3
  <2>5. cut \in 0..mask
    <3>1. Gap(l) - off \in Int
      BY <2>4
    <3> HIDE DEF Gap
    <3> QED  BY <3>1, RoundedBy
  <2>6. below[l] = Gap(l) - cut
    BY <2>2
  <2>7. \A v \in Behind(l) : GapEnd(l) + 1 <= vm_start_gap(v)
    <3>1. \A v \in Behind(l) : vm_start_gap(v) \in Nat /\ ~(vm_start_gap(v) <= GapEnd(l))
      BY <1>5, <1>11, <2>1
    <3> HIDE DEF Behind, GapEnd
    <3> QED  BY <2>4, <3>1
  <2>8. RoundedDown(below[l], mask, off)
    <3> HIDE DEF Gap
    <3> QED  BY <2>4, <2>6 DEF RoundedDown
  <2> HIDE DEF cut
  <2>9. below[l] \in Nat /\ m <= below[l] /\ below[l] + length <= m + need
    BY <1>2, <2>3, <2>4, <2>5, <2>6
  <2>10. Fits(S, below[l], length)
    <3> DEFINE r1 == below[l]  g1 == GapEnd(l)
    <3>1. /\ g1 \in Nat /\ m <= g1 /\ g1 < m + need /\ g1 + 1 \in Nat
          /\ r1 \in Nat /\ m <= r1 /\ r1 + length <= m + need /\ r1 + length <= g1 + 1
          /\ m \in Nat /\ need \in Nat
      BY <1>2, <2>3, <2>4, <2>9
    <3>2. \A v \in GrowingOf(find_vma(S, g1)) : g1 + 1 <= vm_start_gap(v)
      BY <2>7
    <3> HIDE DEF r1, g1, m, need
    <3>3. Fits(S, r1, length)
      BY <2>3, <3>1, <3>2, FitsInFree
    <3> QED  BY <3>3 DEF r1
  <2> HIDE DEF m
  <2>11. CASE l = 0
    <3> DEFINE q == AddressPages - need
    <3>1. q \in Nat /\ low <= q /\ q + need <= Top(l) + 1 /\ NPages <= q
      BY <1>2, <2>1, <2>11
    <3>2. IsFree(S, q, need)
      BY <1>2, <3>1 DEF IsFree, Disjoint
    <3>3. below[l] >= NPages
      BY <1>2, <2>3, <2>9, <3>1, <3>2
    <3> HIDE DEF Fits
    <3> QED  BY <1>2, <2>9, <2>11, <3>3
  <2>12. CASE l # 0
    <3>1. below[l] <= l - length /\ low <= below[l] /\ below[l] < NPages
      BY <1>2, <2>1, <2>3, <2>9, <2>12
    <3>2. Complete(l)
      <4> SUFFICES ASSUME NEW p \in low..(l - need), FitsWell(S, p, need)
                   PROVE  p <= below[l] /\ below[l] \in 0..(NPages - 1)
        OBVIOUS
      <4>1. p \in Nat /\ low <= p /\ p + need <= Top(l) + 1
        BY <1>2, <2>1, <2>12
      <4>2. p <= m
        <5>1. IsFree(S, p, need)
          <6> HIDE DEF need
          <6> QED  BY <1>2, <4>1, WellIsFree
        <5> QED  BY <2>3, <4>1, <5>1
      <4> QED  BY <1>2, <2>3, <2>9, <3>1, <4>2
    <3> QED  BY <1>2, <2>8, <2>9, <2>10, <3>1, <3>2
  <2> QED  BY <2>11, <2>12
<1>12. \A l \in 0..NPages : Sound(l) /\ Complete(l)
  <2> DEFINE wrong == {l \in 0..NPages : ~(Sound(l) /\ Complete(l))}
  <2> SUFFICES ASSUME wrong # {}  PROVE FALSE
    BY Zenon
  <2>1. PICK l \in wrong : \A k \in wrong : l <= k
    <3> HIDE DEF Sound, Complete
    <3>1. wrong \subseteq Nat
      OBVIOUS
    <3> HIDE DEF wrong
    <3> QED  BY <3>1, LeastNat
  <2>2. l \in 0..NPages /\ l \in D
    BY <1>2
  <2>3. Ranges(l) # {} /\ Meets(l)
    <3> HIDE DEF Sound, Complete, Ranges, Meets
    <3> QED  BY <1>9, <1>11, <2>2
  <2>4. Jump(l) \in 0..NPages /\ ~(l <= Jump(l))
    <3> HIDE DEF Jump, Ranges, Meets
    <3> QED  BY <1>2, <1>6, <2>2, <2>3
  <2>5. Sound(Jump(l)) /\ Complete(Jump(l))
    <3> HIDE DEF Sound, Complete, Jump
    <3> QED  BY <2>1, <2>4
  <2> HIDE DEF Sound, Complete, Ranges, Meets, Jump
  <2> QED  BY <1>10, <2>2, <2>3, <2>5
<1>13. high \in 0..NPages /\ high # 0 /\ Sound(high) /\ Complete(high)
  <2> HIDE DEF Sound, Complete
  <2> QED  BY <1>2, <1>12
<1> QED  BY <1>1, <1>13 DEF r

-----------------------------------------------------------------------------
(* The search upwards, which goes on above each area it has met.  Where     *)
(* alignment asks for more than the length it may pass a range by.          *)

RoundedUp(x, mask, off) == \E a \in Nat : x = a + ((off - a) % (mask + 1))

LEMMA SearchUp ==
  ASSUME NEW S, Layout(S), NEW length \in Nat \ {0}, NEW mask \in Nat, NEW off \in Nat,
         NEW low \in 1..NPages, NEW high \in 1..NPages
  PROVE  LET r == unmapped_area(S, length, low, high, mask, off) IN
         /\ r = NoRoom \/ r \in Nat
         /\ r \in Nat =>
              /\ r \in low..(high - length) /\ Fits(S, r, length)
              /\ RoundedUp(r, mask, off)
         /\ mask = 0 =>
              \A p \in low..(high - length) : FitsWell(S, p, length) => r \in Nat /\ r <= p
<1> DEFINE need      == length + mask
           D         == 0..AddressPages
           Ranges(l) == EmptyRanges(S, l, high - 1, need)
           Lowest(l) == Min(Ranges(l))
           Gap(l)    == Lowest(l) + ((off - Lowest(l)) % (mask + 1))
           Behind(l)   == GrowingOf(find_vma(S, Lowest(l)))
           Meets(l)  == \E v \in Behind(l) : vm_start_gap(v) < Gap(l) + need
           Jump(l)   == The(Behind(l)).end
           Body(f, l) == IF Ranges(l) = {} THEN NoRoom
                         ELSE IF Meets(l) THEN f[Jump(l)] ELSE Gap(l)
           above     == CHOOSE f : f = [l \in D |-> Body(f, l)]
           r         == unmapped_area(S, length, low, high, mask, off)
<1>1. r = above[low]
  BY DEF unmapped_area
<1> HIDE DEF above, r
<1>2. /\ NPages \in Nat \ {0} /\ AddressPages \in Nat \ {0} /\ need \in Nat \ {0}
      /\ NPages <= AddressPages /\ high \in Nat \ {0} /\ high - 1 \in Nat
      /\ \A v \in S : v.start \in Nat /\ v.end \in Nat /\ v.start < v.end /\ v.end <= NPages
  BY RangeAssumption DEF Layout
<1>3. ASSUME NEW l \in D, Ranges(l) # {}
      PROVE  LET a == Lowest(l) IN
             /\ a \in Nat /\ l <= a /\ a + need <= high /\ IsFree(S, a, need)
             /\ \A q \in Nat : l <= q /\ q + need <= high /\ IsFree(S, q, need) => a <= q
  <2>1. l \in Nat /\ need \in Nat /\ high - 1 \in Nat /\ (high - 1) + 1 = high
    BY <1>2
  <2> HIDE DEF need
  <2> QED  BY <1>3, <2>1, FirstRange
<1>4. ASSUME NEW l \in D, Ranges(l) # {}
      PROVE  /\ Gap(l) \in Nat /\ Lowest(l) <= Gap(l) /\ Gap(l) <= Lowest(l) + mask
             /\ mask = 0 => Gap(l) = Lowest(l)
  <2>1. Lowest(l) \in Nat
    BY <1>3, <1>4
  <2> DEFINE x == (off - Lowest(l)) % (mask + 1)
  <2>2. x \in 0..mask
    <3>1. off - Lowest(l) \in Int
      BY <2>1
    <3> HIDE DEF Lowest
    <3> QED  BY <3>1, RoundedBy
  <2>3. Gap(l) = Lowest(l) + x
    OBVIOUS
  <2> HIDE DEF x, Lowest, Gap
  <2> QED  BY <2>1, <2>2, <2>3
<1> HIDE DEF Gap
<1>5. ASSUME NEW l \in D, Ranges(l) # {}, NEW v \in Behind(l)
      PROVE  /\ v \in S /\ v.end > Lowest(l) /\ The(Behind(l)) = v
             /\ vm_start_gap(v) \in Nat /\ vm_start_gap(v) <= v.start
  <2>1. Lowest(l) \in Int
    BY <1>3, <1>5
  <2> HIDE DEF Lowest
  <2>2. v \in find_vma(S, Lowest(l)) /\ \A u \in Behind(l) : u \in find_vma(S, Lowest(l))
    BY <1>5 DEF GrowingOf
  <2>3. v \in S /\ v.end > Lowest(l) /\ \A u \in Behind(l) : u = v
    BY <2>1, <2>2, FindVma
  <2>4. vm_start_gap(v) \in Nat /\ vm_start_gap(v) <= v.start
    BY <2>3, StartGap
  <2> HIDE DEF Behind
  <2>5. The(Behind(l)) = v
    BY <1>5, <2>3 DEF The
  <2> QED  BY <2>3, <2>4, <2>5
<1>6. ASSUME NEW l \in D, Ranges(l) # {}, Meets(l)
      PROVE  Jump(l) \in 0..NPages /\ l < Jump(l) /\ l < high
  <2>1. PICK v \in Behind(l) : vm_start_gap(v) < Gap(l) + need
    BY <1>6
  <2>2. v \in S /\ v.end > Lowest(l) /\ Jump(l) = v.end
    BY <1>5, <1>6, <2>1
  <2>3. Lowest(l) \in Nat /\ l <= Lowest(l) /\ Lowest(l) + need <= high /\ l \in Nat
    BY <1>3, <1>6
  <2> HIDE DEF Lowest, Jump
  <2> QED  BY <1>2, <2>2, <2>3
<1>7. above = [l \in D |-> Body(above, l)]
  <2> DEFINE stop == {l \in D : Ranges(l) = {} \/ ~Meets(l)}
             val  == [l \in D |-> IF Ranges(l) = {} THEN NoRoom ELSE Gap(l)]
             jump == [l \in D |-> Jump(l)]
             rank == [l \in D |-> IF l <= high THEN high - l ELSE 0]
  <2>1. \A l \in D : l \in stop \/ (jump[l] \in D /\ rank[jump[l]] < rank[l])
    <3> SUFFICES ASSUME NEW l \in D, Ranges(l) # {}, Meets(l)
                 PROVE  Jump(l) \in D /\ rank[Jump(l)] < rank[l]
      BY Zenon
    <3>1. Jump(l) \in 0..NPages /\ l < Jump(l) /\ l < high
      BY <1>6
    <3> HIDE DEF Ranges, Meets, Jump
    <3> QED  BY <1>2, <3>1
  <2>2. Descends(D, stop, jump, rank, high)
    <3>1. rank \in [D -> Nat] /\ high \in Nat /\ \A l \in D : rank[l] <= high
      BY <1>2
    <3> HIDE DEF D, stop, jump, rank
    <3> QED  BY <2>1, <3>1 DEF Descends
  <2>3. PICK g : FollowsJumps(g, D, stop, val, jump)
    <3> HIDE DEF stop, val, jump, rank, D
    <3> QED  BY <2>2, DefinedByDescent
  <2> DEFINE f == [l \in D |-> g[l]]
  <2>4. \A l \in D : g[l] = Body(f, l)
    <3> SUFFICES ASSUME NEW l \in D  PROVE g[l] = Body(f, l)
      OBVIOUS
    <3>1. l \notin stop => jump[l] \in D
      <4> HIDE DEF stop, jump, D
      <4> QED  BY <2>1
    <3>2. g[l] = IF l \in stop THEN val[l] ELSE g[jump[l]]
      <4> HIDE DEF stop, val, jump
      <4> QED  BY <2>3 DEF FollowsJumps
    <3> HIDE DEF Ranges, Meets, Jump
    <3> QED  BY <3>1, <3>2
  <2>5. f = [l \in D |-> Body(f, l)]
    <3> HIDE DEF Body
    <3> QED  BY <2>4
  <2> HIDE DEF Body, f
  <2> QED  BY <2>5 DEF above
<1>8. \A l \in D : above[l] = Body(above, l)
  <2> HIDE DEF Body, D
  <2> QED  BY <1>7
<1> DEFINE Sound(l) ==
             /\ above[l] = NoRoom \/ above[l] \in Nat
             /\ above[l] \in Nat =>
                  /\ above[l] \in l..(high - length) /\ Fits(S, above[l], length)
                  /\ RoundedUp(above[l], mask, off)
           Complete(l) ==
             mask = 0 => \A p \in l..(high - length) :
                           FitsWell(S, p, length) => above[l] \in Nat /\ above[l] <= p
<1>9. ASSUME NEW l \in 0..NPages, Ranges(l) = {}
      PROVE  Sound(l) /\ Complete(l)
  <2>1. l \in D
    BY <1>2
  <2>2. above[l] = NoRoom
    BY <1>8, <1>9, <2>1
  <2>3. Complete(l)
    <3> SUFFICES ASSUME mask = 0, NEW p \in l..(high - length), FitsWell(S, p, length)
                 PROVE FALSE
      OBVIOUS
    <3>1. p \in Nat /\ l <= p /\ p + need <= (high - 1) + 1 /\ need = length /\ l \in Nat
      BY <1>2
    <3>2. IsFree(S, p, length)
      BY <3>1, WellIsFree
    <3> HIDE DEF need
    <3> QED  BY <1>2, <1>9, <3>1, <3>2, NoRange
  <2> QED  BY <1>2, <2>2, <2>3 DEF NoRoom
<1>10. ASSUME NEW l \in 0..NPages, Ranges(l) # {}, Meets(l),
              Sound(Jump(l)), Complete(Jump(l))
       PROVE  Sound(l) /\ Complete(l)
  <2>1. l \in D /\ l \in Nat /\ Jump(l) \in 0..NPages /\ l < Jump(l)
    BY <1>2, <1>6, <1>10
  <2>2. above[l] = above[Jump(l)]
    <3> HIDE DEF Ranges, Meets, Jump
    <3> QED  BY <1>8, <1>10, <2>1
  <2>3. PICK v \in Behind(l) : vm_start_gap(v) < Gap(l) + need
    BY <1>10
  <2>4. /\ v \in S /\ v.end > Lowest(l) /\ Jump(l) = v.end
        /\ vm_start_gap(v) \in Nat /\ v.end \in Nat
    BY <1>2, <1>5, <1>10, <2>1, <2>3
  <2>5. Complete(l)
    <3> SUFFICES ASSUME mask = 0, NEW p \in l..(high - length), FitsWell(S, p, length)
                 PROVE  above[Jump(l)] \in Nat /\ above[Jump(l)] <= p
      BY <2>2
    <3>1. p \in Nat /\ l <= p /\ p + need <= high /\ need = length
      BY <1>2
    <3>2. IsFree(S, p, need)
      BY <3>1, WellIsFree
    <3>3. Lowest(l) \in Nat /\ Lowest(l) <= p /\ Gap(l) = Lowest(l)
      BY <1>3, <1>4, <1>10, <2>1, <3>1, <3>2
    <3>4. v.end <= p
      <4>1. v.end <= p \/ p + length <= vm_start_gap(v)
        BY <2>4 DEF FitsWell
      <4> HIDE DEF Lowest
      <4> QED  BY <2>3, <2>4, <3>1, <3>3, <4>1
    <3>5. p \in Jump(l)..(high - length)
      <4> HIDE DEF Jump
      <4> QED  BY <1>2, <2>4, <3>1, <3>4
    <3> HIDE DEF Jump
    <3> QED  BY <1>10, <3>5
  <2>6. Sound(l)
    <3> DEFINE j == Jump(l)
    <3>1. j \in Nat /\ l < j /\ l \in Nat /\ Sound(j) /\ above[l] = above[j]
      BY <1>10, <2>1, <2>2
    <3> HIDE DEF j
    <3> QED  BY <1>2, <3>1
  <2> QED  BY <2>5, <2>6
<1>11. ASSUME NEW l \in 0..NPages, Ranges(l) # {}, ~Meets(l)
       PROVE  Sound(l) /\ Complete(l)
  <2> DEFINE a == Lowest(l)
  <2>1. l \in D /\ l \in Nat
    BY <1>2
  <2>2. above[l] = Gap(l)
    <3> HIDE DEF Ranges, Meets
    <3> QED  BY <1>8, <1>11, <2>1
  <2>3. /\ a \in Nat /\ l <= a /\ a + need <= high /\ IsFree(S, a, need)
        /\ \A q \in Nat : l <= q /\ q + need <= high /\ IsFree(S, q, need) => a <= q
    BY <1>3, <1>11, <2>1
  <2>4. Gap(l) \in Nat /\ a <= Gap(l) /\ Gap(l) <= a + mask /\ (mask = 0 => Gap(l) = a)
    BY <1>4, <1>11, <2>1
  <2>5. \A v \in find_vma(S, a) : v \in GrowingOf(find_vma(S, a)) => Gap(l) + need <= vm_start_gap(v)
    <3>1. \A v \in Behind(l) : vm_start_gap(v) \in Nat /\ ~(vm_start_gap(v) < Gap(l) + need)
      BY <1>5, <1>11, <2>1
    <3> HIDE DEF Behind
    <3>2. \A v \in Behind(l) : Gap(l) + need <= vm_start_gap(v)
      BY <1>2, <2>4, <3>1
    <3> QED  BY <3>2 DEF Behind
  <2>6. RoundedUp(above[l], mask, off)
    <3>1. Gap(l) = a + ((off - a) % (mask + 1))
      BY DEF Gap
    <3> HIDE DEF a
    <3> QED  BY <2>2, <2>3, <3>1 DEF RoundedUp
  <2> HIDE DEF Ranges, Meets
  <2>7. Fits(S, above[l], length)
    <3> DEFINE r1 == above[l]  limit == Gap(l) + need
    <3>1. /\ a < a + need /\ limit \in Nat
          /\ r1 \in Nat /\ a <= r1 /\ r1 + length <= a + need /\ r1 + length <= limit
          /\ a \in Nat /\ need \in Nat
      <4> HIDE DEF a
      <4> QED  BY <1>2, <2>2, <2>3, <2>4
    <3>2. \A v \in GrowingOf(find_vma(S, a)) : limit <= vm_start_gap(v)
      BY <2>5 DEF GrowingOf
    <3> HIDE DEF r1, a, need, limit
    <3>3. Fits(S, r1, length)
      BY <2>3, <3>1, <3>2, FitsInFree
    <3> QED  BY <3>3 DEF r1
  <2> HIDE DEF a
  <2>8. above[l] \in Nat /\ above[l] \in l..(high - length)
    BY <1>2, <2>1, <2>2, <2>3, <2>4
  <2>9. Complete(l)
    <3> SUFFICES ASSUME mask = 0, NEW p \in l..(high - length), FitsWell(S, p, length)
                 PROVE  above[l] <= p
      BY <2>8
    <3>1. p \in Nat /\ l <= p /\ p + need <= high /\ need = length
      BY <1>2, <2>1
    <3>2. IsFree(S, p, need)
      BY <3>1, WellIsFree
    <3> QED  BY <2>2, <2>3, <2>4, <3>1, <3>2
  <2> QED  BY <2>6, <2>7, <2>8, <2>9
<1>12. \A l \in 0..NPages : Sound(l) /\ Complete(l)
  <2> DEFINE wrong == {l \in 0..NPages : ~(Sound(l) /\ Complete(l))}
  <2> SUFFICES ASSUME wrong # {}  PROVE FALSE
    BY Zenon
  <2>1. PICK l \in wrong : \A k \in wrong : k <= l
    <3> HIDE DEF Sound, Complete
    <3>1. wrong \subseteq Nat /\ NPages \in Nat /\ \A k \in wrong : k <= NPages
      BY <1>2
    <3> HIDE DEF wrong
    <3> QED  BY <3>1, GreatestNat
  <2>2. l \in 0..NPages /\ l \in D
    BY <1>2
  <2>3. Ranges(l) # {} /\ Meets(l)
    <3> HIDE DEF Sound, Complete, Ranges, Meets
    <3> QED  BY <1>9, <1>11, <2>2
  <2>4. Jump(l) \in 0..NPages /\ ~(Jump(l) <= l)
    <3> HIDE DEF Jump, Ranges, Meets
    <3> QED  BY <1>2, <1>6, <2>2, <2>3
  <2>5. Sound(Jump(l)) /\ Complete(Jump(l))
    <3> HIDE DEF Sound, Complete, Jump
    <3> QED  BY <2>1, <2>4
  <2> HIDE DEF Sound, Complete, Ranges, Meets, Jump
  <2> QED  BY <1>10, <2>2, <2>3, <2>5
<1>13. low \in 0..NPages /\ Sound(low) /\ Complete(low)
  <2> HIDE DEF Sound, Complete
  <2> QED  BY <1>2, <1>12
<1> QED  BY <1>1, <1>13 DEF r

-----------------------------------------------------------------------------
(* The search of mmap() *)

LEMMA HintIsTaken ==
  ASSUME NEW S, Layout(S), NEW len \in 1..NPages, NEW hint \in 0..(NPages - 1)
  PROVE  HintIsFree(S, hint, len) <=> hint \in Fitting(S, mmap_min_addr, NPages, len)
<1>1. NPages \in Nat /\ mmap_min_addr \in Nat \ {0} /\ len \in Nat \ {0} /\ hint \in Nat
  BY RangeAssumption
<1>2. \A v \in S : /\ v.start \in Nat /\ v.end \in Nat /\ v.start < v.end
                   /\ vm_start_gap(v) \in Nat /\ vm_start_gap(v) <= v.start
  BY StartGap DEF Layout
<1>3. ASSUME HintIsFree(S, hint, len)
      PROVE  hint \in Fitting(S, mmap_min_addr, NPages, len)
  <2>1. hint \in mmap_min_addr..(NPages - len)
    BY <1>1, <1>3 DEF HintIsFree
  <2>2. ASSUME NEW u \in S, u.end > hint
        PROVE  hint + len <= u.start
    <3>1. find_vma(S, hint) # {}
      BY <1>1, <1>2, <2>2, FindVma
    <3>2. PICK v \in find_vma(S, hint) : TRUE
      BY <3>1
    <3>3. v \in S /\ (u = v \/ v.end <= u.start) /\ hint + len <= vm_start_gap(v)
      BY <1>1, <1>3, <2>2, <3>2, FindVma DEF HintIsFree
    <3> QED  BY <1>1, <1>2, <3>3
  <2>3. IsFree(S, hint, len)
    BY <1>1, <1>2, <2>2 DEF IsFree, Disjoint
  <2>4. ASSUME NEW v \in find_vma(S, hint + len - 1)
        PROVE  hint + len <= vm_start_gap(v)
    <3>1. /\ hint + len - 1 \in Nat /\ hint <= hint + len - 1 /\ hint + len - 1 < hint + len
          /\ hint < hint + len
      BY <1>1
    <3>2. v \in find_vma(S, hint)
      BY <1>1, <2>3, <2>4, <3>1, NextOfFree
    <3> QED  BY <1>3, <3>2 DEF HintIsFree
  <2> QED  BY <2>1, <2>3, <2>4 DEF Fitting, Fits
<1>4. ASSUME hint \in Fitting(S, mmap_min_addr, NPages, len)
      PROVE  HintIsFree(S, hint, len)
  <2>1. hint \in mmap_min_addr..(NPages - len) /\ Fits(S, hint, len)
    BY <1>4 DEF Fitting
  <2>2. ASSUME NEW v \in find_vma(S, hint)
        PROVE  hint + len <= vm_start_gap(v)
    <3>1. /\ hint + len - 1 \in Nat /\ hint <= hint + len - 1 /\ hint + len - 1 < hint + len
          /\ hint < hint + len
      BY <1>1
    <3>2. v \in find_vma(S, hint + len - 1)
      BY <1>1, <2>1, <2>2, <3>1, NextOfFree DEF Fits
    <3> QED  BY <2>1, <3>2 DEF Fits
  <2> QED  BY <1>1, <2>1, <2>2 DEF HintIsFree
<1> QED  BY <1>3, <1>4

Far(S) == \A v \in S : vm_start_gap(v) # 0

(* The two searches of an address below the areas that are mapped. *)
LEMMA DownThenUp ==
  ASSUME NEW S, Layout(S), NEW len \in 1..NPages
  PROVE  LET down == unmapped_area_topdown(S, len, mmap_min_addr, mmap_base, 0, 0)
             up   == unmapped_area(S, len, TASK_UNMAPPED_BASE, NPages, 0, 0) IN
         /\ down = NoRoom \/ down \in Nat
         /\ down \in 0..(NPages - 1) => down \in Fitting(S, mmap_min_addr, mmap_base, len)
         /\ down \in Nat /\ down >= NPages => ~Far(S)
         /\ \A p \in FittingWell(S, mmap_min_addr, mmap_base, len) :
              down \in 0..(NPages - 1) /\ p <= down
         /\ up = NoRoom \/ up \in Fitting(S, TASK_UNMAPPED_BASE, NPages, len)
         /\ \A p \in FittingWell(S, TASK_UNMAPPED_BASE, NPages, len) : up \in Nat /\ up <= p
<1>1. /\ mmap_min_addr \in 1..NPages /\ mmap_base \in 1..NPages /\ NPages \in 1..NPages
      /\ TASK_UNMAPPED_BASE \in 1..NPages /\ len \in Nat \ {0} /\ 0 \in Nat
      /\ NPages + len + 0 <= AddressPages /\ len + 0 = len
  BY RangeAssumption
<1> DEFINE down == unmapped_area_topdown(S, len, mmap_min_addr, mmap_base, 0, 0)
           up   == unmapped_area(S, len, TASK_UNMAPPED_BASE, NPages, 0, 0)
<1>2. /\ down = NoRoom \/ down \in Nat
      /\ down \in 0..(NPages - 1) =>
           down \in mmap_min_addr..(mmap_base - len) /\ Fits(S, down, len)
      /\ down \in Nat /\ down >= NPages => \E v \in S : vm_start_gap(v) = 0
      /\ \A p \in mmap_min_addr..(mmap_base - (len + 0)) :
           FitsWell(S, p, len + 0) => down \in 0..(NPages - 1) /\ p <= down
  BY <1>1, SearchDown
<1>3. /\ up = NoRoom \/ up \in Nat
      /\ up \in Nat => up \in TASK_UNMAPPED_BASE..(NPages - len) /\ Fits(S, up, len)
      /\ \A p \in TASK_UNMAPPED_BASE..(NPages - len) :
           FitsWell(S, p, len) => up \in Nat /\ up <= p
  BY <1>1, SearchUp
<1> HIDE DEF down, up
<1> QED  BY <1>1, <1>2, <1>3 DEF Fitting, FittingWell, Far, down, up

LEMMA GetUnmappedArea ==
  ASSUME NEW S, Layout(S), NEW len \in 1..NPages
  PROVE  LET any  == get_unmapped_area(S, 0, len)
             down == Fitting(S, mmap_min_addr, mmap_base, len)
             up   == Fitting(S, TASK_UNMAPPED_BASE, NPages, len) IN
         /\ any = NoRoom \/ any \in down \cup up
         /\ \A p \in FittingWell(S, mmap_min_addr, mmap_base, len) : any \in down /\ any >= p
         /\ Far(S) => \A p \in FittingWell(S, TASK_UNMAPPED_BASE, NPages, len) :
                        any # NoRoom /\ (any <= p \/ any \in down)
         /\ \A hint \in 0..(NPages - 1) :
              get_unmapped_area(S, hint, len) =
                IF hint \in Fitting(S, mmap_min_addr, NPages, len) THEN hint ELSE any
<1> DEFINE any == get_unmapped_area(S, 0, len)
           D   == unmapped_area_topdown(S, len, mmap_min_addr, mmap_base, 0, 0)
           U   == unmapped_area(S, len, TASK_UNMAPPED_BASE, NPages, 0, 0)
           Got(hint) == generic_get_unmapped_area_topdown(S, hint, len)
           long == len > NPages - mmap_min_addr
<1>1. /\ NPages \in Nat /\ len \in Nat \ {0} /\ mmap_min_addr \in Nat \ {0}
      /\ mmap_base \in mmap_min_addr..NPages /\ TASK_UNMAPPED_BASE \in mmap_min_addr..NPages
  BY RangeAssumption
<1>2. /\ \A hint : Got(hint) = IF long THEN NoRoom
                               ELSE IF HintIsFree(S, hint, len) THEN hint
                               ELSE IF D # NoRoom THEN D ELSE U
      /\ \A hint : get_unmapped_area(S, hint, len) =
                     IF Got(hint) > NPages - len THEN NoRoom ELSE Got(hint)
  BY DEF generic_get_unmapped_area_topdown, get_unmapped_area
<1>3. /\ D = NoRoom \/ D \in Nat
      /\ D \in 0..(NPages - 1) => D \in Fitting(S, mmap_min_addr, mmap_base, len)
      /\ D \in Nat /\ D >= NPages => ~Far(S)
      /\ \A p \in FittingWell(S, mmap_min_addr, mmap_base, len) :
           D \in 0..(NPages - 1) /\ p <= D
      /\ U = NoRoom \/ U \in Fitting(S, TASK_UNMAPPED_BASE, NPages, len)
      /\ \A p \in FittingWell(S, TASK_UNMAPPED_BASE, NPages, len) : U \in Nat /\ U <= p
  BY DownThenUp
<1>4. ~HintIsFree(S, 0, len)
  BY DEF HintIsFree
<1>5. \A hint \in 0..(NPages - 1) :
        HintIsFree(S, hint, len) <=> hint \in Fitting(S, mmap_min_addr, NPages, len)
  BY HintIsTaken
<1>6. /\ \A p \in Fitting(S, mmap_min_addr, mmap_base, len) :
           p \in Nat /\ p <= NPages - len /\ ~long
      /\ \A p \in Fitting(S, TASK_UNMAPPED_BASE, NPages, len) :
           p \in Nat /\ p <= NPages - len /\ ~long
      /\ \A p \in Fitting(S, mmap_min_addr, NPages, len) :
           p \in Nat /\ p <= NPages - len /\ ~long
      /\ \A p \in FittingWell(S, mmap_min_addr, mmap_base, len) : p \in Nat /\ ~long
      /\ \A p \in FittingWell(S, TASK_UNMAPPED_BASE, NPages, len) : p \in Nat /\ ~long
  BY <1>1 DEF Fitting, FittingWell
<1> HIDE DEF any, D, U, Got, long
<1>7. any = IF long THEN NoRoom
            ELSE IF D \in Nat /\ D >= NPages THEN NoRoom
            ELSE IF D # NoRoom THEN D ELSE U
  <2>1. any = IF Got(0) > NPages - len THEN NoRoom ELSE Got(0)
    BY <1>2 DEF any
  <2>2. Got(0) = IF long THEN NoRoom ELSE IF D # NoRoom THEN D ELSE U
    BY <1>2, <1>4
  <2>3. U = NoRoom \/ (U \in Nat /\ U <= NPages - len)
    BY <1>3, <1>6
  <2>4. D = NoRoom \/ (D \in Nat /\ D >= NPages) \/ (D \in Nat /\ D <= NPages - len)
    BY <1>1, <1>3, <1>6
  <2> QED  BY <1>1, <2>1, <2>2, <2>3, <2>4 DEF NoRoom
<1>8. any = NoRoom \/ any \in Fitting(S, mmap_min_addr, mmap_base, len)
                                \cup Fitting(S, TASK_UNMAPPED_BASE, NPages, len)
  BY <1>1, <1>3, <1>7
<1>9. \A p \in FittingWell(S, mmap_min_addr, mmap_base, len) :
        any \in Fitting(S, mmap_min_addr, mmap_base, len) /\ any >= p
  BY <1>1, <1>3, <1>6, <1>7 DEF NoRoom
<1>10. Far(S) => \A p \in FittingWell(S, TASK_UNMAPPED_BASE, NPages, len) :
         any # NoRoom /\ (any <= p \/ any \in Fitting(S, mmap_min_addr, mmap_base, len))
  BY <1>1, <1>3, <1>6, <1>7 DEF NoRoom
<1>11. ASSUME NEW hint \in 0..(NPages - 1)
       PROVE  get_unmapped_area(S, hint, len) =
                IF hint \in Fitting(S, mmap_min_addr, NPages, len) THEN hint ELSE any
  <2>1. CASE hint \in Fitting(S, mmap_min_addr, NPages, len)
    <3>1. Got(hint) = hint /\ hint \in Nat /\ hint <= NPages - len
      BY <1>2, <1>5, <1>6, <2>1
    <3> QED  BY <1>1, <1>2, <2>1, <3>1
  <2>2. CASE hint \notin Fitting(S, mmap_min_addr, NPages, len)
    <3>1. Got(hint) = Got(0)
      BY <1>2, <1>4, <1>5, <2>2
    <3> QED  BY <1>2, <2>2, <3>1 DEF any
  <2> QED  BY <2>1, <2>2
<1> QED  BY <1>8, <1>9, <1>10, <1>11 DEF any

LEMMA GetsWhatIsFree ==
  ASSUME NEW S, Layout(S), NEW len \in 1..NPages, NEW hint \in 0..(NPages - 1),
         get_unmapped_area(S, hint, len) # NoRoom
  PROVE  LET addr == get_unmapped_area(S, hint, len) IN
         addr \in mmap_min_addr..(NPages - len) /\ Fits(S, addr, len)
<1>1. /\ NPages \in Nat /\ len \in Nat \ {0} /\ mmap_min_addr \in Nat \ {0}
      /\ mmap_base \in mmap_min_addr..NPages /\ TASK_UNMAPPED_BASE \in mmap_min_addr..NPages
  BY RangeAssumption
<1> DEFINE addr == get_unmapped_area(S, hint, len)
<1>2. \/ addr \in Fitting(S, mmap_min_addr, NPages, len)
      \/ addr \in Fitting(S, mmap_min_addr, mmap_base, len)
      \/ addr \in Fitting(S, TASK_UNMAPPED_BASE, NPages, len)
  <2>1. addr = IF hint \in Fitting(S, mmap_min_addr, NPages, len) THEN hint
               ELSE get_unmapped_area(S, 0, len)
    BY GetUnmappedArea
  <2>2. \/ get_unmapped_area(S, 0, len) = NoRoom
        \/ get_unmapped_area(S, 0, len) \in Fitting(S, mmap_min_addr, mmap_base, len)
                                  \cup Fitting(S, TASK_UNMAPPED_BASE, NPages, len)
    BY GetUnmappedArea
  <2> QED  BY <2>1, <2>2
<1> HIDE DEF addr
<1>3. addr \in mmap_min_addr..(NPages - len) /\ Fits(S, addr, len)
  BY <1>1, <1>2 DEF Fitting
<1> QED  BY <1>3 DEF addr

LEMMA AlignedToTwo ==
  ASSUME NEW g \in Nat, NEW offset \in {0, 1}
  PROVE  /\ (g - ((g - offset) % (1 + 1))) % 2 = offset
         /\ (g + ((offset - g) % (1 + 1))) % 2 = offset
<1>1. 1 + 1 = 2
  OBVIOUS
<1>2. (g - ((g - offset) % 2)) % 2 = offset
  OBVIOUS
<1>3. (g + ((offset - g) % 2)) % 2 = offset
  OBVIOUS
<1> QED  BY <1>1, <1>2, <1>3, Zenon

LEMMA SearchOfLayout ==
  ASSUME Layout(areas)
  PROVE  SearchIsRight
<1> SUFFICES ASSUME NEW len \in Lens
             PROVE  SearchIsRight!(len)
  BY DEF SearchIsRight
<1>1. /\ len \in 1..NPages /\ NPages \in Nat /\ len \in Nat \ {0}
      /\ mmap_min_addr \in 1..NPages /\ mmap_base \in 1..NPages
      /\ TASK_UNMAPPED_BASE \in 1..NPages /\ 1 \in Nat /\ NPages \in 1..NPages
      /\ NPages + len + 1 <= AddressPages
  BY RangeAssumption, StackAssumption
<1> DEFINE down == Fitting(areas, mmap_min_addr, mmap_base, len)
           up   == Fitting(areas, TASK_UNMAPPED_BASE, NPages, len)
           any  == get_unmapped_area(areas, 0, len)
<1>2. /\ any = NoRoom \/ any \in down \cup up
      /\ \A p \in FittingWell(areas, mmap_min_addr, mmap_base, len) : any \in down /\ any >= p
      /\ Far(areas) => \A p \in FittingWell(areas, TASK_UNMAPPED_BASE, NPages, len) :
                     any # NoRoom /\ (any <= p \/ any \in down)
      /\ \A hint \in 0..(NPages - 1) :
           get_unmapped_area(areas, hint, len) =
             IF hint \in Fitting(areas, mmap_min_addr, NPages, len) THEN hint ELSE any
  BY <1>1, GetUnmappedArea
<1>3. ASSUME NEW offset \in {0, 1}
      PROVE  LET high == unmapped_area_topdown(areas, len, mmap_min_addr, mmap_base, 1, offset)
                 low  == unmapped_area(areas, len, TASK_UNMAPPED_BASE, NPages, 1, offset) IN
             /\ high \in 0..(NPages - 1) => high \in down /\ high % 2 = offset
             /\ low # NoRoom => low \in up /\ low % 2 = offset
  <2> DEFINE high == unmapped_area_topdown(areas, len, mmap_min_addr, mmap_base, 1, offset)
             low  == unmapped_area(areas, len, TASK_UNMAPPED_BASE, NPages, 1, offset)
  <2>1. offset \in Nat
    OBVIOUS
  <2>2. high \in 0..(NPages - 1) =>
          /\ high \in mmap_min_addr..(mmap_base - len) /\ Fits(areas, high, len)
          /\ RoundedDown(high, 1, offset)
    BY <1>1, <2>1, SearchDown
  <2>3. /\ low = NoRoom \/ low \in Nat
        /\ low \in Nat =>
             /\ low \in TASK_UNMAPPED_BASE..(NPages - len) /\ Fits(areas, low, len)
             /\ RoundedUp(low, 1, offset)
    BY <1>1, <2>1, SearchUp
  <2> HIDE DEF high, low
  <2>4. ASSUME high \in 0..(NPages - 1)  PROVE high % 2 = offset
    <3>1. PICK g \in Nat : high = g - ((g - offset) % (1 + 1))
      BY <2>2, <2>4, Zenon DEF RoundedDown
    <3>2. (g - ((g - offset) % (1 + 1))) % 2 = offset
      BY AlignedToTwo
    <3> QED  BY <3>1, <3>2, Zenon
  <2>5. ASSUME low \in Nat  PROVE low % 2 = offset
    <3>1. PICK a \in Nat : low = a + ((offset - a) % (1 + 1))
      BY <2>3, <2>5, Zenon DEF RoundedUp
    <3>2. (a + ((offset - a) % (1 + 1))) % 2 = offset
      BY AlignedToTwo
    <3> QED  BY <3>1, <3>2, Zenon
  <2>6. (high \in 0..(NPages - 1) => high \in down) /\ (low \in Nat => low \in up)
    BY <2>2, <2>3 DEF Fitting
  <2> HIDE DEF down, up
  <2>7. /\ high \in 0..(NPages - 1) => high \in down /\ high % 2 = offset
        /\ low # NoRoom => low \in up /\ low % 2 = offset
    BY <2>3, <2>4, <2>5, <2>6
  <2> QED  BY <2>7 DEF high, low
<1>4. \A hint \in mmap_min_addr..(NPages - 1) : hint \in 0..(NPages - 1)
  BY <1>1
<1> HIDE DEF down, up, any
<1>5. /\ any # NoRoom => any \in down \cup up
      /\ \A p \in FittingWell(areas, mmap_min_addr, mmap_base, len) : any \in down /\ any >= p
      /\ (\A v \in areas : vm_start_gap(v) # 0) =>
           \A p \in FittingWell(areas, TASK_UNMAPPED_BASE, NPages, len) :
             any # NoRoom /\ (any <= p \/ any \in down)
  BY <1>2 DEF Far
<1>6. \A hint \in mmap_min_addr..(NPages - 1) :
        LET near == get_unmapped_area(areas, hint, len) IN
        near = IF hint \in Fitting(areas, mmap_min_addr, NPages, len) THEN hint ELSE any
  BY <1>2, <1>4
<1> QED  BY <1>3, <1>5, <1>6, Zenon DEF down, up, any

-----------------------------------------------------------------------------
(* The inductive invariant.  The gap of a stack is kept not only to the     *)
(* area below it: unmapping that one brings the next one near.  Every       *)
(* accessible area below a stack keeps the gap, unless inaccessible memory, *)
(* which is not unmapped, lies between.                                     *)

AreaSet == [start : mmap_min_addr..(NPages - 1), end : 1..NPages,
            growsdown : BOOLEAN, accessible : BOOLEAN]

Apart(S) == \A u, v \in S : u = v \/ u.end <= v.start \/ v.end <= u.start

Guarded(S) ==
  \A v, p \in S :
    v.growsdown /\ ~p.growsdown /\ p.accessible /\ p.end <= v.start =>
      \/ v.start - p.end >= stack_guard_gap
      \/ \E x \in S : ~x.accessible /\ p.end <= x.start /\ x.end <= v.start

AreasOK(S) ==
  /\ S \subseteq AreaSet /\ \A v \in S : v.start < v.end
  /\ Apart(S) /\ Guarded(S)

(* Who holds the mmap_lock, and how. *)
LockOK ==
  /\ mmap_lock \in [writer : Threads \cup {NoThread}, readers : SUBSET Threads]
  /\ mmap_lock.writer # NoThread => mmap_lock.readers = {}
  /\ pc \in [Threads -> PCs]
  /\ \A t \in Threads :
       /\ pc[t] \in {"grow", "extend", "munmap"} => mmap_lock.writer = t
       /\ pc[t] = "unmap_region" => t \in mmap_lock.readers
       /\ pc[t] = "use" => mmap_lock.writer = t \/ t \in mmap_lock.readers

CallsOK ==
  /\ DOMAIN call = Threads
  /\ \A t \in Threads : /\ call[t].addr \in 0..NPages /\ call[t].start \in 0..NPages
                        /\ call[t].end \in 0..NPages
                        /\ pc[t] \in {"expand", "grow", "extend"} =>
                             call[t].addr \in mmap_min_addr..(NPages - 1)
                        /\ pc[t] = "munmap" =>
                             /\ 1 <= call[t].start /\ call[t].start < call[t].end
                             /\ \A v \in Within(call[t].start, call[t].end) : v.accessible

IInv ==
  /\ AreasOK(areas) /\ LockOK /\ CallsOK /\ FoundAreaCoversPage /\ UnmappedRangeStaysFree

LEMMA AreaFields ==
  ASSUME NEW v \in AreaSet
  PROVE  /\ v.start \in Nat /\ v.end \in Nat /\ v.start \in mmap_min_addr..(NPages - 1)
         /\ v.end \in 1..NPages /\ v.growsdown \in BOOLEAN /\ v.accessible \in BOOLEAN
         /\ v.end <= NPages
BY RangeAssumption DEF AreaSet

LEMMA Resized ==
  ASSUME NEW v \in AreaSet, NEW a
  PROVE  /\ [v EXCEPT !.start = a] = [start |-> a, end |-> v.end, growsdown |-> v.growsdown,
                                      accessible |-> v.accessible]
         /\ [v EXCEPT !.end = a]   = [start |-> v.start, end |-> a, growsdown |-> v.growsdown,
                                      accessible |-> v.accessible]
         /\ a \in mmap_min_addr..(NPages - 1) => [v EXCEPT !.start = a] \in AreaSet
         /\ a \in 1..NPages => [v EXCEPT !.end = a] \in AreaSet
BY DEF AreaSet

LEMMA LayoutOfAreas ==
  ASSUME NEW S, AreasOK(S)
  PROVE  Layout(S)
BY AreaFields DEF AreasOK, Apart, Layout

LEMMA GuardedIsGuarded ==
  ASSUME AreasOK(areas)
  PROVE  StackIsGuarded
<1>1. Layout(areas)
  BY LayoutOfAreas
<1>2. ASSUME NEW v \in areas, NEW u \in areas \ {v}
      PROVE  Disjoint(u, v.start, v.end)
  BY DEF AreasOK, Apart, Disjoint
<1>3. ASSUME NEW v \in areas, v.growsdown, NEW p \in vma_prev(areas, v.start),
             ~p.growsdown, p.accessible
      PROVE  v.start - p.end >= stack_guard_gap
  <2>1. /\ p \in areas /\ p.end <= v.start
        /\ \A u \in areas : u.end <= v.start => u.end <= p.end
    BY <1>3 DEF vma_prev
  <2>2. ~ \E x \in areas : p.end <= x.start /\ x.end <= v.start
    BY <1>1, <2>1 DEF Layout
  <2> QED  BY <1>3, <2>1, <2>2 DEF AreasOK, Guarded
<1> QED  BY <1>2, <1>3 DEF StackIsGuarded

-----------------------------------------------------------------------------
(* What the operations do to the areas *)

LEMMA Mapped ==
  ASSUME AreasOK(areas), NEW len \in 1..NPages, NEW addr \in mmap_min_addr..(NPages - len),
         Fits(areas, addr, len), NEW accessible \in BOOLEAN,
         NEW new, new = [start |-> addr, end |-> addr + len, growsdown |-> FALSE,
                         accessible |-> accessible]
  PROVE  AreasOK(areas \cup {new})
<1> DEFINE T == areas \cup {new}
<1>1. Layout(areas) /\ areas \subseteq AreaSet /\ Guarded(areas)
  BY LayoutOfAreas DEF AreasOK
<1>2. /\ addr \in Nat /\ len \in Nat \ {0} /\ NPages \in Nat /\ mmap_min_addr \in Nat \ {0}
      /\ stack_guard_gap \in Nat
      /\ new.start = addr /\ new.end = addr + len /\ new.growsdown = FALSE
      /\ new.accessible = accessible /\ new \in AreaSet
  BY RangeAssumption DEF AreaSet
<1>3. \A u \in areas : /\ u.start \in Nat /\ u.end \in Nat /\ u.start < u.end
                       /\ u.end <= addr \/ addr + len <= u.start
  BY <1>1 DEF Layout, Fits, IsFree, Disjoint
<1>4. T \subseteq AreaSet /\ (\A v \in T : v.start < v.end) /\ Apart(T)
  <2>1. T \subseteq AreaSet /\ (\A v \in T : v.start < v.end)
    <3>1. new.start < new.end
      BY <1>2
    <3>2. \A v \in areas : v.start < v.end
      BY <1>3
    <3> QED  BY <1>1, <1>2, <3>1, <3>2
  <2>2. ASSUME NEW u \in T, NEW w \in T  PROVE u = w \/ u.end <= w.start \/ w.end <= u.start
    <3>1. CASE u \in areas /\ w \in areas
      BY <1>1, <3>1 DEF Layout
    <3>2. CASE u = new /\ w # new
      BY <1>2, <1>3, <3>2
    <3>3. CASE w = new /\ u # new
      BY <1>2, <1>3, <3>3
    <3> QED  BY <3>1, <3>2, <3>3
  <2> QED  BY <2>1, <2>2 DEF Apart
<1>5. ASSUME NEW w \in areas, w.growsdown, addr + len <= w.start, accessible
      PROVE  \/ w.start - (addr + len) >= stack_guard_gap
             \/ \E x \in areas : ~x.accessible /\ addr + len <= x.start /\ x.end <= w.start
  <2>1. addr + len - 1 \in Nat /\ w.end > addr + len - 1
    BY <1>2, <1>3, <1>5
  <2>2. PICK n \in find_vma(areas, addr + len - 1) : TRUE
    <3>1. ~(w.end <= addr + len - 1)
      BY <1>3, <2>1
    <3> QED  BY <1>1, <2>1, <3>1, FindVma
  <2>3. /\ n \in areas /\ (w = n \/ n.end <= w.start) /\ n.end > addr + len - 1
        /\ addr + len <= vm_start_gap(n)
    BY <1>1, <2>1, <2>2, FindVma DEF Fits
  <2>4. addr + len <= n.start /\ n.start \in Nat /\ n.end \in Nat /\ n.start < n.end
    BY <1>2, <1>3, <2>3
  <2>5. n.growsdown \in BOOLEAN /\ n.accessible \in BOOLEAN
    BY <1>1, <2>3, AreaFields
  <2>6. CASE n.growsdown
    <3>1. n.start - (addr + len) >= stack_guard_gap
      BY <1>2, <2>3, <2>4, <2>6 DEF vm_start_gap
    <3> QED  BY <1>2, <1>3, <2>3, <2>4, <3>1
  <2>7. CASE ~n.accessible
    <3>1. w # n => n.end <= w.start
      BY <2>3
    <3>2. CASE w = n
      BY <1>5, <2>6, <3>2
    <3> QED  BY <2>3, <2>4, <2>7, <3>1, <3>2
  <2>8. CASE ~n.growsdown /\ n.accessible
    <3>1. n.end <= w.start
      BY <1>5, <2>3, <2>8
    <3>2. CASE w.start - n.end >= stack_guard_gap
      BY <1>2, <1>3, <2>4, <3>1, <3>2
    <3>3. CASE \E x \in areas : ~x.accessible /\ n.end <= x.start /\ x.end <= w.start
      BY <1>2, <1>3, <2>4, <3>3
    <3> QED  BY <1>1, <1>5, <2>3, <2>8, <3>1, <3>2, <3>3 DEF Guarded
  <2> QED  BY <2>5, <2>6, <2>7, <2>8
<1>6. Guarded(T)
  <2> SUFFICES ASSUME NEW v \in T, NEW p \in T, v.growsdown, ~p.growsdown, p.accessible,
                      p.end <= v.start
               PROVE  \/ v.start - p.end >= stack_guard_gap
                      \/ \E x \in areas : ~x.accessible /\ p.end <= x.start /\ x.end <= v.start
    BY DEF Guarded
  <2>1. v \in areas
    BY <1>2
  <2>2. CASE p \in areas
    BY <1>1, <2>1, <2>2 DEF Guarded
  <2>3. CASE p = new
    BY <1>2, <1>5, <2>1, <2>3
  <2> QED  BY <2>2, <2>3
<1> QED  BY <1>4, <1>6 DEF AreasOK

LEMMA Grown ==
  ASSUME AreasOK(areas), NEW addr \in mmap_min_addr..(NPages - 1), Covering(addr) = {},
         NEW v \in find_vma(areas, addr), v.growsdown, GapIsKept(v, addr),
         NEW new, new = [v EXCEPT !.start = addr]
  PROVE  /\ AreasOK((areas \ {v}) \cup {new})
         /\ addr < v.start /\ v \in areas /\ new \notin areas
         /\ new.start = addr /\ new.end = v.end
<1> DEFINE T == (areas \ {v}) \cup {new}
<1>1. Layout(areas) /\ areas \subseteq AreaSet /\ Guarded(areas)
  BY LayoutOfAreas DEF AreasOK
<1>2. addr \in Nat /\ NPages \in Nat /\ stack_guard_gap \in Nat /\ mmap_min_addr \in Nat \ {0}
  BY RangeAssumption
<1>3. v \in areas /\ v.end > addr /\ \A u \in areas : u.end > addr => u = v \/ v.end <= u.start
  BY <1>1, <1>2, FindVma
<1>4. \A u \in areas : u.start \in Nat /\ u.end \in Nat /\ u.start < u.end
  BY <1>1 DEF Layout
<1>5. addr < v.start
  BY <1>2, <1>3, <1>4 DEF Covering, Covers
<1>6. /\ new.start = addr /\ new.end = v.end /\ new.growsdown = v.growsdown
      /\ new.accessible = v.accessible /\ new \in AreaSet
  <2>1. v \in AreaSet
    BY <1>1, <1>3
  <2>2. new = [start |-> addr, end |-> v.end, growsdown |-> v.growsdown,
               accessible |-> v.accessible]
    BY <2>1, Resized
  <2>3. new \in AreaSet
    BY <2>1, Resized
  <2> QED  BY <2>2, <2>3
<1>7. \A u \in areas : u = v \/ u.end <= addr \/ v.end <= u.start
  BY <1>2, <1>3, <1>4
<1>8. new \notin areas
  <2> SUFFICES ASSUME new \in areas  PROVE FALSE
    OBVIOUS
  <2>1. new = v \/ v.end <= addr
    BY <1>2, <1>3, <1>4, <1>6, <1>7
  <2>2. new # v
    <3>1. addr # v.start
      BY <1>2, <1>3, <1>4, <1>5
    <3>2. new.start = addr
      BY <1>6
    <3> QED  BY ONLY <3>1, <3>2
  <2> QED  BY <1>2, <1>3, <1>4, <2>1, <2>2
<1>9. T \subseteq AreaSet /\ (\A u \in T : u.start < u.end) /\ Apart(T)
  <2>1. T \subseteq AreaSet /\ (\A u \in T : u.start < u.end)
    BY <1>1, <1>2, <1>3, <1>4, <1>5, <1>6
  <2>2. ASSUME NEW u \in T, NEW w \in T  PROVE u = w \/ u.end <= w.start \/ w.end <= u.start
    <3>1. CASE u \in areas /\ w \in areas
      BY <1>1, <3>1 DEF Layout
    <3>2. CASE u = new /\ w # new
      BY <1>6, <1>7, <3>2
    <3>3. CASE w = new /\ u # new
      BY <1>6, <1>7, <3>3
    <3> QED  BY <3>1, <3>2, <3>3
  <2> QED  BY <2>1, <2>2 DEF Apart
<1>10. ASSUME NEW p \in areas, ~p.growsdown, p.accessible, p.end <= addr
       PROVE  \/ addr - p.end >= stack_guard_gap
              \/ \E x \in areas \ {v} : ~x.accessible /\ p.end <= x.start /\ x.end <= addr
  <2>1. p.end \in Nat /\ p.end <= v.start /\ v.start \in Nat
    BY <1>2, <1>3, <1>4, <1>5, <1>10
  <2>2. PICK q \in vma_prev(areas, v.start) : TRUE
    <3>1. ~(p.end > v.start)
      BY <2>1
    <3> QED  BY <1>1, <2>1, <3>1, PrevVma
  <2>3. q \in areas /\ q.end <= v.start /\ (p = q \/ p.end <= q.start)
    BY <1>1, <2>1, <2>2, PrevVma
  <2>4. q.end <= addr /\ q # v /\ q.start < q.end /\ q.start \in Nat /\ q.end \in Nat
    BY <1>2, <1>3, <1>4, <1>7, <2>1, <2>3
  <2>5. q.growsdown \in BOOLEAN /\ q.accessible \in BOOLEAN
    BY <1>1, <2>3, AreaFields
  <2>6. CASE ~q.growsdown /\ q.accessible
    <3>1. addr - q.end >= stack_guard_gap
      BY <2>2, <2>6 DEF GapIsKept
    <3> QED  BY <1>2, <2>1, <2>3, <2>4, <3>1
  <2>7. CASE ~q.accessible
    BY <1>10, <2>3, <2>4, <2>7
  <2>8. CASE q.growsdown
    <3>1. p.end <= q.start
      BY <1>10, <2>3, <2>8
    <3>2. CASE q.start - p.end >= stack_guard_gap
      BY <1>2, <2>1, <2>4, <3>2
    <3>3. CASE \E x \in areas : ~x.accessible /\ p.end <= x.start /\ x.end <= q.start
      <4>1. PICK x \in areas : ~x.accessible /\ p.end <= x.start /\ x.end <= q.start
        BY <3>3
      <4>2. x.start \in Nat /\ x.end \in Nat /\ x.end <= addr /\ x # v
        BY <1>2, <1>3, <1>4, <2>4, <4>1
      <4> QED  BY <4>1, <4>2
    <3> QED  BY <1>1, <1>10, <2>3, <2>8, <3>1, <3>2, <3>3 DEF Guarded
  <2> QED  BY <2>5, <2>6, <2>7, <2>8
<1>11. Guarded(T)
  <2> SUFFICES ASSUME NEW w \in T, NEW p \in T, w.growsdown, ~p.growsdown, p.accessible,
                      p.end <= w.start
               PROVE  \/ w.start - p.end >= stack_guard_gap
                      \/ \E x \in T : ~x.accessible /\ p.end <= x.start /\ x.end <= w.start
    BY DEF Guarded
  <2>1. p \in areas /\ p # v /\ p.end \in Nat
    BY <1>4, <1>6
  <2>2. CASE w = new
    BY <1>6, <1>10, <2>1, <2>2
  <2>3. CASE w \in areas
    <3>1. CASE w.start - p.end >= stack_guard_gap
      BY <3>1
    <3>2. CASE \E x \in areas : ~x.accessible /\ p.end <= x.start /\ x.end <= w.start
      <4>1. PICK x \in areas : ~x.accessible /\ p.end <= x.start /\ x.end <= w.start
        BY <3>2
      <4>2. CASE x # v
        BY <4>1, <4>2
      <4>3. CASE x = v
        <5>1. p.end <= addr
          BY <1>2, <1>3, <1>4, <1>7, <2>1, <4>1, <4>3
        <5> QED  BY <1>6, <4>1, <4>3, <5>1
      <4> QED  BY <4>2, <4>3
    <3> QED  BY <1>1, <2>1, <2>3, <3>1, <3>2 DEF Guarded
  <2> QED  BY <2>2, <2>3
<1> QED  BY <1>3, <1>5, <1>6, <1>8, <1>9, <1>11 DEF AreasOK

LEMMA Unmapped ==
  ASSUME AreasOK(areas), NEW start \in 1..NPages, NEW end \in 1..NPages, start < end,
         \A v \in Within(start, end) : v.accessible,
         NEW left, left = (areas \ Within(start, end))
                            \cup UNION {Rest(v, start, end) : v \in Within(start, end)}
  PROVE  AreasOK(left)
<1> DEFINE gone == Within(start, end)
           Part(u, v) ==
             /\ u \in AreaSet /\ v \in areas
             /\ u.growsdown = v.growsdown /\ u.accessible = v.accessible
             /\ v.start <= u.start /\ u.start < u.end /\ u.end <= v.end
             /\ \/ v \notin gone /\ u = v
                \/ v \in gone /\ u = [v EXCEPT !.end = start] /\ u.end = start
                \/ v \in gone /\ u = [v EXCEPT !.start = end] /\ u.start = end
<1>1. Layout(areas) /\ areas \subseteq AreaSet /\ Guarded(areas)
  BY LayoutOfAreas DEF AreasOK
<1>2. \A u \in areas : /\ u.start \in Nat /\ u.end \in Nat /\ u.start < u.end
                       /\ u.end <= NPages /\ mmap_min_addr <= u.start
  BY <1>1, AreaFields, RangeAssumption DEF Layout
<1>3. start \in Nat /\ end \in Nat /\ NPages \in Nat /\ stack_guard_gap \in Nat /\ mmap_min_addr \in Nat
  BY RangeAssumption
<1>4. ASSUME NEW u \in left
      PROVE  \E v \in areas : Part(u, v)
  <2>1. CASE u \in areas /\ u \notin gone
    BY <1>1, <1>2, <2>1
  <2>2. CASE ~(u \in areas /\ u \notin gone)
    <3>1. PICK v \in gone : u \in Rest(v, start, end)
      BY <1>4, <2>2
    <3>2. v \in areas /\ v \in AreaSet
      BY <1>1, <3>1 DEF Within
    <3>3. /\ u.start < u.end /\ u.start >= v.start /\ u.end <= v.end
          /\ u = [v EXCEPT !.end = start] \/ u = [v EXCEPT !.start = end]
      BY <3>1 DEF Rest
    <3>4. CASE u = [v EXCEPT !.end = start]
      <4>1. u = [start |-> v.start, end |-> start, growsdown |-> v.growsdown,
                 accessible |-> v.accessible]
        BY <3>2, <3>4, Resized
      <4>2. u \in AreaSet
        BY <3>2, <3>4, Resized
      <4>3. /\ u.end = start /\ u.start = v.start
            /\ u.growsdown = v.growsdown /\ u.accessible = v.accessible
        BY <4>1
      <4> HIDE DEF gone
      <4> QED  BY <1>2, <1>3, <3>1, <3>2, <3>3, <3>4, <4>2, <4>3
    <3>5. CASE u = [v EXCEPT !.start = end]
      <4>1. u = [start |-> end, end |-> v.end, growsdown |-> v.growsdown,
                 accessible |-> v.accessible]
        BY <3>2, <3>5, Resized
      <4>2. /\ u.start = end /\ u.end = v.end
            /\ u.growsdown = v.growsdown /\ u.accessible = v.accessible
        BY <4>1
      <4>3. end \in mmap_min_addr..(NPages - 1)
        BY <1>2, <1>3, <3>2, <3>3, <4>2
      <4>4. u \in AreaSet
        BY <3>2, <3>5, <4>3, Resized
      <4> HIDE DEF gone
      <4> QED  BY <1>2, <1>3, <3>1, <3>2, <3>3, <3>5, <4>2, <4>4
    <3> QED  BY <3>3, <3>4, <3>5
  <2> QED  BY <2>1, <2>2
<1>5. \A x \in areas : ~x.accessible => x \in left
  OBVIOUS
<1>6. \A u \in left : u \in AreaSet /\ u.start < u.end /\ u.start \in Nat /\ u.end \in Nat
  <2> HIDE DEF gone
  <2> QED  BY <1>4, AreaFields
<1>7. Apart(left)
  <2> SUFFICES ASSUME NEW u \in left, NEW w \in left
               PROVE  u = w \/ u.end <= w.start \/ w.end <= u.start
    BY DEF Apart
  <2> HIDE DEF Part
  <2>1. PICK v \in areas : Part(u, v)
    BY <1>4
  <2>2. PICK x \in areas : Part(w, x)
    BY <1>4
  <2> USE DEF Part
  <2> HIDE DEF gone
  <2>3. u.start \in Nat /\ u.end \in Nat /\ w.start \in Nat /\ w.end \in Nat
    BY <1>6
  <2>4. CASE v = x
    BY <1>2, <1>3, <2>1, <2>2, <2>3, <2>4
  <2>5. CASE v # x
    <3>1. v.end <= x.start \/ x.end <= v.start
      BY <1>1, <2>5 DEF Layout
    <3> QED  BY <1>2, <2>1, <2>2, <2>3, <3>1
  <2> QED  BY <2>4, <2>5
<1>8. Guarded(left)
  <2> SUFFICES ASSUME NEW w \in left, NEW p \in left, w.growsdown, ~p.growsdown, p.accessible,
                      p.end <= w.start
               PROVE  \/ w.start - p.end >= stack_guard_gap
                      \/ \E x \in left : ~x.accessible /\ p.end <= x.start /\ x.end <= w.start
    BY DEF Guarded
  <2> HIDE DEF Part
  <2>1. PICK v \in areas : Part(w, v)
    BY <1>4
  <2>2. PICK q \in areas : Part(p, q)
    BY <1>4
  <2> HIDE DEF gone
  <2>3. /\ v.growsdown /\ v.start <= w.start /\ w.end <= v.end
        /\ ~q.growsdown /\ q.accessible /\ q.start <= p.start /\ p.end <= q.end
    BY <2>1, <2>2 DEF Part
  <2>4. /\ w.start \in Nat /\ w.end \in Nat /\ p.start \in Nat /\ p.end \in Nat
        /\ w.start < w.end /\ p.start < p.end
    BY <1>6
  <2>5. v.start \in Nat /\ v.end \in Nat /\ q.start \in Nat /\ q.end \in Nat
    BY <1>2
  <2>6. q.end <= v.start
    <3>1. q.end <= v.start \/ v.end <= q.start
      BY <1>1, <2>3 DEF Layout
    <3> QED  BY <2>3, <2>4, <2>5, <3>1
  <2>7. CASE v.start - q.end >= stack_guard_gap
    BY <1>3, <2>3, <2>4, <2>5, <2>7
  <2>8. CASE \E x \in areas : ~x.accessible /\ q.end <= x.start /\ x.end <= v.start
    <3>1. PICK x \in areas : ~x.accessible /\ q.end <= x.start /\ x.end <= v.start
      BY <2>8
    <3>2. x.start \in Nat /\ x.end \in Nat
      BY <1>2
    <3> QED  BY <1>5, <2>3, <2>4, <2>5, <3>1, <3>2
  <2> QED  BY <1>1, <2>3, <2>6, <2>7, <2>8 DEF Guarded
<1> QED  BY <1>6, <1>7, <1>8 DEF AreasOK

(* What munmap() finds on either side, when it has removed its areas. *)
FreeFrom(S, start) == IF vma_prev(S, start) = {} THEN 0 ELSE The(vma_prev(S, start)).end
FreeTo(S, start)   == IF find_vma(S, start) = {} THEN NPages ELSE The(find_vma(S, start)).start

LEMMA Isolated ==
  ASSUME NEW S, Layout(S), NEW start \in Nat
  PROVE  /\ FreeFrom(S, start) \in 0..NPages /\ FreeTo(S, start) \in 0..NPages
         /\ \A v \in S : Disjoint(v, FreeFrom(S, start), FreeTo(S, start))
<1>1. \A v \in S : v.start \in Nat /\ v.end \in Nat /\ v.start < v.end /\ v.end <= NPages
  BY DEF Layout
<1>2. NPages \in Nat
  BY RangeAssumption
<1>3. /\ FreeFrom(S, start) \in 0..NPages
      /\ \A v \in S : v.end <= start => v.end <= FreeFrom(S, start)
  <2>1. CASE vma_prev(S, start) = {}
    <3>1. \A v \in S : v.end > start
      BY <2>1, PrevVma
    <3> QED  BY <1>1, <1>2, <2>1, <3>1 DEF FreeFrom
  <2>2. CASE vma_prev(S, start) # {}
    <3>1. PICK p \in vma_prev(S, start) : TRUE
      BY <2>2
    <3>2. FreeFrom(S, start) = p.end /\ p \in S
      BY <2>2, <3>1, PrevVma DEF FreeFrom
    <3>3. \A v \in S : v.end <= start => v.end <= p.end
      BY <3>1 DEF vma_prev
    <3> QED  BY <1>1, <1>2, <3>2, <3>3
  <2> QED  BY <2>1, <2>2
<1>4. /\ FreeTo(S, start) \in 0..NPages
      /\ \A v \in S : v.end > start => FreeTo(S, start) <= v.start
  <2>1. CASE find_vma(S, start) = {}
    <3>1. \A v \in S : v.end <= start
      BY <2>1, FindVma
    <3> QED  BY <1>1, <1>2, <2>1, <3>1 DEF FreeTo
  <2>2. CASE find_vma(S, start) # {}
    <3>1. PICK n \in find_vma(S, start) : TRUE
      BY <2>2
    <3>2. FreeTo(S, start) = n.start /\ n \in S
      BY <2>2, <3>1, FindVma DEF FreeTo
    <3>3. \A v \in S : v.end > start => v = n \/ n.end <= v.start
      BY <3>1, FindVma
    <3> QED  BY <1>1, <1>2, <3>2, <3>3
  <2> QED  BY <2>1, <2>2
<1>5. \A v \in S : v.end <= start \/ v.end > start
  BY <1>1
<1> QED  BY <1>3, <1>4, <1>5 DEF Disjoint

-----------------------------------------------------------------------------
(* The lock *)

(* What a step of t does to the lock: who else holds it goes on to.         *)
LockKeeps(t) ==
  /\ mmap_lock' \in [writer : Threads \cup {NoThread}, readers : SUBSET Threads]
  /\ mmap_lock'.writer # NoThread => mmap_lock'.readers = {}
  /\ \A u \in Threads \ {t} :
       /\ mmap_lock.writer = u => mmap_lock'.writer = u
       /\ u \in mmap_lock.readers => u \in mmap_lock'.readers

LEMMA LockFields ==
  ASSUME LockOK
  PROVE  /\ mmap_lock.writer \in Threads \cup {NoThread} /\ mmap_lock.readers \subseteq Threads
         /\ mmap_lock = [writer |-> mmap_lock.writer, readers |-> mmap_lock.readers]
         /\ mmap_lock.writer # NoThread => mmap_lock.readers = {}
BY DEF LockOK

LEMMA LockTaken ==
  ASSUME LockOK, NEW t \in Threads
  PROVE  /\ WriteLock(t) => LockKeeps(t) /\ mmap_lock'.writer = t
         /\ ReadLock(t) => LockKeeps(t) /\ t \in mmap_lock'.readers
<1>1. ASSUME WriteLock(t)  PROVE LockKeeps(t) /\ mmap_lock'.writer = t
  <2>1. mmap_lock' = [writer |-> t, readers |-> mmap_lock.readers]
    BY <1>1, LockFields DEF WriteLock
  <2> QED  BY <1>1, <2>1, LockFields, StackAssumption DEF WriteLock, WriteLockFree, LockKeeps
<1>2. ASSUME ReadLock(t)  PROVE LockKeeps(t) /\ t \in mmap_lock'.readers
  <2>1. mmap_lock' = [writer |-> mmap_lock.writer, readers |-> mmap_lock.readers \cup {t}]
    BY <1>2, LockFields DEF ReadLock
  <2> QED  BY <1>2, <2>1, LockFields DEF ReadLock, LockKeeps
<1> QED  BY <1>1, <1>2

LEMMA LockDropped ==
  ASSUME LockOK, NEW t \in Threads
  PROVE  /\ Unlock(t) => LockKeeps(t)
         /\ mmap_lock.writer = t /\ Downgrade(t) => LockKeeps(t) /\ t \in mmap_lock'.readers
         /\ UNCHANGED mmap_lock => LockKeeps(t)
<1>1. ASSUME Unlock(t)  PROVE LockKeeps(t)
  BY <1>1, LockFields, StackAssumption DEF Unlock, LockKeeps
<1>2. ASSUME mmap_lock.writer = t, Downgrade(t)
      PROVE  LockKeeps(t) /\ t \in mmap_lock'.readers
  BY <1>2, LockFields, StackAssumption DEF Downgrade, LockKeeps
<1>3. ASSUME UNCHANGED mmap_lock  PROVE LockKeeps(t)
  BY <1>3, LockFields DEF LockKeeps
<1> QED  BY <1>1, <1>2, <1>3

(* Whoever may change the areas is alone in the lock. *)
LEMMA Alone ==
  ASSUME LockOK
  PROVE  /\ \A t \in Threads : mmap_lock.writer = t =>
              \A u \in Threads \ {t} : pc[u] \in {"idle", "vma_use", "expand"}
         /\ WriteLockFree => \A u \in Threads : pc[u] \in {"idle", "vma_use", "expand"}
<1>1. \A u \in Threads : pc[u] \in PCs
  BY DEF LockOK
<1>2. \A u \in Threads : mmap_lock.writer # u /\ mmap_lock.readers = {} =>
                           pc[u] \in {"idle", "vma_use", "expand"}
  BY <1>1 DEF LockOK, PCs
<1> QED  BY <1>2, LockFields, StackAssumption DEF WriteLockFree

LEMMA LockMoves ==
  ASSUME LockOK, NEW t \in Threads, LockKeeps(t), NEW where \in PCs,
         pc' = [pc EXCEPT ![t] = where],
         where \in {"grow", "extend", "munmap"} => mmap_lock'.writer = t,
         where = "unmap_region" => t \in mmap_lock'.readers,
         where = "use" => mmap_lock'.writer = t \/ t \in mmap_lock'.readers
  PROVE  LockOK'
<1>1. pc' \in [Threads -> PCs]
  BY DEF LockOK
<1>2. ASSUME NEW u \in Threads
      PROVE  /\ pc'[u] \in {"grow", "extend", "munmap"} => mmap_lock'.writer = u
             /\ pc'[u] = "unmap_region" => u \in mmap_lock'.readers
             /\ pc'[u] = "use" => mmap_lock'.writer = u \/ u \in mmap_lock'.readers
  <2>1. CASE u = t
    <3>1. pc'[u] = where
      BY <2>1 DEF LockOK
    <3> QED  BY <2>1, <3>1
  <2>2. CASE u # t
    <3>1. pc'[u] = pc[u]
      BY <2>2 DEF LockOK
    <3> QED  BY <2>2, <3>1 DEF LockOK, LockKeeps
  <2> QED  BY <2>1, <2>2
<1> QED  BY <1>1, <1>2 DEF LockOK, LockKeeps

-----------------------------------------------------------------------------
(* What a step that leaves the areas alone keeps *)

CallOK(S, where, what) ==
  /\ what.addr \in 0..NPages /\ what.start \in 0..NPages /\ what.end \in 0..NPages
  /\ where \in {"expand", "grow", "extend"} => what.addr \in mmap_min_addr..(NPages - 1)
  /\ where = "munmap" =>
       /\ 1 <= what.start /\ what.start < what.end
       /\ \A v \in S : Disjoint(v, what.start, what.end) \/ v.accessible
  /\ where \in {"use", "vma_use"} => \E v \in S : Covers(v, what.addr)
  /\ where = "unmap_region" => \A v \in S : Disjoint(v, what.start, what.end)

LEMMA CallsAreOK ==
  /\ IInv <=> /\ AreasOK(areas) /\ LockOK /\ DOMAIN call = Threads
              /\ \A t \in Threads : CallOK(areas, pc[t], call[t])
  /\ IInv' <=> /\ AreasOK(areas') /\ LockOK' /\ DOMAIN call' = Threads
               /\ \A t \in Threads : CallOK(areas', pc'[t], call'[t])
<1>1. /\ \A p : Covering(p) # {} <=> \E v \in areas : Covers(v, p)
      /\ \A s, e : Within(s, e) = {} <=> \A v \in areas : Disjoint(v, s, e)
      /\ \A s, e : (\A v \in Within(s, e) : v.accessible)
                   <=> \A v \in areas : Disjoint(v, s, e) \/ v.accessible
  BY Zenon DEF Covering, Within
<1>2. IInv <=> /\ AreasOK(areas) /\ LockOK /\ DOMAIN call = Threads
               /\ \A t \in Threads : CallOK(areas, pc[t], call[t])
  BY <1>1, Zenon DEF IInv, CallsOK, FoundAreaCoversPage, UnmappedRangeStaysFree, CallOK
<1>3. IInv' <=> /\ AreasOK(areas') /\ LockOK' /\ DOMAIN call' = Threads
                /\ \A t \in Threads : CallOK(areas', pc'[t], call'[t])
  <2>1. /\ \A p : Covering(p)' # {} <=> \E v \in areas' : Covers(v, p)
        /\ \A s, e : Within(s, e)' = {} <=> \A v \in areas' : Disjoint(v, s, e)
        /\ \A s, e : (\A v \in Within(s, e)' : v.accessible)
                     <=> \A v \in areas' : Disjoint(v, s, e) \/ v.accessible
    BY Zenon DEF Covering, Within
  <2> QED  BY <2>1, Zenon DEF IInv, CallsOK, FoundAreaCoversPage, UnmappedRangeStaysFree, CallOK
<1> QED  BY <1>2, <1>3

LEMMA Moved ==
  ASSUME IInv, NEW t \in Threads, NEW where \in PCs, NEW what, Goto(t, where, what),
         LockKeeps(t), AreasOK(areas'),
         \A u \in Threads \ {t} : CallOK(areas', pc[u], call[u]),
         CallOK(areas', where, what),
         where \in {"grow", "extend", "munmap"} => mmap_lock'.writer = t,
         where = "unmap_region" => t \in mmap_lock'.readers,
         where = "use" => mmap_lock'.writer = t \/ t \in mmap_lock'.readers
  PROVE  IInv'
<1>1. LockOK /\ pc \in [Threads -> PCs] /\ DOMAIN call = Threads
  BY DEF IInv, LockOK, CallsOK
<1>2. /\ pc' = [pc EXCEPT ![t] = where] /\ DOMAIN call' = Threads
      /\ pc'[t] = where /\ call'[t] = what
      /\ \A u \in Threads \ {t} : pc'[u] = pc[u] /\ call'[u] = call[u]
  BY <1>1 DEF Goto
<1>3. LockOK'
  BY <1>1, <1>2, LockMoves
<1>4. \A u \in Threads : CallOK(areas', pc'[u], call'[u])
  BY <1>2
<1> QED  BY <1>2, <1>3, <1>4, CallsAreOK

LEMMA MovedOnly ==
  ASSUME IInv, NEW t \in Threads, NEW where \in PCs, NEW what, Goto(t, where, what),
         LockKeeps(t), UNCHANGED areas, CallOK(areas, where, what),
         where \in {"grow", "extend", "munmap"} => mmap_lock'.writer = t,
         where = "unmap_region" => t \in mmap_lock'.readers,
         where = "use" => mmap_lock'.writer = t \/ t \in mmap_lock'.readers
  PROVE  IInv'
<1>1. AreasOK(areas) /\ \A u \in Threads \ {t} : CallOK(areas, pc[u], call[u])
  BY CallsAreOK
<1>2. AreasOK(areas') /\ \A u \in Threads \ {t} : CallOK(areas', pc[u], call[u])
  BY <1>1
<1>3. CallOK(areas', where, what)
  OBVIOUS
<1> QED  BY <1>2, <1>3, Moved

LEMMA Ended ==
  ASSUME IInv, NEW t \in Threads, Done(t), LockKeeps(t), UNCHANGED areas
  PROVE  IInv'
<1>1. CallOK(areas, "idle", NoCall) /\ "idle" \in PCs
  BY RangeAssumption DEF CallOK, NoCall, PCs
<1> QED  BY <1>1, MovedOnly DEF Done

LEMMA AtAddr ==
  ASSUME NEW addr \in FaultAddrs
  PROVE  /\ At(addr).addr = addr /\ addr \in mmap_min_addr..(NPages - 1) /\ addr \in 0..NPages
         /\ At(addr).start \in 0..NPages /\ At(addr).end \in 0..NPages
BY RangeAssumption, StackAssumption DEF At, NoCall

-----------------------------------------------------------------------------
(* The steps of a page fault *)

LEMMA UseKeeps ==
  ASSUME IInv, NEW t \in Threads, NEW addr \in FaultAddrs,
         FaultUnderVmaLock(t, addr) \/ Fault(t, addr) \/ FaultBelow(t, addr)
           \/ ExtendLock(t, addr)
  PROVE  IInv'
<1>1. LockOK
  BY DEF IInv
<1>2. \A w \in {"expand", "extend"} : CallOK(areas, w, At(addr)) /\ w \in PCs
  BY AtAddr DEF CallOK, PCs
<1>3. Covering(addr) # {} => \A w \in {"use", "vma_use"} : CallOK(areas, w, At(addr)) /\ w \in PCs
  BY AtAddr DEF CallOK, PCs, Covering
<1>4. CASE FaultUnderVmaLock(t, addr)
  BY <1>1, <1>3, <1>4, LockDropped, MovedOnly DEF FaultUnderVmaLock
<1>5. CASE Fault(t, addr)
  BY <1>1, <1>3, <1>5, LockTaken, MovedOnly DEF Fault
<1>6. CASE FaultBelow(t, addr)
  BY <1>1, <1>2, <1>6, LockDropped, MovedOnly DEF FaultBelow
<1>7. CASE ExtendLock(t, addr)
  BY <1>1, <1>2, <1>7, LockTaken, MovedOnly DEF ExtendLock
<1> QED  BY <1>4, <1>5, <1>6, <1>7

LEMMA LooksAgain ==
  ASSUME IInv, NEW t \in Threads, pc[t] \in {"expand", "grow", "extend"}
  PROVE  /\ \A w \in {"grow", "extend"} : CallOK(areas, w, call[t])
         /\ Covering(call[t].addr) # {} => CallOK(areas, "use", call[t])
         /\ call[t].addr \in mmap_min_addr..(NPages - 1)
<1>1. CallOK(areas, pc[t], call[t])
  BY CallsAreOK
<1> QED  BY <1>1 DEF CallOK, Covering

LEMMA ExpandLockKeeps ==
  ASSUME IInv, NEW t \in Threads, ExpandLock(t) \/ ExpandKilled(t)
  PROVE  IInv'
<1>1. LockOK
  BY DEF IInv
<1>2. CASE ExpandLock(t)
  <2>1. CallOK(areas, "grow", call[t]) /\ "grow" \in PCs
    BY <1>2, LooksAgain DEF ExpandLock, PCs
  <2> QED  BY <1>1, <1>2, <2>1, LockTaken, MovedOnly DEF ExpandLock
<1>3. CASE ExpandKilled(t)
  BY <1>1, <1>3, LockDropped, Ended DEF ExpandKilled
<1> QED  BY <1>2, <1>3

LEMMA FoundKeeps ==
  ASSUME IInv, NEW t \in Threads, ExpandFound(t) \/ ExtendFound(t)
  PROVE  IInv'
<1>1. LockOK /\ "use" \in PCs
  BY DEF IInv, PCs
<1>2. CallOK(areas, "use", call[t]) /\ mmap_lock.writer = t
  <2>1. pc[t] \in {"grow", "extend"} /\ Covering(call[t].addr) # {}
    BY DEF ExpandFound, ExtendFound
  <2> QED  BY <1>1, <2>1, LooksAgain DEF LockOK
<1>3. CASE ExpandFound(t)
  BY <1>1, <1>2, <1>3, LockDropped, MovedOnly DEF ExpandFound
<1>4. CASE ExtendFound(t)
  BY <1>1, <1>2, <1>4, LockDropped, MovedOnly DEF ExtendFound
<1> QED  BY <1>3, <1>4

LEMMA ReleaseKeeps ==
  ASSUME IInv, NEW t \in Threads,
         VmaUnlock(t) \/ Release(t) \/ ExpandRefused(t) \/ ExtendRefused(t)
           \/ MunmapFails(t) \/ MunmapReturn(t)
  PROVE  IInv'
<1>1. LockOK
  BY DEF IInv
<1>2. Done(t) /\ UNCHANGED areas /\ (Unlock(t) \/ UNCHANGED mmap_lock)
  BY DEF VmaUnlock, Release, ExpandRefused, ExtendRefused, MunmapFails, MunmapReturn
<1> QED  BY <1>1, <1>2, LockDropped, Ended

(* Both ways to grow: who is not alone in the lock does not get here.       *)
LEMMA ExpandKeeps ==
  ASSUME IInv, NEW t \in Threads, Expand(t) \/ Extend(t)
  PROVE  IInv'
<1> DEFINE addr == call[t].addr
<1>1. LockOK /\ AreasOK(areas) /\ "use" \in PCs
  BY DEF IInv, PCs
<1>2. /\ pc[t] \in {"grow", "extend"} /\ Covering(addr) = {} /\ Goto(t, "use", call[t])
      /\ \E v \in find_vma(areas, addr) : expand_downwards(v, addr)
      /\ Downgrade(t) \/ UNCHANGED mmap_lock
  BY DEF Expand, Extend
<1>3. mmap_lock.writer = t /\ addr \in mmap_min_addr..(NPages - 1)
  BY <1>1, <1>2, LooksAgain DEF LockOK
<1>4. LockKeeps(t) /\ (mmap_lock'.writer = t \/ t \in mmap_lock'.readers)
  BY <1>1, <1>2, <1>3, LockDropped
<1>5. PICK v \in find_vma(areas, addr) : expand_downwards(v, addr)
  BY <1>2
<1> DEFINE new == [v EXCEPT !.start = addr]
<1>6. areas' = (areas \ {v}) \cup {new} /\ v.growsdown /\ GapIsKept(v, addr)
  BY <1>5 DEF expand_downwards, CanGrow
<1> HIDE DEF addr
<1>7. AreasOK(areas') /\ addr < v.start /\ v \in areas /\ new.start = addr /\ new.end = v.end
  <2>1. new = [v EXCEPT !.start = addr]
    OBVIOUS
  <2> HIDE DEF new
  <2>2. /\ AreasOK((areas \ {v}) \cup {new}) /\ addr < v.start /\ v \in areas
        /\ new.start = addr /\ new.end = v.end
    BY <1>1, <1>2, <1>3, <1>6, <2>1, Grown
  <2> QED  BY <1>6, <2>2
<1>8. v.start \in Nat /\ v.end \in Nat /\ v.start < v.end /\ addr \in Nat
  <2>1. addr \in Nat
    BY <1>3, RangeAssumption
  <2>2. Layout(areas)
    BY <1>1, LayoutOfAreas
  <2>3. v \in areas
    BY <1>7
  <2> HIDE DEF new
  <2> QED  BY <2>1, <2>2, <2>3 DEF Layout
<1> HIDE DEF new
<1>9. \A p \in 0..NPages : (\E u \in areas : Covers(u, p)) => \E u \in areas' : Covers(u, p)
  BY <1>6, <1>7, <1>8 DEF Covers
<1>10. ASSUME NEW u \in Threads \ {t}
       PROVE  CallOK(areas', pc[u], call[u])
  <2>1. CallOK(areas, pc[u], call[u]) /\ pc[u] \in {"idle", "vma_use", "expand"}
    BY <1>1, <1>3, Alone, CallsAreOK
  <2> QED  BY <1>9, <2>1 DEF CallOK
<1>11. CallOK(areas', "use", call[t])
  <2>1. CallOK(areas, pc[t], call[t])
    BY CallsAreOK
  <2>2. Covers(new, addr) /\ new \in areas'
    BY <1>6, <1>7, <1>8 DEF Covers
  <2> QED  BY <2>1, <2>2 DEF CallOK, addr
<1> QED  BY <1>1, <1>2, <1>4, <1>7, <1>10, <1>11, Moved

-----------------------------------------------------------------------------
(* The steps of mmap() and munmap() *)

LEMMA MmapKeeps ==
  ASSUME IInv, NEW t \in Threads, NEW hint \in 0..(NPages - 1), NEW len \in Lens,
         NEW accessible \in BOOLEAN, Mmap(t, hint, len, accessible)
  PROVE  IInv'
<1> DEFINE addr == get_unmapped_area(areas, hint, len)
           new  == [start |-> addr, end |-> addr + len, growsdown |-> FALSE,
                    accessible |-> accessible]
<1>1. /\ WriteLockFree /\ addr # NoRoom /\ areas' = areas \cup {new}
      /\ UNCHANGED <<mmap_lock, pc, call>>
  BY DEF Mmap
<1>2. LockOK /\ AreasOK(areas) /\ Layout(areas) /\ len \in 1..NPages
  BY LayoutOfAreas, StackAssumption DEF IInv
<1>3. addr \in mmap_min_addr..(NPages - len) /\ Fits(areas, addr, len)
  BY <1>1, <1>2, GetsWhatIsFree
<1> HIDE DEF addr
<1>4. AreasOK(areas')
  BY <1>1, <1>2, <1>3, Mapped
<1> HIDE DEF new
<1>5. ASSUME NEW u \in Threads
      PROVE  CallOK(areas', pc'[u], call'[u])
  <2>1. CallOK(areas, pc[u], call[u]) /\ pc[u] \in {"idle", "vma_use", "expand"}
    BY <1>1, <1>2, Alone, CallsAreOK
  <2> QED  BY <1>1, <2>1 DEF CallOK
<1>6. LockOK'
  BY <1>1, <1>2 DEF LockOK
<1>7. DOMAIN call' = Threads
  BY <1>1 DEF IInv, CallsOK
<1> QED  BY <1>4, <1>5, <1>6, <1>7, CallsAreOK

LEMMA MunmapLockKeeps ==
  ASSUME IInv, NEW t \in Threads, NEW start \in 1..NPages, NEW end \in 1..NPages,
         MunmapLock(t, start, end)
  PROVE  IInv'
<1> DEFINE what == [NoCall EXCEPT !.start = start, !.end = end]
<1>1. LockOK /\ "munmap" \in PCs
  BY DEF IInv, PCs
<1>2. what.addr = 0 /\ what.start = start /\ what.end = end
  BY DEF NoCall
<1>3. start \in Nat /\ end \in Nat /\ start \in 0..NPages /\ end \in 0..NPages /\ 0 \in 0..NPages
      /\ 1 <= start
  BY RangeAssumption
<1>4. /\ start < end /\ \A v \in Within(start, end) : v.accessible
      /\ WriteLock(t) /\ Goto(t, "munmap", what) /\ UNCHANGED areas
  BY DEF MunmapLock
<1> HIDE DEF what
<1>5. CallOK(areas, "munmap", what)
  BY <1>2, <1>3, <1>4 DEF CallOK, Within
<1> QED  BY <1>1, <1>4, <1>5, LockTaken, MovedOnly

(* The faults in what is removed have ended; the range that is freed lies   *)
(* between the areas that are left.                                         *)
LEMMA MunmapRemoveKeeps ==
  ASSUME IInv, NEW t \in Threads, MunmapRemove(t)
  PROVE  IInv'
<1> DEFINE start == call[t].start
           end   == call[t].end
           gone  == Within(start, end)
           rest  == UNION {Rest(v, start, end) : v \in gone}
           left  == (areas \ gone) \cup rest
           what  == [addr  |-> 0, start |-> FreeFrom(left, start), end |-> FreeTo(left, start),
                     pages |-> MapThenSumSet(vma_pages, gone) - MapThenSumSet(vma_pages, rest)]
<1>1. /\ pc[t] = "munmap" /\ areas' = left /\ Downgrade(t) /\ Goto(t, "unmap_region", what)
      /\ \A v \in gone : vma_start_write(v)
  BY Zenon DEF MunmapRemove, FreeFrom, FreeTo
<1>2. LockOK /\ AreasOK(areas) /\ mmap_lock.writer = t /\ "unmap_region" \in PCs
  BY <1>1 DEF IInv, LockOK, PCs
<1>3. /\ start \in 0..NPages /\ end \in 0..NPages /\ 1 <= start /\ start < end
      /\ \A v \in gone : v.accessible
  BY <1>1 DEF IInv, CallsOK
<1>4. start \in 1..NPages /\ end \in 1..NPages /\ start \in Nat
  BY <1>3, RangeAssumption
<1> HIDE DEF start, end, rest
<1>5. AreasOK(left)
  BY <1>2, <1>3, <1>4, Unmapped DEF rest
<1> HIDE DEF left, gone
<1>6. CallOK(areas', "unmap_region", what)
  <2>1. /\ what.addr = 0 /\ what.start = FreeFrom(left, start) /\ what.end = FreeTo(left, start)
    OBVIOUS
  <2>2. Layout(left)
    BY <1>5, LayoutOfAreas
  <2> HIDE DEF what
  <2>3. 0 \in 0..NPages
    BY RangeAssumption
  <2> QED  BY <1>1, <1>4, <2>1, <2>2, <2>3, Isolated DEF CallOK
<1> HIDE DEF what
<1>7. ASSUME NEW u \in Threads \ {t}
      PROVE  CallOK(areas', pc[u], call[u])
  <2>1. CallOK(areas, pc[u], call[u]) /\ pc[u] \in {"idle", "vma_use", "expand"}
    BY <1>2, Alone, CallsAreOK
  <2>2. pc[u] = "vma_use" => \E v \in areas' : Covers(v, call[u].addr)
    <3> SUFFICES ASSUME pc[u] = "vma_use"  PROVE \E v \in areas' : Covers(v, call[u].addr)
      OBVIOUS
    <3>1. PICK v \in areas : Covers(v, call[u].addr)
      BY <2>1 DEF CallOK
    <3>2. v \notin gone
      BY <1>1, <3>1 DEF vma_start_write
    <3> QED  BY <1>1, <3>1, <3>2 DEF left
  <2> QED  BY <2>1, <2>2 DEF CallOK
<1>8. LockKeeps(t) /\ t \in mmap_lock'.readers
  BY <1>1, <1>2, LockDropped
<1> QED  BY <1>1, <1>2, <1>5, <1>6, <1>7, <1>8, Moved

-----------------------------------------------------------------------------
(* The theorems *)

LEMMA InitInvariant ==
  Init => IInv
<1> SUFFICES ASSUME Init  PROVE IInv
  OBVIOUS
<1>1. /\ Stack \in AreaSet /\ Stack.start < Stack.end /\ areas = {Stack}
      /\ Stack.start \in Nat /\ Stack.end \in Nat
  <2>1. Stack \in AreaSet
    BY StackAssumption DEF AreaSet
  <2> QED  BY <2>1, StackAssumption, AreaFields DEF Init
<1>2. AreasOK(areas)
  <2>1. Apart(areas)
    BY <1>1 DEF Apart
  <2>2. Guarded(areas)
    BY <1>1 DEF Guarded
  <2> QED  BY <1>1, <2>1, <2>2 DEF AreasOK
<1>3. LockOK
  <2>1. "idle" \in PCs
    BY DEF PCs
  <2> QED  BY <2>1 DEF Init, LockOK
<1>4. \A t \in Threads : CallOK(areas, pc[t], call[t])
  <2>1. 0 \in 0..NPages
    BY RangeAssumption
  <2> QED  BY <2>1 DEF Init, CallOK, NoCall
<1>5. DOMAIN call = Threads
  BY DEF Init
<1> QED  BY <1>2, <1>3, <1>4, <1>5, CallsAreOK

LEMMA StepInvariant ==
  IInv /\ [Next]_vars => IInv'
<1> SUFFICES ASSUME IInv, [Next]_vars  PROVE IInv'
  OBVIOUS
<1>1. ASSUME NEW t \in Threads, Use(t)  PROVE IInv'
  BY <1>1, UseKeeps DEF Use
<1>2. ASSUME NEW t \in Threads, Map(t)  PROVE IInv'
  BY <1>2, MmapKeeps DEF Map
<1>3. ASSUME NEW t \in Threads, Unmap(t)  PROVE IInv'
  BY <1>3, MunmapLockKeeps DEF Unmap
<1>4. ASSUME NEW t \in Threads, ExpandLock(t) \/ ExpandKilled(t)  PROVE IInv'
  BY <1>4, ExpandLockKeeps
<1>5. ASSUME NEW t \in Threads, InLock(t)  PROVE IInv'
  BY <1>5, FoundKeeps, ExpandKeeps, ReleaseKeeps, MunmapRemoveKeeps DEF InLock
<1>6. ASSUME NEW t \in Threads, Finish(t)  PROVE IInv'
  BY <1>6, ReleaseKeeps DEF Finish
<1>7. CASE UNCHANGED vars
  <2>1. UNCHANGED <<areas, mmap_lock, pc, call>>
    BY <1>7 DEF vars
  <2>2. LockOK'
    BY <2>1 DEF IInv, LockOK
  <2>3. AreasOK(areas') /\ DOMAIN call' = Threads
    BY <2>1 DEF IInv, CallsOK
  <2>4. \A t \in Threads : CallOK(areas', pc'[t], call'[t])
    BY <2>1, CallsAreOK
  <2> QED  BY <2>2, <2>3, <2>4, CallsAreOK
<1> QED  BY <1>1, <1>2, <1>3, <1>4, <1>5, <1>6, <1>7 DEF Next

(* Areas, locks and calls fit together in every state.                      *)
THEOREM Invariant ==
  Spec => []IInv
BY InitInvariant, StepInvariant, PTL DEF Spec

(* No two areas share a page, and a stack keeps its guard gap to accessible *)
(* memory below it, for every order of growing, mapping and unmapping.      *)
THEOREM StacksStayGuarded ==
  Spec => []StackIsGuarded
<1>1. IInv => StackIsGuarded
  BY GuardedIsGuarded DEF IInv
<1> QED  BY <1>1, Invariant, PTL

(* Who has found an area for its page keeps it until it lets go.            *)
THEOREM FoundAreaStays ==
  Spec => []FoundAreaCoversPage
<1>1. IInv => FoundAreaCoversPage
  BY DEF IInv
<1> QED  BY <1>1, Invariant, PTL

(* munmap() frees page tables of a range in which nothing comes to lie.     *)
THEOREM UnmappedStaysFree ==
  Spec => []UnmappedRangeStaysFree
<1>1. IInv => UnmappedRangeStaysFree
  BY DEF IInv
<1> QED  BY <1>1, Invariant, PTL

(* Of every layout that is reached, the search for a free range is right.   *)
THEOREM SearchStaysRight ==
  Spec => []SearchIsRight
<1>1. IInv => SearchIsRight
  BY LayoutOfAreas, SearchOfLayout DEF IInv
<1> QED  BY <1>1, Invariant, PTL

-----------------------------------------------------------------------------
(* Counts.  What the sums of the model add up is what Sums_proofs adds up.  *)

Pages == [v \in AreaSet |-> v.end - v.start]
Owed(pcs, calls) == [t \in Threads |-> IF pcs[t] = "unmap_region" THEN calls[t].pages ELSE 0]

LEMMA PagesAreSums ==
  ASSUME NEW S, S \subseteq AreaSet, IsFiniteSet(S)
  PROVE  MapThenSumSet(vma_pages, S) = SumOf(Pages, S)
<1> DEFINE fold == CHOOSE f : f = [s \in SUBSET S |->
                     IF s = {} THEN 0
                     ELSE vma_pages(CHOOSE x \in s : TRUE) + f[s \ {CHOOSE x \in s : TRUE}]]
<1>1. MapThenSumSet(vma_pages, S) = fold[S]
  BY DEF MapThenSumSet, MapThenFoldSet
<1>2. Summable(Pages, S)
  BY RangeAssumption DEF Summable, Pages, AreaSet
<1>3. PICK h : IsSum(h, Pages, S)
  BY <1>2, SumExists
<1>4. ASSUME NEW s \in SUBSET S, s # {}
      PROVE  vma_pages(CHOOSE x \in s : TRUE) = Pages[CHOOSE x \in s : TRUE]
  <2>1. (CHOOSE x \in s : TRUE) \in AreaSet
    BY <1>4
  <2> QED  BY <2>1 DEF Pages, vma_pages
<1>5. h = [s \in SUBSET S |->
             IF s = {} THEN 0
             ELSE vma_pages(CHOOSE x \in s : TRUE) + h[s \ {CHOOSE x \in s : TRUE}]]
  <2>1. h \in [SUBSET S -> Int]
    BY <1>3 DEF IsSum
  <2>2. IsFold(h, Pages, S)
    BY <1>3, SumIsFold
  <2> QED  BY <1>4, <2>1, <2>2 DEF IsFold
<1>6. fold = [s \in SUBSET S |->
                IF s = {} THEN 0
                ELSE vma_pages(CHOOSE x \in s : TRUE) + fold[s \ {CHOOSE x \in s : TRUE}]]
  BY <1>5
<1> HIDE DEF fold
<1>7. IsFold(fold, Pages, S)
  BY <1>4, <1>6 DEF IsFold
<1> QED  BY <1>1, <1>2, <1>7, FoldIsSumOf

LEMMA OwedIsSum ==
  ASSUME \A t \in Threads : call[t].pages \in Int
  PROVE  MapThenSumSet(LAMBDA t : IF pc[t] = "unmap_region" THEN call[t].pages ELSE 0, Threads)
           = SumOf(Owed(pc, call), Threads)
<1> DEFINE owes(t) == IF pc[t] = "unmap_region" THEN call[t].pages ELSE 0
           g    == Owed(pc, call)
           fold == CHOOSE f : f = [s \in SUBSET Threads |->
                     IF s = {} THEN 0
                     ELSE owes(CHOOSE x \in s : TRUE) + f[s \ {CHOOSE x \in s : TRUE}]]
<1>1. MapThenSumSet(LAMBDA t : IF pc[t] = "unmap_region" THEN call[t].pages ELSE 0, Threads)
        = fold[Threads]
  BY DEF MapThenSumSet, MapThenFoldSet
<1>2. /\ Summable(g, Threads)
      /\ \A t \in Threads : g[t] = owes(t)
  BY StackAssumption DEF Summable, Owed
<1> HIDE DEF g, owes
<1>3. PICK h : IsSum(h, g, Threads)
  BY <1>2, SumExists
<1>4. ASSUME NEW s \in SUBSET Threads, s # {}
      PROVE  owes(CHOOSE x \in s : TRUE) = g[CHOOSE x \in s : TRUE]
  <2>1. (CHOOSE x \in s : TRUE) \in Threads
    BY <1>4
  <2> QED  BY <1>2, <2>1
<1>5. h = [s \in SUBSET Threads |->
             IF s = {} THEN 0
             ELSE owes(CHOOSE x \in s : TRUE) + h[s \ {CHOOSE x \in s : TRUE}]]
  <2>1. h \in [SUBSET Threads -> Int]
    BY <1>3 DEF IsSum
  <2>2. IsFold(h, g, Threads)
    BY <1>3, SumIsFold
  <2> QED  BY <1>4, <2>1, <2>2 DEF IsFold
<1>6. fold = [s \in SUBSET Threads |->
                IF s = {} THEN 0
                ELSE owes(CHOOSE x \in s : TRUE) + fold[s \ {CHOOSE x \in s : TRUE}]]
  BY <1>5
<1> HIDE DEF fold
<1>7. IsFold(fold, g, Threads)
  BY <1>4, <1>6 DEF IsFold
<1>8. fold[Threads] = SumOf(g, Threads)
  BY <1>2, <1>7, FoldIsSumOf
<1> QED  BY <1>1, <1>8 DEF g

-----------------------------------------------------------------------------
(* Pages of areas *)

LEMMA PagesOfAreas ==
  ASSUME NEW S, S \subseteq AreaSet, IsFiniteSet(S), \A v \in S : v.start < v.end
  PROVE  /\ Summable(Pages, S) /\ SumOf(Pages, S) \in Nat
         /\ \A v \in S : Pages[v] = v.end - v.start /\ Pages[v] \in Nat
<1>1. ASSUME NEW v \in S
      PROVE  Pages[v] = v.end - v.start /\ Pages[v] \in Nat
  <2>1. v \in AreaSet /\ v.start \in Nat /\ v.end \in Nat /\ v.start < v.end
    BY AreaFields
  <2>2. Pages[v] = v.end - v.start
    BY <2>1 DEF Pages
  <2> QED  BY <2>1, <2>2
<1>2. Summable(Pages, S)
  BY <1>1 DEF Summable
<1> QED  BY <1>1, <1>2, SumIsNat

(* Areas that share no page have no more pages than lie below them.         *)
LEMMA PagesBelow ==
  ASSUME NEW S, S \subseteq AreaSet, IsFiniteSet(S), \A v \in S : v.start < v.end, Apart(S)
  PROVE  SumOf(Pages, S) <= NPages
<1> DEFINE C == {s \in SUBSET S : \E b \in Nat : (\A v \in s : v.end <= b) /\ SumOf(Pages, s) > b}
<1>1. ASSUME C # {}  PROVE FALSE
  <2>1. PICK s \in C : \A u \in C : ~(u \subseteq s /\ u # s)
    <3>1. \A s \in C : IsFiniteSet(s)
      BY FS_Subset
    <3> HIDE DEF C
    <3> QED  BY <1>1, <3>1, SmallestSet
  <2>2. PICK b \in Nat : (\A v \in s : v.end <= b) /\ SumOf(Pages, s) > b
    OBVIOUS
  <2>3. s \in SUBSET S /\ s \subseteq AreaSet /\ IsFiniteSet(s)
    BY FS_Subset
  <2>4. \A v \in s : v.start \in Nat /\ v.end \in Nat /\ v.start < v.end
    BY <2>3, AreaFields
  <2>5. s # {}
    <3>1. s = {} => SumOf(Pages, s) = 0
      BY SumOfNone
    <3> QED  BY <2>2, <3>1
  <2>6. PICK v \in s : \A u \in s : u.start <= v.start
    <3> DEFINE T == {u.start : u \in s}
    <3>1. \A u \in s : u.start \in T
      OBVIOUS
    <3>2. T \subseteq Nat /\ T # {}
      BY <2>4, <2>5
    <3>3. \A n \in T : n <= b
      <4>1. \A u \in s : u.start <= b
        BY <2>2, <2>4
      <4> QED  BY <4>1
    <3>4. \A n \in T : \E u \in s : n = u.start
      OBVIOUS
    <3> HIDE DEF T
    <3>5. PICK m \in T : \A n \in T : n <= m
      BY <3>2, <3>3, GreatestNat
    <3> QED  BY <3>1, <3>4, <3>5
  <2> DEFINE below == s \ {v}
  <2>7. \A u \in below : u.end <= v.start
    <3> SUFFICES ASSUME NEW u \in below  PROVE u.end <= v.start
      OBVIOUS
    <3>1. u \in s /\ u # v /\ u \in S /\ v \in S
      BY <2>3
    <3>2. u.end <= v.start \/ v.end <= u.start
      BY <3>1 DEF Apart
    <3> QED  BY <2>4, <2>6, <3>1, <3>2
  <2>8. ~(SumOf(Pages, below) > v.start)
    <3>1. below \in SUBSET S /\ below \subseteq s /\ below # s /\ v.start \in Nat
      BY <2>3, <2>4
    <3>2. below \notin C
      BY <2>1, <3>1
    <3> QED  BY <2>7, <3>1, <3>2
  <2>9. /\ SumOf(Pages, s) = Pages[v] + SumOf(Pages, below)
        /\ Pages[v] = v.end - v.start /\ SumOf(Pages, below) \in Int
    <3> HIDE DEF C
    <3>1. Summable(Pages, s) /\ Pages[v] = v.end - v.start
      BY <2>3, <2>4, PagesOfAreas
    <3>2. Summable(Pages, below)
      BY <3>1, SummableSubset
    <3> HIDE DEF below
    <3>3. SumOf(Pages, below) \in Int
      BY <3>2, SumIsInt
    <3>4. SumOf(Pages, s) = Pages[v] + SumOf(Pages, below)
      BY <3>1, SumWithout DEF below
    <3> QED  BY <3>1, <3>3, <3>4
  <2> HIDE DEF below, C
  <2>10. v.end <= b /\ v.start \in Nat /\ v.end \in Nat
    BY <2>2, <2>4
  <2> QED  BY <2>2, <2>8, <2>9, <2>10
<1>2. S \in SUBSET S /\ NPages \in Nat /\ \A v \in S : v.end <= NPages
  BY AreaFields, RangeAssumption DEF AreaSet
<1>3. ~(SumOf(Pages, S) > NPages)
  BY <1>1, <1>2
<1>4. SumOf(Pages, S) \in Nat
  BY PagesOfAreas
<1> QED  BY <1>2, <1>3, <1>4

(* Two sets that may share something.                                       *)
LEMMA PagesOfBoth ==
  ASSUME NEW S, NEW T, S \cup T \subseteq AreaSet, IsFiniteSet(S), IsFiniteSet(T),
         \A v \in S \cup T : v.start < v.end
  PROVE  /\ IsFiniteSet(S \cup T)
         /\ SumOf(Pages, S \cup T) <= SumOf(Pages, S) + SumOf(Pages, T)
<1> DEFINE more == T \ S
           both == T \cap S
<1>1. IsFiniteSet(S \cup T) /\ IsFiniteSet(more) /\ IsFiniteSet(both)
  BY FS_Union, FS_Subset
<1>2. /\ Summable(Pages, S \cup T) /\ SumOf(Pages, S) \in Nat /\ Summable(Pages, T)
      /\ SumOf(Pages, more) \in Nat /\ SumOf(Pages, both) \in Nat
  BY <1>1, PagesOfAreas
<1>3. S \cup T = S \cup more /\ S \cap more = {} /\ T = more \cup both /\ more \cap both = {}
  OBVIOUS
<1> HIDE DEF more, both
<1>4. SumOf(Pages, S \cup more) = SumOf(Pages, S) + SumOf(Pages, more)
  BY <1>2, <1>3, SumOfBoth
<1>5. SumOf(Pages, more \cup both) = SumOf(Pages, more) + SumOf(Pages, both)
  BY <1>2, <1>3, SumOfBoth
<1> QED  BY <1>1, <1>2, <1>3, <1>4, <1>5

(* What is left of an area is no more than the area was.                    *)
LEMMA PagesOfRest ==
  ASSUME NEW v \in AreaSet, v.start < v.end, NEW start \in 1..NPages, NEW end \in 1..NPages,
         start < end
  PROVE  /\ Rest(v, start, end) \subseteq AreaSet /\ IsFiniteSet(Rest(v, start, end))
         /\ \A u \in Rest(v, start, end) : u.start < u.end /\ v.start <= u.start /\ u.end <= v.end
         /\ SumOf(Pages, Rest(v, start, end)) <= Pages[v]
<1> DEFINE a == [v EXCEPT !.end = start]
           b == [v EXCEPT !.start = end]
           R == Rest(v, start, end)
<1>1. /\ v.start \in Nat /\ v.end \in Nat /\ start \in Nat /\ end \in Nat
      /\ v.start \in mmap_min_addr..(NPages - 1) /\ mmap_min_addr \in Nat /\ NPages \in Nat
      /\ v.end <= NPages
  BY AreaFields, RangeAssumption DEF AreaSet
<1>2. /\ a = [start |-> v.start, end |-> start, growsdown |-> v.growsdown,
              accessible |-> v.accessible]
      /\ a \in AreaSet
  BY Resized
<1>3. b = [start |-> end, end |-> v.end, growsdown |-> v.growsdown, accessible |-> v.accessible]
  BY Resized
<1>4. end < v.end /\ v.start <= end => b \in AreaSet
  <2>1. end < v.end /\ v.start <= end => end \in mmap_min_addr..(NPages - 1)
    BY <1>1
  <2> QED  BY <2>1, Resized
<1>5. a.start = v.start /\ a.end = start /\ b.start = end /\ b.end = v.end
  BY <1>2, <1>3
<1>6. R \subseteq {a, b}
  BY DEF Rest
<1>7. /\ a \in R <=> v.start < start /\ start <= v.end
      /\ b \in R <=> end < v.end /\ v.start <= end
  <2> HIDE DEF a, b
  <2>1. \A u : u \in R <=> (u = a \/ u = b) /\ u.start < u.end /\ u.start >= v.start /\ u.end <= v.end
    BY Zenon DEF Rest, a, b
  <2>2. a # b
    BY <1>1, <1>5
  <2> HIDE DEF R
  <2> QED  BY <1>1, <1>5, <2>1, <2>2
<1>8. /\ \A u \in R : u \in AreaSet /\ u.start < u.end /\ v.start <= u.start /\ u.end <= v.end
  <2> HIDE DEF a, b, R
  <2> QED  BY <1>1, <1>2, <1>4, <1>5, <1>6, <1>7
<1>9. IsFiniteSet(R)
  <2>1. IsFiniteSet({a, b})
    <3>1. IsFiniteSet({a}) /\ {a} \cup {b} = {a, b}
      BY FS_Singleton
    <3>2. IsFiniteSet({a} \cup {b})
      BY <3>1, FS_AddElement
    <3> QED  BY <3>1, <3>2
  <2> QED  BY <1>6, <2>1, FS_Subset
<1>10. SumOf(Pages, R) <= Pages[v]
  <2> HIDE DEF a, b, R
  <2>0. Pages[v] = v.end - v.start
    BY DEF Pages
  <2>1. Summable(Pages, R) /\ \A u \in R : Pages[u] = u.end - u.start
    BY <1>8, <1>9, PagesOfAreas
  <2>2. CASE a \in R /\ b \in R
    <3>1. SumOf(Pages, R) = Pages[a] + SumOf(Pages, R \ {a})
      BY <2>1, <2>2, SumWithout
    <3>2. b \in R \ {a} /\ (R \ {a}) \ {b} = {}
      BY <1>1, <1>5, <1>6, <1>7, <2>2
    <3>3. SumOf(Pages, R \ {a}) = Pages[b] + SumOf(Pages, (R \ {a}) \ {b})
      <4>1. Summable(Pages, R \ {a})
        BY <2>1, SummableSubset
      <4> QED  BY <3>2, <4>1, SumWithout
    <3>4. SumOf(Pages, (R \ {a}) \ {b}) = 0
      BY <3>2, SumOfNone
    <3>5. Pages[a] = start - v.start /\ Pages[b] = v.end - end
      BY <1>5, <2>1, <2>2
    <3> QED  BY <1>1, <1>7, <2>0, <2>2, <3>1, <3>3, <3>4, <3>5
  <2>3. ASSUME NEW u \in {a, b}, R = {u}  PROVE SumOf(Pages, R) <= Pages[v]
    <3>1. SumOf(Pages, R) = Pages[u] + SumOf(Pages, R \ {u}) /\ R \ {u} = {}
      BY <2>1, <2>3, SumWithout
    <3>2. SumOf(Pages, R \ {u}) = 0
      BY <3>1, SumOfNone
    <3>3. /\ Pages[u] = u.end - u.start /\ v.start <= u.start /\ u.end <= v.end
          /\ u.start \in Nat /\ u.end \in Nat
      BY <1>1, <1>5, <1>8, <2>1, <2>3
    <3> QED  BY <1>1, <2>0, <3>1, <3>2, <3>3
  <2>4. CASE R = {}
    BY <1>1, <2>0, <2>4, SumOfNone
  <2>5. (a \in R /\ b \in R) \/ R = {a} \/ R = {b} \/ R = {}
    BY <1>6
  <2> QED  BY <2>2, <2>3, <2>4, <2>5
<1> QED  BY <1>8, <1>9, <1>10

RestsOf(S, start, end) == UNION {Rest(v, start, end) : v \in S}

LEMMA PagesOfRests ==
  ASSUME NEW S, S \subseteq AreaSet, IsFiniteSet(S), \A v \in S : v.start < v.end,
         NEW start \in 1..NPages, NEW end \in 1..NPages, start < end
  PROVE  /\ RestsOf(S, start, end) \subseteq AreaSet /\ IsFiniteSet(RestsOf(S, start, end))
         /\ \A u \in RestsOf(S, start, end) : u.start < u.end
         /\ SumOf(Pages, RestsOf(S, start, end)) <= SumOf(Pages, S)
<1> DEFINE Rests(s) == UNION {Rest(v, start, end) : v \in s}
           C == {s \in SUBSET S : ~(/\ IsFiniteSet(Rests(s))
                                    /\ SumOf(Pages, Rests(s)) <= SumOf(Pages, s))}
<1>1. ASSUME NEW s \in SUBSET S
      PROVE  Rests(s) \subseteq AreaSet /\ \A u \in Rests(s) : u.start < u.end
  <2> SUFFICES ASSUME NEW u \in Rests(s)  PROVE u \in AreaSet /\ u.start < u.end
    OBVIOUS
  <2>1. PICK v \in s : u \in Rest(v, start, end)
    OBVIOUS
  <2>2. v \in AreaSet /\ v.start < v.end
    OBVIOUS
  <2> QED  BY <2>1, <2>2, PagesOfRest
<1>2. ASSUME C # {}  PROVE FALSE
  <2>1. PICK s \in C : \A u \in C : ~(u \subseteq s /\ u # s)
    <3>1. \A s \in C : IsFiniteSet(s)
      BY FS_Subset
    <3> HIDE DEF C
    <3> QED  BY <1>2, <3>1, SmallestSet
  <2>2. s \in SUBSET S /\ s \subseteq AreaSet /\ IsFiniteSet(s) /\ \A v \in s : v.start < v.end
    BY FS_Subset
  <2>3. Summable(Pages, s) /\ \A v \in s : Pages[v] \in Nat
    <3> HIDE DEF C
    <3> QED  BY <2>2, PagesOfAreas
  <2>4. s # {}
    <3>1. ASSUME s = {}  PROVE FALSE
      <4>1. Rests(s) = {} /\ SumOf(Pages, {}) = 0
        BY <3>1, SumOfNone
      <4> QED  BY <2>1, <3>1, <4>1, FS_EmptySet
    <3> QED  BY <3>1
  <2>5. PICK v \in s : TRUE
    BY <2>4
  <2> DEFINE others == s \ {v}
  <2>6. IsFiniteSet(Rests(others)) /\ SumOf(Pages, Rests(others)) <= SumOf(Pages, others)
    <3>1. others \in SUBSET S /\ others \subseteq s /\ others # s
      BY <2>2, <2>5
    <3>2. others \notin C
      BY <2>1, <3>1
    <3> QED  BY <3>1, <3>2
  <2>7. Rests(s) = Rests(others) \cup Rest(v, start, end)
    BY <2>5
  <2>8. /\ Rest(v, start, end) \subseteq AreaSet /\ IsFiniteSet(Rest(v, start, end))
        /\ \A u \in Rest(v, start, end) : u.start < u.end
        /\ SumOf(Pages, Rest(v, start, end)) <= Pages[v]
    <3>1. v \in AreaSet /\ v.start < v.end
      BY <2>2, <2>5
    <3> QED  BY <3>1, PagesOfRest
  <2>9. Rests(others) \subseteq AreaSet /\ \A u \in Rests(others) : u.start < u.end
    <3>1. others \in SUBSET S
      BY <2>2
    <3> QED  BY <1>1, <3>1
  <2>10. ~(IsFiniteSet(Rests(s)) /\ SumOf(Pages, Rests(s)) <= SumOf(Pages, s))
    BY <2>1
  <2> HIDE DEF C, Rests
  <2>11. /\ IsFiniteSet(Rests(s))
         /\ SumOf(Pages, Rests(s)) <= SumOf(Pages, Rests(others)) + SumOf(Pages, Rest(v, start, end))
    BY <2>6, <2>7, <2>8, <2>9, PagesOfBoth
  <2>12. SumOf(Pages, s) = Pages[v] + SumOf(Pages, others)
    BY <2>3, <2>5, SumWithout
  <2>13. /\ SumOf(Pages, others) \in Int /\ SumOf(Pages, Rests(others)) \in Int
         /\ SumOf(Pages, Rest(v, start, end)) \in Int /\ SumOf(Pages, Rests(s)) \in Int
    <3>1. Summable(Pages, others)
      BY <2>3, SummableSubset
    <3>2. Summable(Pages, Rests(others)) /\ Summable(Pages, Rest(v, start, end))
      BY <2>6, <2>8, <2>9, PagesOfAreas
    <3>3. Summable(Pages, Rests(s))
      BY <1>1, <2>2, <2>11, PagesOfAreas
    <3> QED  BY <3>1, <3>2, <3>3, SumIsInt
  <2> HIDE DEF others
  <2> QED  BY <2>3, <2>5, <2>6, <2>8, <2>10, <2>11, <2>12, <2>13
<1>3. S \in SUBSET S
  OBVIOUS
<1>4. IsFiniteSet(Rests(S)) /\ SumOf(Pages, Rests(S)) <= SumOf(Pages, S)
  BY <1>2, <1>3
<1>5. Rests(S) \subseteq AreaSet /\ \A u \in Rests(S) : u.start < u.end
  BY <1>1, <1>3
<1> QED  BY <1>4, <1>5 DEF RestsOf

(* munmap() takes as many pages off as it has removed from the areas.       *)
LEMMA PagesRemoved ==
  ASSUME AreasOK(areas), IsFiniteSet(areas), NEW start \in 1..NPages, NEW end \in 1..NPages,
         start < end,
         NEW gone, gone = Within(start, end),
         NEW rest, rest = UNION {Rest(v, start, end) : v \in gone},
         NEW left, left = (areas \ gone) \cup rest
  PROVE  /\ IsFiniteSet(left)
         /\ MapThenSumSet(vma_pages, gone) - MapThenSumSet(vma_pages, rest) \in 0..NPages
         /\ SumOf(Pages, left) = SumOf(Pages, areas)
              - (MapThenSumSet(vma_pages, gone) - MapThenSumSet(vma_pages, rest))
<1>1. areas \subseteq AreaSet /\ Apart(areas) /\ \A v \in areas : v.start < v.end
  BY DEF AreasOK
<1> DEFINE kept == areas \ gone
<1>2. /\ gone \subseteq areas /\ gone \subseteq AreaSet /\ kept \subseteq AreaSet
      /\ IsFiniteSet(gone) /\ IsFiniteSet(kept) /\ areas = kept \cup gone /\ kept \cap gone = {}
      /\ left = kept \cup rest
  <2>1. gone \subseteq areas /\ kept \subseteq areas
    BY DEF Within
  <2>2. IsFiniteSet(gone) /\ IsFiniteSet(kept)
    BY <2>1, FS_Subset
  <2> QED  BY <1>1, <2>1, <2>2
<1>3. /\ rest \subseteq AreaSet /\ IsFiniteSet(rest) /\ \A u \in rest : u.start < u.end
      /\ SumOf(Pages, rest) <= SumOf(Pages, gone)
  <2>1. \A v \in gone : v.start < v.end
    BY <1>1, <1>2
  <2> HIDE DEF kept
  <2>2. rest = RestsOf(gone, start, end)
    BY DEF RestsOf
  <2>3. gone \subseteq AreaSet /\ IsFiniteSet(gone)
    BY <1>2
  <2>4. /\ RestsOf(gone, start, end) \subseteq AreaSet /\ IsFiniteSet(RestsOf(gone, start, end))
        /\ \A u \in RestsOf(gone, start, end) : u.start < u.end
        /\ SumOf(Pages, RestsOf(gone, start, end)) <= SumOf(Pages, gone)
    BY <2>1, <2>3, PagesOfRests, Zenon
  <2> QED  BY <2>2, <2>4
<1>4. kept \cap rest = {}
  <2> SUFFICES ASSUME NEW u \in kept, u \in rest  PROVE FALSE
    OBVIOUS
  <2>1. PICK v \in gone : u \in Rest(v, start, end)
    OBVIOUS
  <2>2. u \in areas /\ v \in areas /\ u # v
    BY <1>2, <2>1
  <2>3. u.end <= v.start \/ v.end <= u.start
    BY <1>1, <2>2 DEF Apart
  <2>4. v.start <= u.start /\ u.end <= v.end /\ u.start < u.end
    BY <1>1, <2>1, <2>2, PagesOfRest
  <2>5. u.start \in Nat /\ u.end \in Nat /\ v.start \in Nat /\ v.end \in Nat
    BY <1>1, <2>2, AreaFields
  <2> QED  BY <2>3, <2>4, <2>5
<1> HIDE DEF kept
<1>5. /\ MapThenSumSet(vma_pages, gone) = SumOf(Pages, gone)
      /\ MapThenSumSet(vma_pages, rest) = SumOf(Pages, rest)
  BY <1>2, <1>3, PagesAreSums
<1>6. IsFiniteSet(left) /\ left \subseteq AreaSet /\ \A v \in left : v.start < v.end
  <2>1. IsFiniteSet(kept \cup rest)
    BY <1>2, <1>3, FS_Union
  <2>2. \A v \in kept : v.start < v.end
    BY <1>1, <1>2
  <2> QED  BY <1>2, <1>3, <2>1, <2>2
<1>7. SumOf(Pages, areas) = SumOf(Pages, kept) + SumOf(Pages, gone)
  <2>1. Summable(Pages, areas)
    BY <1>1, PagesOfAreas
  <2>2. Summable(Pages, kept \cup gone)
    BY <1>2, <2>1
  <2>3. SumOf(Pages, kept \cup gone) = SumOf(Pages, kept) + SumOf(Pages, gone)
    BY <1>2, <2>2, SumOfBoth
  <2> QED  BY <1>2, <2>3
<1>8. SumOf(Pages, left) = SumOf(Pages, kept) + SumOf(Pages, rest)
  <2>1. Summable(Pages, left)
    BY <1>6, PagesOfAreas
  <2>2. Summable(Pages, kept \cup rest)
    BY <1>2, <2>1
  <2>3. SumOf(Pages, kept \cup rest) = SumOf(Pages, kept) + SumOf(Pages, rest)
    BY <1>4, <2>2, SumOfBoth
  <2> QED  BY <1>2, <2>3
<1>9. /\ SumOf(Pages, gone) \in Nat /\ SumOf(Pages, rest) \in Nat /\ SumOf(Pages, kept) \in Nat
      /\ SumOf(Pages, gone) <= NPages /\ NPages \in Nat
  <2>1. Apart(gone) /\ (\A v \in gone : v.start < v.end) /\ \A v \in kept : v.start < v.end
    BY <1>1, <1>2 DEF Apart
  <2>2. SumOf(Pages, gone) \in Nat /\ SumOf(Pages, rest) \in Nat /\ SumOf(Pages, kept) \in Nat
    BY <1>2, <1>3, <2>1, PagesOfAreas
  <2>3. SumOf(Pages, gone) <= NPages
    BY <1>2, <2>1, PagesBelow
  <2> QED  BY <2>2, <2>3, RangeAssumption
<1> QED  BY <1>3, <1>5, <1>6, <1>7, <1>8, <1>9

-----------------------------------------------------------------------------
(* total_vm is what is mapped and what munmap() has yet to take off.        *)

CallSet == [addr : 0..NPages, start : 0..NPages, end : 0..NPages, pages : 0..NPages]

CountsOK ==
  /\ IsFiniteSet(areas) /\ call \in [Threads -> CallSet] /\ total_vm \in 0..RLIMIT_AS
  /\ total_vm = SumOf(Pages, areas) + SumOf(Owed(pc, call), Threads)

LEMMA NumbersFit ==
  ASSUME IInv, CountsOK
  PROVE  /\ total_vm \in Nat /\ total_vm <= RLIMIT_AS /\ RLIMIT_AS \in Nat /\ NPages \in Nat
         /\ areas \subseteq AreaSet /\ \A v \in areas : v.start < v.end
         /\ SumOf(Pages, areas) \in Nat
         /\ Summable(Owed(pc, call), Threads) /\ SumOf(Owed(pc, call), Threads) \in Nat
<1>1. areas \subseteq AreaSet /\ (\A v \in areas : v.start < v.end) /\ IsFiniteSet(areas)
  BY DEF IInv, AreasOK, CountsOK
<1>2. \A t \in Threads : Owed(pc, call)[t] \in Nat
  BY RangeAssumption DEF Owed, CountsOK, CallSet
<1>3. Summable(Owed(pc, call), Threads) /\ \A t \in Threads : Owed(pc, call)[t] >= 0
  BY <1>2, StackAssumption DEF Summable
<1>4. SumOf(Owed(pc, call), Threads) \in Nat
  BY <1>3, SumIsNat
<1> QED  BY <1>1, <1>3, <1>4, PagesOfAreas, RangeAssumption, StackAssumption DEF CountsOK

LEMMA OwedMoves ==
  ASSUME IInv, CountsOK, NEW t \in Threads, NEW where, NEW what \in CallSet, Goto(t, where, what)
  PROVE  /\ call' \in [Threads -> CallSet]
         /\ SumOf(Owed(pc', call'), Threads) = SumOf(Owed(pc, call), Threads)
              - (IF pc[t] = "unmap_region" THEN call[t].pages ELSE 0)
              + (IF where = "unmap_region" THEN what.pages ELSE 0)
<1> DEFINE g == Owed(pc, call)
           k == Owed(pc', call')
           rest == Threads \ {t}
<1>1. /\ call' \in [Threads -> CallSet] /\ pc'[t] = where /\ call'[t] = what
      /\ \A u \in rest : pc'[u] = pc[u] /\ call'[u] = call[u]
  BY DEF Goto, IInv, LockOK, CountsOK
<1>2. /\ g[t] = (IF pc[t] = "unmap_region" THEN call[t].pages ELSE 0)
      /\ k[t] = (IF where = "unmap_region" THEN what.pages ELSE 0)
      /\ \A u \in rest : g[u] = k[u]
  BY <1>1 DEF Owed
<1>3. Summable(g, Threads) /\ g[t] \in Int /\ k[t] \in Int /\ t \notin rest
  <2>1. what.pages \in Int
    BY RangeAssumption DEF CallSet
  <2>2. Summable(g, Threads)
    BY NumbersFit
  <2>3. k[t] \in Int
    BY <1>2, <2>1
  <2> QED  BY <2>2, <2>3 DEF Summable
<1> HIDE DEF g, k, rest
<1>4. SumOf(g, Threads) = g[t] + SumOf(g, rest) /\ Summable(g, rest)
  <2>1. rest \subseteq Threads
    BY DEF rest
  <2> QED  BY <1>3, <2>1, SumWithout, SummableSubset DEF rest
<1>5. Summable(k, rest) /\ SumOf(g, rest) = SumOf(k, rest)
  BY <1>2, <1>4, SumOfSame
<1>6. Summable(k, Threads) /\ SumOf(k, Threads) = k[t] + SumOf(k, rest)
  <2>1. rest \cup {t} = Threads
    BY DEF rest
  <2>2. Summable(k, rest \cup {t}) /\ SumOf(k, rest \cup {t}) = k[t] + SumOf(k, rest)
    BY <1>3, <1>5, SumWith
  <2> QED  BY <2>1, <2>2
<1>7. SumOf(g, rest) \in Int
  BY <1>4, SumIsInt
<1>8. SumOf(k, Threads) = SumOf(g, Threads) - g[t] + k[t]
  BY <1>3, <1>4, <1>5, <1>6, <1>7
<1>9. SumOf(k, Threads) = SumOf(g, Threads) - (IF pc[t] = "unmap_region" THEN call[t].pages ELSE 0)
                            + (IF where = "unmap_region" THEN what.pages ELSE 0)
  BY <1>2, <1>8, Zenon
<1> QED  BY <1>1, <1>9 DEF g, k

LEMMA CallsFit ==
  ASSUME IInv, CountsOK
  PROVE  /\ NoCall \in CallSet
         /\ \A t \in Threads : call[t] \in CallSet
         /\ \A addr \in FaultAddrs : At(addr) \in CallSet
         /\ \A start, end \in 1..NPages : [NoCall EXCEPT !.start = start, !.end = end] \in CallSet
<1>1. 0 \in 0..NPages /\ \A n \in 1..NPages : n \in 0..NPages
  BY RangeAssumption
<1>2. NoCall \in CallSet
  BY <1>1 DEF NoCall, CallSet
<1>3. ASSUME NEW addr \in FaultAddrs  PROVE At(addr) \in CallSet
  <2>1. At(addr) = [addr |-> addr, start |-> 0, end |-> 0, pages |-> 0]
    BY DEF At, NoCall
  <2> QED  BY <1>1, <2>1, AtAddr DEF CallSet
<1>4. ASSUME NEW start \in 1..NPages, NEW end \in 1..NPages
      PROVE  [NoCall EXCEPT !.start = start, !.end = end] \in CallSet
  <2>1. [NoCall EXCEPT !.start = start, !.end = end]
          = [addr |-> 0, start |-> start, end |-> end, pages |-> 0]
    <3> DEFINE what == [NoCall EXCEPT !.start = start]
    <3>1. what = [addr |-> 0, start |-> start, end |-> 0, pages |-> 0]
      BY DEF NoCall
    <3>2. [what EXCEPT !.end = end] = [addr |-> 0, start |-> start, end |-> end, pages |-> 0]
      <4> HIDE DEF what
      <4> QED  BY <3>1
    <3> QED  BY <3>2
  <2>2. 0 \in 0..NPages /\ start \in 0..NPages /\ end \in 0..NPages
    BY <1>1
  <2>3. [addr |-> 0, start |-> start, end |-> end, pages |-> 0] \in CallSet
    BY ONLY <2>2 DEF CallSet
  <2> QED  BY ONLY <2>1, <2>3
<1> QED  BY <1>2, <1>3, <1>4 DEF CountsOK

LEMMA CountsUnmoved ==
  ASSUME IInv, CountsOK, NEW t \in Threads, NEW where, where # "unmap_region",
         NEW what \in CallSet, Goto(t, where, what), pc[t] # "unmap_region",
         UNCHANGED <<areas, total_vm>>
  PROVE  CountsOK'
<1>1. call' \in [Threads -> CallSet] /\ SumOf(Owed(pc', call'), Threads) = SumOf(Owed(pc, call), Threads)
  <2>1. SumOf(Owed(pc, call), Threads) \in Nat
    BY NumbersFit
  <2>2. SumOf(Owed(pc', call'), Threads) = SumOf(Owed(pc, call), Threads) - 0 + 0
    BY OwedMoves
  <2>3. call' \in [Threads -> CallSet]
    BY OwedMoves
  <2> QED  BY <2>1, <2>2, <2>3
<1>2. areas' = areas /\ total_vm' = total_vm
  OBVIOUS
<1> QED  BY <1>1, <1>2 DEF CountsOK

LEMMA QuietStepCounts ==
  ASSUME IInv, CountsOK, NEW t \in Threads,
         \/ \E addr \in FaultAddrs : FaultUnderVmaLock(t, addr) \/ Fault(t, addr)
                                       \/ FaultBelow(t, addr) \/ ExtendLock(t, addr)
         \/ \E start, end \in 1..NPages : MunmapLock(t, start, end)
         \/ ExpandLock(t) \/ ExpandKilled(t) \/ ExpandFound(t) \/ ExtendFound(t)
         \/ VmaUnlock(t) \/ Release(t) \/ ExpandRefused(t) \/ ExtendRefused(t) \/ MunmapFails(t)
  PROVE  CountsOK'
<1> DEFINE Quiet(where, what) ==
             /\ where # "unmap_region" /\ what \in CallSet /\ Goto(t, where, what)
             /\ pc[t] # "unmap_region" /\ UNCHANGED <<areas, total_vm>>
<1>1. \E where, what : Quiet(where, what)
  <2>1. ASSUME NEW addr \in FaultAddrs, FaultUnderVmaLock(t, addr) \/ Fault(t, addr)
                                         \/ FaultBelow(t, addr) \/ ExtendLock(t, addr)
        PROVE  \E where \in {"vma_use", "use", "expand", "extend"} : Quiet(where, At(addr))
    <3>1. At(addr) \in CallSet
      BY CallsFit
    <3> HIDE DEF Quiet
    <3>2. FaultUnderVmaLock(t, addr) => Quiet("vma_use", At(addr))
      BY <3>1 DEF FaultUnderVmaLock, Quiet
    <3>3. Fault(t, addr) => Quiet("use", At(addr))
      BY <3>1 DEF Fault, Quiet
    <3>4. FaultBelow(t, addr) => Quiet("expand", At(addr))
      BY <3>1 DEF FaultBelow, Quiet
    <3>5. ExtendLock(t, addr) => Quiet("extend", At(addr))
      BY <3>1 DEF ExtendLock, Quiet
    <3> QED  BY <2>1, <3>2, <3>3, <3>4, <3>5
  <2>2. ASSUME NEW start \in 1..NPages, NEW end \in 1..NPages, MunmapLock(t, start, end)
        PROVE  Quiet("munmap", [NoCall EXCEPT !.start = start, !.end = end])
    BY <2>2, CallsFit DEF MunmapLock
  <2>3. ASSUME ExpandLock(t)  PROVE Quiet("grow", call[t])
    BY <2>3, CallsFit DEF ExpandLock
  <2>4. ASSUME ExpandFound(t) \/ ExtendFound(t)  PROVE Quiet("use", call[t])
    BY <2>4, CallsFit DEF ExpandFound, ExtendFound
  <2>5. ASSUME ExpandKilled(t) \/ VmaUnlock(t) \/ Release(t) \/ ExpandRefused(t)
                 \/ ExtendRefused(t) \/ MunmapFails(t)
        PROVE  Quiet("idle", NoCall)
    BY <2>5, CallsFit DEF ExpandKilled, VmaUnlock, Release, ExpandRefused, ExtendRefused,
                          MunmapFails, Done
  <2> HIDE DEF Quiet
  <2> QED  BY <2>1, <2>2, <2>3, <2>4, <2>5
<1>2. PICK where, what : Quiet(where, what)
  BY <1>1
<1> QED  BY <1>2, CountsUnmoved

LEMMA MunmapReturnCounts ==
  ASSUME IInv, CountsOK, NEW t \in Threads, MunmapReturn(t)
  PROVE  CountsOK'
<1>1. /\ pc[t] = "unmap_region" /\ total_vm' = total_vm - call[t].pages
      /\ Goto(t, "idle", NoCall) /\ areas' = areas
  BY DEF MunmapReturn, Done
<1>2. /\ call' \in [Threads -> CallSet]
      /\ SumOf(Owed(pc', call'), Threads) = SumOf(Owed(pc, call), Threads) - call[t].pages + 0
  <2>1. NoCall \in CallSet
    BY CallsFit
  <2> QED  BY <1>1, <2>1, OwedMoves
<1>3. call[t].pages \in Nat
  <2>1. call[t] \in CallSet /\ NPages \in Nat
    BY CallsFit, RangeAssumption
  <2> QED  BY <2>1 DEF CallSet
<1>4. Owed(pc, call)[t] = call[t].pages
  BY <1>1 DEF Owed
<1>5. SumOf(Owed(pc, call), Threads) >= call[t].pages
  <2> DEFINE g == Owed(pc, call)
             rest == Threads \ {t}
  <2>1. Summable(g, Threads) /\ \A u \in Threads : g[u] >= 0
    <3>1. \A u \in Threads : g[u] \in Nat
      BY RangeAssumption DEF Owed, CountsOK, CallSet
    <3>2. Summable(g, Threads)
      BY NumbersFit
    <3> HIDE DEF g
    <3> QED  BY <3>1, <3>2
  <2>2. g[t] = call[t].pages
    BY <1>4
  <2>3. rest \subseteq Threads
    OBVIOUS
  <2> HIDE DEF g
  <2>4. SumOf(g, Threads) = g[t] + SumOf(g, rest)
    BY <2>1, SumWithout
  <2> HIDE DEF rest
  <2>5. Summable(g, rest) /\ \A u \in rest : g[u] >= 0
    BY <2>1, <2>3, SummableSubset
  <2>6. SumOf(g, rest) \in Nat
    BY <2>5, SumIsNat
  <2> QED  BY <1>3, <2>2, <2>4, <2>6 DEF g
<1> DEFINE s == SumOf(Owed(pc, call), Threads)
           p == SumOf(Pages, areas)
<1>6. /\ total_vm = p + s /\ p \in Nat /\ s \in Nat /\ s >= call[t].pages
      /\ total_vm <= RLIMIT_AS /\ RLIMIT_AS \in Nat
  BY <1>5, NumbersFit DEF CountsOK
<1> HIDE DEF s, p
<1>7. total_vm' \in 0..RLIMIT_AS /\ total_vm' = p + (s - call[t].pages + 0)
  BY <1>1, <1>3, <1>6
<1> QED  BY <1>1, <1>2, <1>7 DEF CountsOK, s, p

LEMMA ExpandCounts ==
  ASSUME IInv, CountsOK, NEW t \in Threads, Expand(t) \/ Extend(t)
  PROVE  CountsOK'
<1> DEFINE addr == call[t].addr
<1>1. /\ pc[t] \in {"grow", "extend"} /\ Covering(addr) = {} /\ Goto(t, "use", call[t])
      /\ \E v \in find_vma(areas, addr) : expand_downwards(v, addr)
  BY DEF Expand, Extend
<1>2. AreasOK(areas) /\ addr \in mmap_min_addr..(NPages - 1) /\ addr \in Nat
  <2>1. addr \in mmap_min_addr..(NPages - 1)
    BY <1>1, LooksAgain
  <2> QED  BY <2>1, RangeAssumption DEF IInv
<1>3. call' \in [Threads -> CallSet] /\ SumOf(Owed(pc', call'), Threads) = SumOf(Owed(pc, call), Threads)
  <2>1. call[t] \in CallSet /\ SumOf(Owed(pc, call), Threads) \in Nat
    BY CallsFit, NumbersFit
  <2>2. /\ SumOf(Owed(pc', call'), Threads) = SumOf(Owed(pc, call), Threads) - 0 + 0
        /\ call' \in [Threads -> CallSet]
    BY <1>1, <2>1, OwedMoves
  <2> QED  BY <2>1, <2>2
<1>4. PICK v \in find_vma(areas, addr) : expand_downwards(v, addr)
  BY <1>1
<1> DEFINE new  == [v EXCEPT !.start = addr]
           kept == areas \ {v}
<1>5. /\ areas' = kept \cup {new} /\ v.growsdown /\ GapIsKept(v, addr)
      /\ total_vm' = total_vm + (v.start - addr) /\ total_vm + (v.start - addr) <= RLIMIT_AS
  BY <1>4 DEF expand_downwards, CanGrow, acct_stack_growth
<1> HIDE DEF addr
<1>6. /\ AreasOK(areas') /\ addr < v.start /\ v \in areas /\ new \notin areas
      /\ new.start = addr /\ new.end = v.end
  BY <1>1, <1>2, <1>5, Grown
<1> HIDE DEF new
<1>7. new \in AreaSet /\ v \in AreaSet /\ v.start \in Nat /\ v.end \in Nat /\ v.start < v.end
  BY <1>2, <1>5, <1>6, AreaFields DEF AreasOK
<1>8. /\ IsFiniteSet(areas) /\ Summable(Pages, areas) /\ Summable(Pages, kept)
      /\ new \notin kept /\ IsFiniteSet(kept)
  <2>1. IsFiniteSet(areas) /\ Summable(Pages, areas)
    BY NumbersFit, PagesOfAreas DEF CountsOK
  <2>2. kept \subseteq areas
    OBVIOUS
  <2>3. IsFiniteSet(kept)
    BY <2>1, <2>2, FS_Subset
  <2> QED  BY <1>6, <2>1, <2>2, <2>3, SummableSubset
<1>9. Pages[v] = v.end - v.start /\ Pages[new] = v.end - addr
  BY <1>6, <1>7 DEF Pages
<1>10. SumOf(Pages, areas) = Pages[v] + SumOf(Pages, kept)
  BY <1>6, <1>8, SumWithout
<1> HIDE DEF kept
<1>11. /\ SumOf(Pages, kept \cup {new}) = Pages[new] + SumOf(Pages, kept)
       /\ IsFiniteSet(kept \cup {new})
  <2>1. Pages[new] \in Int
    BY <1>2, <1>7, <1>9
  <2> QED  BY <1>8, <2>1, SumWith, FS_AddElement
<1>12. SumOf(Pages, kept) \in Int
  BY <1>8, SumIsInt
<1> DEFINE s == SumOf(Owed(pc, call), Threads)
           p == SumOf(Pages, areas)
           q == SumOf(Pages, areas')
<1>13. q = p + (v.start - addr)
  BY <1>2, <1>5, <1>7, <1>9, <1>10, <1>11, <1>12
<1>14. total_vm = p + s /\ p \in Nat /\ s \in Nat /\ total_vm \in Nat /\ RLIMIT_AS \in Nat
  BY NumbersFit DEF CountsOK
<1>15. IsFiniteSet(areas')
  BY <1>5, <1>11
<1>16. SumOf(Owed(pc', call'), Threads) = s
  BY <1>3
<1> HIDE DEF s, p, q
<1>17. total_vm' \in 0..RLIMIT_AS /\ total_vm' = q + s
  BY <1>2, <1>5, <1>6, <1>7, <1>13, <1>14
<1> QED  BY <1>3, <1>15, <1>16, <1>17 DEF CountsOK, q

LEMMA MmapCounts ==
  ASSUME IInv, CountsOK, NEW t \in Threads, NEW hint \in 0..(NPages - 1), NEW len \in Lens,
         NEW accessible \in BOOLEAN, Mmap(t, hint, len, accessible)
  PROVE  CountsOK'
<1> DEFINE addr == get_unmapped_area(areas, hint, len)
           new  == [start |-> addr, end |-> addr + len, growsdown |-> FALSE,
                    accessible |-> accessible]
<1>1. /\ addr # NoRoom /\ areas' = areas \cup {new} /\ pc' = pc /\ call' = call
      /\ total_vm' = total_vm + len /\ total_vm + len <= RLIMIT_AS
  BY DEF Mmap
<1>2. AreasOK(areas) /\ Layout(areas) /\ len \in 1..NPages /\ len \in Nat
  BY LayoutOfAreas, StackAssumption, RangeAssumption DEF IInv
<1>3. addr \in mmap_min_addr..(NPages - len) /\ Fits(areas, addr, len)
  BY <1>1, <1>2, GetsWhatIsFree
<1> HIDE DEF addr
<1>4. addr \in Nat
  BY <1>2, <1>3, RangeAssumption
<1>5. new.start = addr /\ new.end = addr + len
  OBVIOUS
<1>6. AreasOK(areas \cup {new})
  BY <1>2, <1>3, Mapped
<1> HIDE DEF new
<1>7. new \in AreaSet
  BY <1>6 DEF AreasOK
<1>8. new \notin areas
  <2> SUFFICES ASSUME new \in areas  PROVE FALSE
    OBVIOUS
  <2>1. new.end <= addr \/ addr + len <= new.start
    BY <1>3 DEF Fits, IsFree, Disjoint
  <2> QED  BY <1>2, <1>4, <1>5, <2>1
<1>9. Pages[new] = len
  <2>1. Pages[new] = new.end - new.start
    BY <1>7 DEF Pages
  <2> QED  BY <1>2, <1>4, <1>5, <2>1
<1>10. IsFiniteSet(areas) /\ Summable(Pages, areas)
  BY NumbersFit, PagesOfAreas DEF CountsOK
<1>11. /\ SumOf(Pages, areas \cup {new}) = Pages[new] + SumOf(Pages, areas)
       /\ IsFiniteSet(areas \cup {new})
  <2>1. Pages[new] \in Int
    BY <1>2, <1>9
  <2> QED  BY <1>8, <1>10, <2>1, SumWith, FS_AddElement
<1> DEFINE s == SumOf(Owed(pc, call), Threads)
           p == SumOf(Pages, areas)
<1>12. total_vm = p + s /\ p \in Nat /\ s \in Nat /\ total_vm \in Nat /\ RLIMIT_AS \in Nat
  BY NumbersFit DEF CountsOK
<1>13. /\ SumOf(Owed(pc', call'), Threads) = s /\ call' \in [Threads -> CallSet]
       /\ SumOf(Pages, areas') = len + p /\ IsFiniteSet(areas')
  BY <1>1, <1>9, <1>11 DEF CountsOK
<1> HIDE DEF s, p
<1>14. total_vm' \in 0..RLIMIT_AS /\ total_vm' = (len + p) + s
  BY <1>1, <1>2, <1>12
<1> QED  BY <1>13, <1>14 DEF CountsOK

LEMMA MunmapRemoveCounts ==
  ASSUME IInv, CountsOK, NEW t \in Threads, MunmapRemove(t)
  PROVE  CountsOK'
<1> DEFINE start == call[t].start
           end   == call[t].end
           gone  == Within(start, end)
           rest  == UNION {Rest(v, start, end) : v \in gone}
           left  == (areas \ gone) \cup rest
           pages == MapThenSumSet(vma_pages, gone) - MapThenSumSet(vma_pages, rest)
           what  == [addr  |-> 0, start |-> FreeFrom(left, start), end |-> FreeTo(left, start),
                     pages |-> pages]
<1>1. /\ pc[t] = "munmap" /\ areas' = left /\ total_vm' = total_vm /\ Goto(t, "unmap_region", what)
  BY Zenon DEF MunmapRemove, FreeFrom, FreeTo
<1>2. AreasOK(areas) /\ IsFiniteSet(areas)
  BY DEF IInv, CountsOK
<1>3. /\ start \in 0..NPages /\ end \in 0..NPages /\ 1 <= start /\ start < end
      /\ \A v \in gone : v.accessible
  BY <1>1 DEF IInv, CallsOK
<1>4. start \in 1..NPages /\ end \in 1..NPages /\ start \in Nat /\ 0 \in 0..NPages
  BY <1>3, RangeAssumption
<1> HIDE DEF start, end
<1>5. AreasOK(left)
  <2> HIDE DEF gone, rest, left
  <2>1. /\ \A v \in Within(start, end) : v.accessible
        /\ left = (areas \ Within(start, end))
                    \cup UNION {Rest(v, start, end) : v \in Within(start, end)}
    BY <1>3 DEF gone, rest, left
  <2> QED  BY <1>2, <1>3, <1>4, <2>1, Unmapped
<1>6. /\ IsFiniteSet(left) /\ pages \in 0..NPages
      /\ SumOf(Pages, left) = SumOf(Pages, areas) - pages
  <2>1. /\ gone = Within(start, end) /\ rest = UNION {Rest(v, start, end) : v \in gone}
        /\ left = (areas \ gone) \cup rest
    OBVIOUS
  <2> HIDE DEF gone, rest, left
  <2> QED  BY <1>2, <1>3, <1>4, <2>1, PagesRemoved
<1> HIDE DEF gone, rest, left, pages
<1>7. what \in CallSet /\ what.pages = pages
  <2>1. FreeFrom(left, start) \in 0..NPages /\ FreeTo(left, start) \in 0..NPages
    BY <1>4, <1>5, LayoutOfAreas, Isolated
  <2> QED  BY <1>4, <1>6, <2>1 DEF CallSet
<1> HIDE DEF what
<1>8. /\ call' \in [Threads -> CallSet]
      /\ SumOf(Owed(pc', call'), Threads) = SumOf(Owed(pc, call), Threads) - 0 + pages
  BY <1>1, <1>7, OwedMoves
<1> DEFINE s == SumOf(Owed(pc, call), Threads)
           p == SumOf(Pages, areas)
<1>9. total_vm = p + s /\ p \in Nat /\ s \in Nat /\ pages \in Int /\ total_vm \in 0..RLIMIT_AS
  BY <1>6, NumbersFit DEF CountsOK
<1>10. /\ SumOf(Owed(pc', call'), Threads) = s - 0 + pages
       /\ SumOf(Pages, areas') = p - pages /\ IsFiniteSet(areas')
  BY <1>1, <1>6, <1>8
<1> HIDE DEF s, p
<1>11. total_vm' \in 0..RLIMIT_AS /\ total_vm' = (p - pages) + (s - 0 + pages)
  BY <1>1, <1>9
<1> QED  BY <1>8, <1>10, <1>11 DEF CountsOK

LEMMA InitCounts ==
  Init => CountsOK
<1> SUFFICES ASSUME Init  PROVE CountsOK
  OBVIOUS
<1>1. /\ areas = {Stack} /\ total_vm = Stack.end - Stack.start
      /\ Stack \in AreaSet /\ Stack.start < Stack.end /\ Stack.start \in Nat /\ Stack.end \in Nat
      /\ Stack.end - Stack.start <= RLIMIT_AS /\ RLIMIT_AS \in Nat
  <2>1. Stack \in AreaSet
    BY StackAssumption DEF AreaSet
  <2> QED  BY <2>1, StackAssumption, AreaFields DEF Init, vma_pages
<1>2. IsFiniteSet(areas) /\ SumOf(Pages, areas) = total_vm
  <2>1. IsFiniteSet({Stack}) /\ {Stack} \ {Stack} = {}
    BY FS_Singleton
  <2>2. Summable(Pages, {Stack}) /\ Pages[Stack] = Stack.end - Stack.start
    BY <1>1, <2>1, PagesOfAreas
  <2>3. SumOf(Pages, {Stack}) = Pages[Stack] + SumOf(Pages, {Stack} \ {Stack})
    BY <2>2, SumWithout
  <2>4. SumOf(Pages, {Stack} \ {Stack}) = 0
    BY <2>1, SumOfNone
  <2> QED  BY <1>1, <2>1, <2>2, <2>3, <2>4
<1>3. call \in [Threads -> CallSet]
  <2>1. 0 \in 0..NPages
    BY RangeAssumption
  <2>2. NoCall \in CallSet
    BY <2>1 DEF NoCall, CallSet
  <2> QED  BY <2>2 DEF Init
<1>4. SumOf(Owed(pc, call), Threads) = 0
  <2> DEFINE g == Owed(pc, call)
  <2>1. \A t \in Threads : g[t] = 0
    BY DEF Init, Owed
  <2> DEFINE h == [s \in SUBSET Threads |-> 0]
  <2>2. IsSum(h, g, Threads)
    <3>1. h \in [SUBSET Threads -> Int] /\ h[{}] = 0
      OBVIOUS
    <3>2. \A s \in SUBSET Threads : \A x \in s : h[s] = g[x] + h[s \ {x}]
      BY <2>1
    <3> HIDE DEF g, h
    <3> QED  BY <3>1, <3>2 DEF IsSum
  <2>3. Summable(g, Threads)
    BY <2>1, StackAssumption DEF Summable
  <2>4. h[Threads] = 0
    OBVIOUS
  <2> HIDE DEF g, h
  <2>5. h[Threads] = SumOf(g, Threads)
    BY <2>2, <2>3, SumIsSumOf
  <2> QED  BY <2>4, <2>5 DEF g
<1> QED  BY <1>1, <1>2, <1>3, <1>4 DEF CountsOK

LEMMA StepCounts ==
  IInv /\ CountsOK /\ [Next]_vars => CountsOK'
<1> SUFFICES ASSUME IInv, CountsOK, [Next]_vars  PROVE CountsOK'
  OBVIOUS
<1>1. ASSUME NEW t \in Threads, Map(t)  PROVE CountsOK'
  BY <1>1, MmapCounts DEF Map
<1>2. ASSUME NEW t \in Threads, Expand(t) \/ Extend(t)  PROVE CountsOK'
  BY <1>2, ExpandCounts
<1>3. ASSUME NEW t \in Threads, MunmapRemove(t)  PROVE CountsOK'
  BY <1>3, MunmapRemoveCounts
<1>4. ASSUME NEW t \in Threads, MunmapReturn(t)  PROVE CountsOK'
  BY <1>4, MunmapReturnCounts
<1>5. ASSUME NEW t \in Threads, Use(t) \/ Unmap(t) \/ ExpandLock(t) \/ ExpandKilled(t) \/ Finish(t)
      PROVE  CountsOK'
  BY <1>5, QuietStepCounts DEF Use, Unmap, Finish
<1>6. ASSUME NEW t \in Threads, InLock(t)  PROVE CountsOK'
  BY <1>2, <1>3, <1>4, <1>6, QuietStepCounts DEF InLock
<1>7. CASE UNCHANGED vars
  BY <1>7 DEF vars, CountsOK
<1> QED  BY <1>1, <1>5, <1>6, <1>7 DEF Next

(* What the counters are, with all that fits together, in every state.      *)
LEMMA Counted ==
  Spec => [](IInv /\ CountsOK)
<1>1. Spec => []CountsOK
  BY InitCounts, StepCounts, Invariant, PTL DEF Spec
<1> QED  BY <1>1, Invariant, PTL

(* total_vm is never less than what is mapped, and munmap() takes off in    *)
(* the end what it is more by, whatever is grown and mapped meanwhile.      *)
THEOREM UsageIsNeverUnderstated ==
  Spec => []UsageNeverUnderstated
<1>1. IInv /\ CountsOK => UsageNeverUnderstated
  <2> SUFFICES ASSUME IInv, CountsOK  PROVE UsageNeverUnderstated
    OBVIOUS
  <2>1. MapThenSumSet(vma_pages, areas) = SumOf(Pages, areas)
    BY NumbersFit, PagesAreSums DEF CountsOK
  <2>2. \A t \in Threads : call[t].pages \in Int
    BY RangeAssumption DEF CountsOK, CallSet
  <2>3. MapThenSumSet(LAMBDA t : IF pc[t] = "unmap_region" THEN call[t].pages ELSE 0, Threads)
          = SumOf(Owed(pc, call), Threads)
    BY <2>2, OwedIsSum
  <2> QED  BY <2>1, <2>3 DEF UsageNeverUnderstated, CountsOK
<1> QED  BY <1>1, Counted, PTL

(* Every variable keeps its type; total_vm stays within its limit.          *)
THEOREM TypeCorrect ==
  Spec => []TypeOK
<1>1. IInv /\ CountsOK => TypeOK
  BY DEF IInv, AreasOK, AreaSet, LockOK, CountsOK, CallSet, TypeOK
<1> QED  BY <1>1, Counted, PTL
=============================================================================
