------------------------ MODULE AddressSpace_proofs ------------------------
(***************************************************************************)
(* Proofs about AddressSpace: that the areas stay apart, that the counters  *)
(* kept by increments stay what counting would give, that what was written  *)
(* can be found, that the calls act on the map of pages as PageMap says,    *)
(* and that the number of areas is limited as it is meant to be, for every  *)
(* address space, every kind of file and every limit.                       *)
(*                                                                         *)
(* Whatever a call does to the areas, it replaces at most three of them by  *)
(* at most two; each of the four counters is a sum over the areas, and      *)
(* changes by what it is of the new ones less what it was of the old.  And  *)
(* it lays one range x over them: every page in x belongs to an area like   *)
(* x, every other page to one of the same file at the same distance, with   *)
(* the anon_vma its pages were written to.                                  *)
(***************************************************************************)
EXTENDS AddressSpace, Sums_proofs

-----------------------------------------------------------------------------
(* Areas and what is summed over them                                       *)

Flags == {"r", "rw", "shared"}
Area  == [start : Nat, end : Nat, flags : Flags, file : Mapped, pgoff : Int, anon : Nat]

One       == [v \in Area |-> 1]
Pages     == [v \in Area |-> v.end - v.start]
Data      == [v \in Area |-> IF v.flags = "rw" THEN v.end - v.start ELSE 0]
UsedBy(f) == [v \in Area |-> IF v.file = f THEN 1 ELSE 0]
Measures  == {One, Pages, Data} \cup {UsedBy(f) : f \in Closers}

DataOf(flags, pages) == IF flags = "rw" THEN pages ELSE 0

Apart(S) == \A u, v \in S : u # v => u.end <= v.start \/ v.end <= u.start
Areas(S) == S \subseteq Area /\ IsFiniteSet(S) /\ (\A v \in S : v.start < v.end) /\ Apart(S)

(* An area keeps away from those of S. *)
Clear(a, S) == \A u \in S : a.end <= u.start \/ u.end <= a.start

(* Of S, some make way for others that fit where they go.                   *)
Exchange(S, old, new, T) ==
  /\ Areas(S) /\ old \subseteq S /\ Areas(new) /\ T = (S \ old) \cup new
  /\ \A a \in new : Clear(a, S \ old)

(* T has k more areas than S, so many more pages and pages of data, and one *)
(* user more of a file.                                                     *)
Gains(S, T, k, pages, data, file) ==
  /\ SumOf(One, T) = SumOf(One, S) + k
  /\ SumOf(Pages, T) = SumOf(Pages, S) + pages
  /\ SumOf(Data, T) = SumOf(Data, S) + data
  /\ \A f \in Closers :
       SumOf(UsedBy(f), T) = SumOf(UsedBy(f), S) + (IF f = file THEN 1 ELSE 0)

Becomes(S, T, k, pages, data, file) == Areas(T) /\ Gains(S, T, k, pages, data, file)

LEMMA AreaFields ==
  ASSUME NEW v \in Area
  PROVE  /\ v.start \in Nat /\ v.end \in Nat /\ v.flags \in Flags /\ v.file \in Mapped
         /\ v.pgoff \in Int /\ v.anon \in Nat
         /\ v = [start |-> v.start, end |-> v.end, flags |-> v.flags, file |-> v.file,
                 pgoff |-> v.pgoff, anon |-> v.anon]
BY DEF Area

LEMMA FilesDiffer ==
  NoFile \notin Closers /\ Special \notin Closers /\ NoFile \in Mapped /\ Special \in Mapped
  /\ Closers \subseteq Mapped /\ "rw" \in Flags /\ "r" \in Flags /\ "shared" \in Flags
BY SpaceAssumption DEF Mapped, Flags

LEMMA MeasuresOf ==
  ASSUME NEW v \in Area
  PROVE  /\ One[v] = 1 /\ Pages[v] = v.end - v.start /\ Data[v] = DataOf(v.flags, v.end - v.start)
         /\ \A f \in Closers : UsedBy(f)[v] = IF v.file = f THEN 1 ELSE 0
         /\ \A g \in Measures : g[v] \in Int
<1>1. /\ One[v] = 1 /\ Pages[v] = v.end - v.start /\ Data[v] = DataOf(v.flags, v.end - v.start)
      /\ \A f \in Closers : UsedBy(f)[v] = IF v.file = f THEN 1 ELSE 0
  BY DEF One, Pages, Data, UsedBy, DataOf
<1>2. v.end - v.start \in Int
  BY AreaFields
<1>3. ASSUME NEW g \in Measures  PROVE g[v] \in Int
  <2>1. CASE g \in {One, Pages, Data}
    <3>1. g[v] = 1 \/ g[v] = v.end - v.start \/ g[v] = 0
      BY <1>1, <2>1 DEF DataOf
    <3> QED  BY <1>2, <3>1
  <2>2. CASE g \in {UsedBy(f) : f \in Closers}
    <3>1. PICK f \in Closers : g = UsedBy(f)
      BY <2>2
    <3>2. g[v] = 1 \/ g[v] = 0
      BY <1>1, <3>1
    <3> QED  BY <3>2
  <2> QED  BY <2>1, <2>2 DEF Measures
<1> QED  BY <1>1, <1>3

LEMMA MeasuresAdd ==
  ASSUME NEW S, S \subseteq Area, IsFiniteSet(S), NEW g \in Measures
  PROVE  Summable(g, S) /\ SumOf(g, S) \in Int
<1>1. \A v \in S : g[v] \in Int
  BY MeasuresOf
<1>2. Summable(g, S)
  BY <1>1 DEF Summable
<1> QED  BY <1>2, SumIsInt

LEMMA FewAdd ==
  ASSUME NEW g \in Measures, NEW a \in Area
  PROVE  /\ SumOf(g, {a}) = g[a]
         /\ \A b \in Area \ {a} : SumOf(g, {a, b}) = g[a] + g[b]
         /\ \A b \in Area \ {a} : \A c \in Area \ {a, b} : SumOf(g, {a, b, c}) = g[a] + g[b] + g[c]
<1>1. \A v \in Area : g[v] \in Int
  BY MeasuresOf
<1>2. SumOf(g, {a}) = g[a]
  BY <1>1, SumOfOne
<1>3. ASSUME NEW b \in Area \ {a}  PROVE SumOf(g, {a, b}) = g[a] + g[b]
  BY <1>1, SumOfTwo
<1>4. ASSUME NEW b \in Area \ {a}, NEW c \in Area \ {a, b}
      PROVE  SumOf(g, {a, b, c}) = g[a] + g[b] + g[c]
  <2> DEFINE two == {a, b}
             T == two \cup {c}
  <2>1. Summable(g, two) /\ SumOf(g, two) = g[a] + g[b] /\ c \notin two /\ g[c] \in Int
    BY <1>1, SumOfTwo
  <2> HIDE DEF two
  <2>2. SumOf(g, T) = g[c] + SumOf(g, two)
    BY <2>1, SumWith
  <2> HIDE DEF T
  <2>3. SumOf(g, T) = g[a] + g[b] + g[c]
    BY <1>1, <2>1, <2>2
  <2>4. T = {a, b, c}
    BY DEF T, two
  <2> QED  BY <2>3, <2>4
<1> QED  BY <1>2, <1>3, <1>4

LEMMA FewAreFinite ==
  /\ IsFiniteSet({}) /\ (\A a : IsFiniteSet({a})) /\ (\A a, b : IsFiniteSet({a, b}))
  /\ \A a, b, c : IsFiniteSet({a, b, c})
<1>1. \A a : IsFiniteSet({a})
  BY FS_Singleton
<1>2. ASSUME NEW a, NEW b  PROVE IsFiniteSet({a, b})
  <2>1. IsFiniteSet({a} \cup {b}) /\ {a} \cup {b} = {a, b}
    BY <1>1, FS_AddElement
  <2> QED  BY <2>1
<1>3. ASSUME NEW a, NEW b, NEW c  PROVE IsFiniteSet({a, b, c})
  <2>1. IsFiniteSet({a, b} \cup {c}) /\ {a, b} \cup {c} = {a, b, c}
    BY <1>2, FS_AddElement
  <2> QED  BY <2>1
<1> QED  BY <1>1, <1>2, <1>3, FS_EmptySet

(* Some areas make way for others that fit where they go.                   *)
LEMMA Exchanged ==
  ASSUME NEW S, NEW old, NEW new, NEW T, Exchange(S, old, new, T)
  PROVE  /\ Areas(T)
         /\ \A g \in Measures : /\ SumOf(g, T) = SumOf(g, S) - SumOf(g, old) + SumOf(g, new)
                                /\ SumOf(g, S) \in Int
<1> DEFINE kept == S \ old
<1> USE DEF Exchange
<1>1. /\ kept \subseteq Area /\ new \subseteq Area /\ IsFiniteSet(kept) /\ IsFiniteSet(new)
      /\ \A v \in kept \cup new : v.start < v.end /\ v.start \in Nat /\ v.end \in Nat
  <2>1. kept \subseteq S /\ IsFiniteSet(S) /\ S \subseteq Area /\ new \subseteq Area
    BY DEF Areas
  <2>2. IsFiniteSet(kept)
    BY <2>1, FS_Subset
  <2>3. \A v \in kept \cup new : v.start < v.end
    BY DEF Areas
  <2>4. \A v \in kept \cup new : v.start \in Nat /\ v.end \in Nat
    BY <2>1, AreaFields
  <2> QED  BY <2>1, <2>2, <2>3, <2>4 DEF Areas
<1>2. new \cap kept = {}
  <2> SUFFICES ASSUME NEW a \in new, a \in kept  PROVE FALSE
    OBVIOUS
  <2>1. a.end <= a.start
    BY DEF Clear
  <2> QED  BY <1>1, <2>1
<1>3. Areas(T)
  <2>1. IsFiniteSet(kept \cup new)
    BY <1>1, FS_Union
  <2>2. Apart(kept \cup new)
    <3> SUFFICES ASSUME NEW u \in kept \cup new, NEW v \in kept \cup new, u # v
                 PROVE  u.end <= v.start \/ v.end <= u.start
      BY DEF Apart
    <3>1. CASE u \in kept /\ v \in kept
      BY <3>1 DEF Areas, Apart
    <3>2. CASE u \in new /\ v \in new
      BY <3>2 DEF Areas, Apart
    <3>3. CASE u \in new /\ v \in kept
      BY <3>3 DEF Clear
    <3>4. CASE u \in kept /\ v \in new
      BY <3>4 DEF Clear
    <3> QED  BY <3>1, <3>2, <3>3, <3>4
  <2> QED  BY <1>1, <2>1, <2>2 DEF Areas
<1>4. ASSUME NEW g \in Measures
      PROVE  /\ SumOf(g, T) = SumOf(g, S) - SumOf(g, old) + SumOf(g, new)
             /\ SumOf(g, S) \in Int
  <2>1. Summable(g, S) /\ SumOf(g, S) \in Int /\ Summable(g, new)
    BY <1>1, MeasuresAdd DEF Areas
  <2>2. SumOf(g, (S \ old) \cup new) = SumOf(g, S) - SumOf(g, old) + SumOf(g, new)
    BY <1>2, <2>1, SumExchanged
  <2> QED  BY <2>1, <2>2
<1> QED  BY <1>3, <1>4

LEMMA OneIsApart ==
  ASSUME NEW a \in Area, a.start < a.end
  PROVE  Areas({a})
BY FewAreFinite DEF Areas, Apart

LEMMA TwoAreApart ==
  ASSUME NEW a \in Area, NEW b \in Area, a.start < a.end, b.start < b.end, a.end <= b.start
  PROVE  Areas({a, b}) /\ a # b
<1>1. a # b
  BY AreaFields
<1> QED  BY <1>1, FewAreFinite DEF Areas, Apart

-----------------------------------------------------------------------------
(* The ways in which areas change                                           *)

(* What one exchange comes to, when old and new have been added up.         *)
LEMMA ExchangeBecomes ==
  ASSUME NEW S, NEW old, NEW new, NEW T, Exchange(S, old, new, T),
         NEW k \in Int, NEW pages \in Int, NEW data \in Int, NEW file,
         Gains(old, new, k, pages, data, file)
  PROVE  Becomes(S, T, k, pages, data, file)
<1>1. /\ Areas(T)
      /\ \A g \in Measures : /\ SumOf(g, T) = SumOf(g, S) - SumOf(g, old) + SumOf(g, new)
                             /\ SumOf(g, S) \in Int
  BY Exchanged
<1>2. One \in Measures /\ Pages \in Measures /\ Data \in Measures /\ \A f \in Closers : UsedBy(f) \in Measures
  BY DEF Measures
<1>3. \A g \in Measures : SumOf(g, old) \in Int
  <2>1. old \subseteq Area /\ IsFiniteSet(old)
    BY FS_Subset DEF Areas, Exchange
  <2> QED  BY <2>1, MeasuresAdd
<1>4. /\ SumOf(One, T) = SumOf(One, S) + k
      /\ SumOf(Pages, T) = SumOf(Pages, S) + pages
      /\ SumOf(Data, T) = SumOf(Data, S) + data
  BY <1>1, <1>2, <1>3 DEF Gains
<1>5. ASSUME NEW f \in Closers
      PROVE  SumOf(UsedBy(f), T) = SumOf(UsedBy(f), S) + (IF f = file THEN 1 ELSE 0)
  <2> DEFINE g == UsedBy(f)
             by == IF f = file THEN 1 ELSE 0
  <2>1. /\ SumOf(g, T) = SumOf(g, S) - SumOf(g, old) + SumOf(g, new)
        /\ SumOf(g, S) \in Int /\ SumOf(g, old) \in Int
    BY <1>1, <1>2, <1>3
  <2>2. SumOf(g, new) = SumOf(g, old) + by /\ by \in Int
    BY DEF Gains
  <2> HIDE DEF g, by
  <2>3. SumOf(g, T) = SumOf(g, S) + by
    BY <2>1, <2>2
  <2> QED  BY <2>3 DEF g, by
<1> QED  BY <1>1, <1>4, <1>5 DEF Becomes, Gains

LEMMA OneAdds ==
  ASSUME NEW a \in Area
  PROVE  /\ SumOf(One, {a}) = 1 /\ SumOf(Pages, {a}) = a.end - a.start
         /\ SumOf(Data, {a}) = DataOf(a.flags, a.end - a.start)
         /\ \A f \in Closers : SumOf(UsedBy(f), {a}) = IF f = a.file THEN 1 ELSE 0
         /\ a.end - a.start \in Int /\ DataOf(a.flags, a.end - a.start) \in Int
<1>1. \A g \in Measures : SumOf(g, {a}) = g[a]
  BY FewAdd
<1>2. One \in Measures /\ Pages \in Measures /\ Data \in Measures /\ \A f \in Closers : UsedBy(f) \in Measures
  BY DEF Measures
<1>3. SumOf(One, {a}) = 1 /\ SumOf(Pages, {a}) = a.end - a.start
      /\ SumOf(Data, {a}) = DataOf(a.flags, a.end - a.start)
  BY <1>1, <1>2, MeasuresOf
<1>4. ASSUME NEW f \in Closers  PROVE SumOf(UsedBy(f), {a}) = IF f = a.file THEN 1 ELSE 0
  <2>1. SumOf(UsedBy(f), {a}) = UsedBy(f)[a] /\ UsedBy(f)[a] = IF a.file = f THEN 1 ELSE 0
    BY <1>1, <1>2, MeasuresOf
  <2> QED  BY <2>1
<1>5. a.end - a.start \in Int
  BY AreaFields
<1>6. DataOf(a.flags, a.end - a.start) \in Int
  BY <1>5 DEF DataOf
<1> QED  BY <1>3, <1>4, <1>5, <1>6

LEMMA Inserted ==
  ASSUME NEW S, Areas(S), NEW a \in Area, a.start < a.end, Clear(a, S)
  PROVE  Becomes(S, S \cup {a}, 1, a.end - a.start, DataOf(a.flags, a.end - a.start), a.file)
<1> DEFINE len == a.end - a.start
           data == DataOf(a.flags, len)
<1>1. Exchange(S, {}, {a}, S \cup {a})
  <2>1. S \ {} = S
    OBVIOUS
  <2> QED  BY <2>1, OneIsApart DEF Exchange
<1>2. len \in Int /\ data \in Int
  BY AreaFields DEF DataOf
<1>3. /\ SumOf(One, {a}) = 1 /\ SumOf(Pages, {a}) = len /\ SumOf(Data, {a}) = data
      /\ \A f \in Closers : SumOf(UsedBy(f), {a}) = IF f = a.file THEN 1 ELSE 0
  BY OneAdds
<1>4. \A g : SumOf(g, {}) = 0
  BY SumOfNone
<1> HIDE DEF len, data
<1>5. Gains({}, {a}, 1, len, data, a.file)
  <2>1. ASSUME NEW f \in Closers
        PROVE  SumOf(UsedBy(f), {a}) = SumOf(UsedBy(f), {}) + (IF f = a.file THEN 1 ELSE 0)
    <3>1. SumOf(UsedBy(f), {a}) = IF f = a.file THEN 1 ELSE 0
      BY <1>3
    <3>2. SumOf(UsedBy(f), {}) = 0
      BY <1>4
    <3> QED  BY <3>1, <3>2
  <2>2. SumOf(One, {a}) = SumOf(One, {}) + 1 /\ SumOf(Pages, {a}) = SumOf(Pages, {}) + len
        /\ SumOf(Data, {a}) = SumOf(Data, {}) + data
    BY <1>2, <1>3, <1>4
  <2> QED  BY <2>1, <2>2 DEF Gains
<1>6. Becomes(S, S \cup {a}, 1, len, data, a.file)
  BY <1>1, <1>2, <1>5, ExchangeBecomes
<1> QED  BY <1>6 DEF len, data

LEMMA Altered ==
  ASSUME NEW S, Areas(S), NEW v \in S, NEW a \in Area, a.start < a.end, Clear(a, S \ {v}),
         a.file = v.file
  PROVE  Becomes(S, (S \ {v}) \cup {a}, 0, (a.end - a.start) - (v.end - v.start),
                 DataOf(a.flags, a.end - a.start) - DataOf(v.flags, v.end - v.start), NoFile)
<1> DEFINE la == a.end - a.start
           lv == v.end - v.start
           da == DataOf(a.flags, la)
           dv == DataOf(v.flags, lv)
<1>1. Exchange(S, {v}, {a}, (S \ {v}) \cup {a}) /\ v \in Area
  BY OneIsApart DEF Areas, Exchange
<1>2. /\ SumOf(One, {a}) = 1 /\ SumOf(One, {v}) = 1 /\ SumOf(Pages, {a}) = la /\ SumOf(Pages, {v}) = lv
      /\ SumOf(Data, {a}) = da /\ SumOf(Data, {v}) = dv
      /\ la \in Int /\ da \in Int /\ lv \in Int /\ dv \in Int
  BY <1>1, OneAdds
<1>3. ASSUME NEW f \in Closers
      PROVE  SumOf(UsedBy(f), {a}) = SumOf(UsedBy(f), {v}) + (IF f = NoFile THEN 1 ELSE 0)
  <2>1. /\ SumOf(UsedBy(f), {a}) = IF f = a.file THEN 1 ELSE 0
        /\ SumOf(UsedBy(f), {v}) = IF f = v.file THEN 1 ELSE 0
        /\ f # NoFile
    BY <1>1, OneAdds, FilesDiffer
  <2> QED  BY <2>1
<1> HIDE DEF la, lv, da, dv
<1>4. Gains({v}, {a}, 0, la - lv, da - dv, NoFile) /\ la - lv \in Int /\ da - dv \in Int
  <2>1. /\ SumOf(One, {a}) = SumOf(One, {v}) + 0 /\ SumOf(Pages, {a}) = SumOf(Pages, {v}) + (la - lv)
        /\ SumOf(Data, {a}) = SumOf(Data, {v}) + (da - dv) /\ la - lv \in Int /\ da - dv \in Int
    BY <1>2
  <2> QED  BY <1>3, <2>1 DEF Gains
<1>5. Becomes(S, (S \ {v}) \cup {a}, 0, la - lv, da - dv, NoFile)
  BY <1>1, <1>4, ExchangeBecomes
<1> QED  BY <1>5 DEF la, lv, da, dv

LEMMA TwoAdd ==
  ASSUME NEW a \in Area, NEW b \in Area, a # b
  PROVE  /\ SumOf(One, {a, b}) = 2
         /\ SumOf(Pages, {a, b}) = (a.end - a.start) + (b.end - b.start)
         /\ SumOf(Data, {a, b}) = DataOf(a.flags, a.end - a.start) + DataOf(b.flags, b.end - b.start)
         /\ \A f \in Closers : SumOf(UsedBy(f), {a, b}) = (IF f = a.file THEN 1 ELSE 0)
                                                          + (IF f = b.file THEN 1 ELSE 0)
<1>1. \A g \in Measures : SumOf(g, {a, b}) = g[a] + g[b] /\ SumOf(g, {a}) = g[a] /\ SumOf(g, {b}) = g[b]
  BY FewAdd
<1>2. One \in Measures /\ Pages \in Measures /\ Data \in Measures /\ \A f \in Closers : UsedBy(f) \in Measures
  BY DEF Measures
<1>3. \A g \in Measures : SumOf(g, {a, b}) = SumOf(g, {a}) + SumOf(g, {b})
  BY <1>1
<1>4. SumOf(One, {a, b}) = 2
  <2>1. SumOf(One, {a, b}) = One[a] + One[b]
    BY <1>1, <1>2
  <2>2. One[a] = 1 /\ One[b] = 1
    BY MeasuresOf
  <2> QED  BY <2>1, <2>2
<1>5. SumOf(Pages, {a, b}) = (a.end - a.start) + (b.end - b.start)
  <2>1. SumOf(Pages, {a, b}) = Pages[a] + Pages[b]
    BY <1>1, <1>2
  <2>2. Pages[a] = a.end - a.start /\ Pages[b] = b.end - b.start
    BY MeasuresOf
  <2> QED  BY <2>1, <2>2
<1>6. SumOf(Data, {a, b}) = DataOf(a.flags, a.end - a.start) + DataOf(b.flags, b.end - b.start)
  <2>1. SumOf(Data, {a, b}) = Data[a] + Data[b]
    BY <1>1, <1>2
  <2>2. /\ Data[a] = DataOf(a.flags, a.end - a.start)
        /\ Data[b] = DataOf(b.flags, b.end - b.start)
    BY MeasuresOf
  <2> QED  BY <2>1, <2>2
<1>7. ASSUME NEW f \in Closers
      PROVE  SumOf(UsedBy(f), {a, b}) = (IF f = a.file THEN 1 ELSE 0) + (IF f = b.file THEN 1 ELSE 0)
  <2>1. SumOf(UsedBy(f), {a, b}) = SumOf(UsedBy(f), {a}) + SumOf(UsedBy(f), {b})
    BY <1>2, <1>3
  <2>2. /\ SumOf(UsedBy(f), {a}) = (IF f = a.file THEN 1 ELSE 0)
        /\ SumOf(UsedBy(f), {b}) = (IF f = b.file THEN 1 ELSE 0)
    BY OneAdds
  <2> QED  BY <2>1, <2>2
<1> QED  BY <1>4, <1>5, <1>6, <1>7

LEMMA DataAdds ==
  ASSUME NEW flags, NEW m \in Int, NEW n \in Int
  PROVE  /\ DataOf(flags, m) \in Int /\ DataOf(flags, m + n) = DataOf(flags, m) + DataOf(flags, n)
         /\ DataOf(flags, m - n) = DataOf(flags, m) - DataOf(flags, n)
         /\ DataOf(flags, 0) = 0
BY DEF DataOf

(* One area becomes two.                                                    *)
LEMMA Split ==
  ASSUME NEW S, Areas(S), NEW v \in S, NEW a \in Area, NEW b \in Area,
         v.start = a.start, a.start < a.end, a.end = b.start, b.start < b.end, b.end = v.end,
         a.flags = v.flags, b.flags = v.flags, a.file = v.file, b.file = v.file
  PROVE  Becomes(S, (S \ {v}) \cup {a, b}, 1, 0, 0, v.file)
<1>1. /\ v \in Area /\ v.start \in Nat /\ v.end \in Nat /\ a.end \in Nat
      /\ v.start < a.end /\ a.end < v.end
  BY AreaFields DEF Areas
<1>2. Areas({a, b}) /\ a # b
  BY <1>1, TwoAreApart
<1>3. \A u \in S \ {v} : u.start \in Nat /\ u.end \in Nat /\ (u.end <= v.start \/ v.end <= u.start)
  BY AreaFields DEF Areas, Apart
<1>4. Exchange(S, {v}, {a, b}, (S \ {v}) \cup {a, b})
  <2>1. Clear(a, S \ {v}) /\ Clear(b, S \ {v})
    BY <1>1, <1>3 DEF Clear
  <2> QED  BY <1>2, <2>1 DEF Exchange
<1> DEFINE la == a.end - a.start
           lb == b.end - b.start
           lv == v.end - v.start
<1>5. la \in Int /\ lb \in Int /\ la + lb = lv
  BY <1>1, AreaFields
<1>6. DataOf(v.flags, lv) = DataOf(v.flags, la) + DataOf(v.flags, lb)
  <2> HIDE DEF la, lb, lv
  <2> QED  BY <1>5, DataAdds
<1>7. Gains({v}, {a, b}, 1, 0, 0, v.file)
  <2>1. /\ SumOf(One, {a, b}) = 2 /\ SumOf(One, {v}) = 1
        /\ SumOf(Pages, {a, b}) = la + lb /\ SumOf(Pages, {v}) = lv
        /\ SumOf(Data, {a, b}) = DataOf(v.flags, la) + DataOf(v.flags, lb)
        /\ SumOf(Data, {v}) = DataOf(v.flags, lv) /\ DataOf(v.flags, lv) \in Int
    <3>1. /\ SumOf(One, {a, b}) = 2 /\ SumOf(Pages, {a, b}) = la + lb
          /\ SumOf(Data, {a, b}) = DataOf(a.flags, la) + DataOf(b.flags, lb)
      BY <1>2, TwoAdd, Zenon
    <3>2. SumOf(Data, {a, b}) = DataOf(v.flags, la) + DataOf(v.flags, lb)
      <4> HIDE DEF la, lb
      <4> QED  BY <3>1
    <3>3. /\ SumOf(One, {v}) = 1 /\ SumOf(Pages, {v}) = lv
          /\ SumOf(Data, {v}) = DataOf(v.flags, lv) /\ DataOf(v.flags, lv) \in Int
      BY <1>1, OneAdds
    <3> QED  BY <3>1, <3>2, <3>3
  <2>2. ASSUME NEW f \in Closers
        PROVE  SumOf(UsedBy(f), {a, b}) = SumOf(UsedBy(f), {v}) + (IF f = v.file THEN 1 ELSE 0)
    <3>1. /\ SumOf(UsedBy(f), {a, b}) = (IF f = v.file THEN 1 ELSE 0) + (IF f = v.file THEN 1 ELSE 0)
          /\ SumOf(UsedBy(f), {v}) = IF f = v.file THEN 1 ELSE 0
      <4>1. SumOf(UsedBy(f), {a, b}) = (IF f = a.file THEN 1 ELSE 0) + (IF f = b.file THEN 1 ELSE 0)
        BY <1>2, TwoAdd
      <4>2. SumOf(UsedBy(f), {v}) = IF f = v.file THEN 1 ELSE 0
        BY <1>1, OneAdds
      <4> QED  BY <4>1, <4>2
    <3> QED  BY <3>1
  <2> HIDE DEF la, lb, lv
  <2>3. /\ SumOf(One, {a, b}) = SumOf(One, {v}) + 1 /\ SumOf(Pages, {a, b}) = SumOf(Pages, {v}) + 0
        /\ SumOf(Data, {a, b}) = SumOf(Data, {v}) + 0
    BY <1>5, <1>6, <2>1
  <2> QED  BY <2>2, <2>3 DEF Gains
<1> QED  BY <1>4, <1>7, ExchangeBecomes

(* Two areas become one.                                                    *)
LEMMA Joined ==
  ASSUME NEW S, Areas(S), NEW v \in S, NEW w \in S, v # w, NEW a \in Area, a.start < a.end,
         Clear(a, S \ {v, w}), a.file = v.file, a.file = w.file, a.file \notin Closers
  PROVE  Becomes(S, (S \ {v, w}) \cup {a}, -1,
                 (a.end - a.start) - (v.end - v.start) - (w.end - w.start),
                 DataOf(a.flags, a.end - a.start) - DataOf(v.flags, v.end - v.start)
                   - DataOf(w.flags, w.end - w.start), NoFile)
<1>1. v \in Area /\ w \in Area
  BY DEF Areas
<1>2. Exchange(S, {v, w}, {a}, (S \ {v, w}) \cup {a})
  BY OneIsApart DEF Exchange
<1> DEFINE la == a.end - a.start
           lv == v.end - v.start
           lw == w.end - w.start
           da == DataOf(a.flags, la)
           dv == DataOf(v.flags, lv)
           dw == DataOf(w.flags, lw)
<1>3. /\ SumOf(One, {v, w}) = 2 /\ SumOf(One, {a}) = 1
      /\ SumOf(Pages, {v, w}) = lv + lw /\ SumOf(Pages, {a}) = la
      /\ SumOf(Data, {v, w}) = dv + dw /\ SumOf(Data, {a}) = da
  BY <1>1, TwoAdd, OneAdds
<1>4. la \in Int /\ lv \in Int /\ lw \in Int /\ da \in Int /\ dv \in Int /\ dw \in Int
  BY <1>1, OneAdds
<1>5. ASSUME NEW f \in Closers
      PROVE  SumOf(UsedBy(f), {a}) = SumOf(UsedBy(f), {v, w}) + (IF f = NoFile THEN 1 ELSE 0)
  <2>1. f # NoFile /\ f # a.file
    BY FilesDiffer
  <2>2. SumOf(UsedBy(f), {v, w}) = 0 + 0
    <3>1. SumOf(UsedBy(f), {v, w}) = (IF f = v.file THEN 1 ELSE 0) + (IF f = w.file THEN 1 ELSE 0)
      BY <1>1, TwoAdd
    <3> QED  BY <2>1, <3>1
  <2>3. SumOf(UsedBy(f), {a}) = 0
    BY <2>1, OneAdds
  <2> QED  BY <2>1, <2>2, <2>3
<1> HIDE DEF la, lv, lw, da, dv, dw
<1>6. Gains({v, w}, {a}, -1, la - lv - lw, da - dv - dw, NoFile)
  <2>1. /\ SumOf(One, {a}) = SumOf(One, {v, w}) + (-1)
        /\ SumOf(Pages, {a}) = SumOf(Pages, {v, w}) + (la - lv - lw)
        /\ SumOf(Data, {a}) = SumOf(Data, {v, w}) + (da - dv - dw)
    BY <1>3, <1>4
  <2> QED  BY <1>5, <2>1 DEF Gains
<1>7. la - lv - lw \in Int /\ da - dv - dw \in Int
  BY <1>4
<1>8. Becomes(S, (S \ {v, w}) \cup {a}, -1, la - lv - lw, da - dv - dw, NoFile)
  BY <1>2, <1>6, <1>7, ExchangeBecomes
<1> QED  BY <1>8 DEF la, lv, lw, da, dv, dw

(* Of two areas, one gives pages to the other.                              *)
LEMMA Shifted ==
  ASSUME NEW S, Areas(S), NEW v \in S, NEW w \in S, v # w, NEW a \in Area, NEW b \in Area,
         a.start < a.end, b.start < b.end, a.end <= b.start,
         Clear(a, S \ {v, w}), Clear(b, S \ {v, w}), a.file = v.file, b.file = w.file
  PROVE  Becomes(S, (S \ {v, w}) \cup {a, b}, 0,
                 (a.end - a.start) + (b.end - b.start) - (v.end - v.start) - (w.end - w.start),
                 DataOf(a.flags, a.end - a.start) + DataOf(b.flags, b.end - b.start)
                   - DataOf(v.flags, v.end - v.start) - DataOf(w.flags, w.end - w.start), NoFile)
<1>1. v \in Area /\ w \in Area
  BY DEF Areas
<1>2. Areas({a, b}) /\ a # b
  BY TwoAreApart
<1>3. Exchange(S, {v, w}, {a, b}, (S \ {v, w}) \cup {a, b})
  BY <1>2 DEF Exchange
<1> DEFINE la == a.end - a.start
           lb == b.end - b.start
           lv == v.end - v.start
           lw == w.end - w.start
           da == DataOf(a.flags, la)
           db == DataOf(b.flags, lb)
           dv == DataOf(v.flags, lv)
           dw == DataOf(w.flags, lw)
<1>4. /\ SumOf(One, {v, w}) = 2 /\ SumOf(One, {a, b}) = 2
      /\ SumOf(Pages, {v, w}) = lv + lw /\ SumOf(Pages, {a, b}) = la + lb
      /\ SumOf(Data, {v, w}) = dv + dw /\ SumOf(Data, {a, b}) = da + db
  BY <1>1, <1>2, TwoAdd, Zenon
<1>5. la \in Int /\ lb \in Int /\ lv \in Int /\ lw \in Int
      /\ da \in Int /\ db \in Int /\ dv \in Int /\ dw \in Int
  <2>1. la \in Int /\ da \in Int
    BY OneAdds
  <2>2. lb \in Int /\ db \in Int
    BY OneAdds
  <2>3. lv \in Int /\ dv \in Int
    BY <1>1, OneAdds
  <2>4. lw \in Int /\ dw \in Int
    BY <1>1, OneAdds
  <2> QED  BY <2>1, <2>2, <2>3, <2>4
<1>6. ASSUME NEW f \in Closers
      PROVE  SumOf(UsedBy(f), {a, b}) = SumOf(UsedBy(f), {v, w}) + (IF f = NoFile THEN 1 ELSE 0)
  <2>1. f # NoFile
    BY FilesDiffer
  <2>2. SumOf(UsedBy(f), {v, w}) = (IF f = v.file THEN 1 ELSE 0) + (IF f = w.file THEN 1 ELSE 0)
    BY <1>1, TwoAdd
  <2>3. SumOf(UsedBy(f), {a, b}) = (IF f = v.file THEN 1 ELSE 0) + (IF f = w.file THEN 1 ELSE 0)
    BY <1>2, TwoAdd
  <2> QED  BY <2>1, <2>2, <2>3
<1> HIDE DEF la, lb, lv, lw, da, db, dv, dw
<1>7. Gains({v, w}, {a, b}, 0, la + lb - lv - lw, da + db - dv - dw, NoFile)
  <2>1. /\ SumOf(One, {a, b}) = SumOf(One, {v, w}) + 0
        /\ SumOf(Pages, {a, b}) = SumOf(Pages, {v, w}) + (la + lb - lv - lw)
        /\ SumOf(Data, {a, b}) = SumOf(Data, {v, w}) + (da + db - dv - dw)
    BY <1>4, <1>5
  <2> QED  BY <1>6, <2>1 DEF Gains
<1>8. la + lb - lv - lw \in Int /\ da + db - dv - dw \in Int
  BY <1>5
<1>9. Becomes(S, (S \ {v, w}) \cup {a, b}, 0, la + lb - lv - lw, da + db - dv - dw, NoFile)
  BY <1>3, <1>7, <1>8, ExchangeBecomes
<1> QED  BY <1>9 DEF la, lb, lv, lw, da, db, dv, dw

(* One exchange after another.                                              *)
LEMMA ThenBecomes ==
  ASSUME NEW S, Areas(S), NEW T, NEW U,
         NEW k \in Int, NEW pages \in Int, NEW data \in Int, NEW file,
         NEW k2 \in Int, NEW pages2 \in Int, NEW data2 \in Int,
         Becomes(S, T, k, pages, data, file), Becomes(T, U, k2, pages2, data2, NoFile)
  PROVE  Becomes(S, U, k + k2, pages + pages2, data + data2, file)
<1>1. \A g \in Measures : SumOf(g, S) \in Int
  BY MeasuresAdd DEF Areas
<1>2. One \in Measures /\ Pages \in Measures /\ Data \in Measures /\ \A f \in Closers : UsedBy(f) \in Measures
  BY DEF Measures
<1>3. /\ SumOf(One, U) = SumOf(One, S) + (k + k2)
      /\ SumOf(Pages, U) = SumOf(Pages, S) + (pages + pages2)
      /\ SumOf(Data, U) = SumOf(Data, S) + (data + data2)
  BY <1>1, <1>2 DEF Becomes, Gains
<1>4. ASSUME NEW f \in Closers
      PROVE  SumOf(UsedBy(f), U) = SumOf(UsedBy(f), S) + (IF f = file THEN 1 ELSE 0)
  <2>1. /\ SumOf(UsedBy(f), U) = SumOf(UsedBy(f), T) + (IF f = NoFile THEN 1 ELSE 0)
        /\ SumOf(UsedBy(f), T) = SumOf(UsedBy(f), S) + (IF f = file THEN 1 ELSE 0)
    BY DEF Becomes, Gains
  <2>2. f # NoFile /\ SumOf(UsedBy(f), S) \in Int
    BY <1>1, <1>2, FilesDiffer
  <2> QED  BY <2>1, <2>2
<1> QED  BY <1>3, <1>4 DEF Becomes, Gains

-----------------------------------------------------------------------------
(* Spaces whose counters are right, but for pages that are not accounted for *)
(* yet                                                                      *)

Space(m) == m = [areas |-> m.areas, map_count |-> m.map_count, total_vm |-> m.total_vm,
                 data_vm |-> m.data_vm, users |-> m.users, anon_page |-> m.anon_page]

Kept(m, pages, data) ==
  /\ Space(m) /\ Areas(m.areas) /\ m.users \in [Closers -> Int]
  /\ m.total_vm \in Int /\ m.data_vm \in Int
  /\ m.map_count = SumOf(One, m.areas)
  /\ m.total_vm + pages = SumOf(Pages, m.areas)
  /\ m.data_vm + data = SumOf(Data, m.areas)
  /\ \A f \in Closers : m.users[f] = SumOf(UsedBy(f), m.areas)

LEMMA SumsOfAreas ==
  ASSUME NEW S, Areas(S)
  PROVE  /\ SumOf(One, S) \in Int /\ SumOf(Pages, S) \in Int /\ SumOf(Data, S) \in Int
         /\ \A f \in Closers : SumOf(UsedBy(f), S) \in Int
<1>1. \A g \in Measures : SumOf(g, S) \in Int
  BY MeasuresAdd DEF Areas
<1> QED  BY <1>1 DEF Measures

(* Of w, the areas are others than of m, and counted; their pages are not.  *)
Counted(m, w, k, pages, data, file) ==
  /\ Space(w) /\ Becomes(m.areas, w.areas, k, pages, data, file)
  /\ w.map_count = m.map_count + k /\ w.users = Used(m.users, file, 1)
  /\ w.total_vm = m.total_vm /\ w.data_vm = m.data_vm

LEMMA KeptBy ==
  ASSUME NEW m, NEW p \in Int, NEW d \in Int, Kept(m, p, d), NEW w,
         NEW k \in Int, NEW pages \in Int, NEW data \in Int, NEW file,
         Counted(m, w, k, pages, data, file)
  PROVE  Kept(w, p + pages, d + data)
<1> USE DEF Counted
<1>1. Areas(w.areas) /\ Areas(m.areas)
  BY DEF Becomes, Kept
<1>2. /\ w.map_count = SumOf(One, w.areas) /\ w.total_vm \in Int /\ w.data_vm \in Int
      /\ w.total_vm + (p + pages) = SumOf(Pages, w.areas)
      /\ w.data_vm + (d + data) = SumOf(Data, w.areas)
  BY <1>1, SumsOfAreas DEF Becomes, Gains, Kept
<1>3. m.users \in [Closers -> Int]
  BY DEF Kept
<1>4. w.users \in [Closers -> Int] /\ \A f \in Closers : w.users[f] = m.users[f] + IF f = file THEN 1 ELSE 0
  <2>1. CASE file \in Closers
    <3>1. w.users = [m.users EXCEPT ![file] = @ + 1]
      BY <2>1 DEF Used
    <3> QED  BY <1>3, <2>1, <3>1
  <2>2. CASE file \notin Closers
    <3>1. w.users = m.users
      BY <2>2 DEF Used
    <3> QED  BY <1>3, <2>2, <3>1
  <2> QED  BY <2>1, <2>2
<1>5. ASSUME NEW f \in Closers  PROVE w.users[f] = SumOf(UsedBy(f), w.areas)
  <2>1. /\ w.users[f] = m.users[f] + IF f = file THEN 1 ELSE 0
        /\ m.users[f] = SumOf(UsedBy(f), m.areas)
        /\ SumOf(UsedBy(f), w.areas) = SumOf(UsedBy(f), m.areas) + IF f = file THEN 1 ELSE 0
    BY <1>4 DEF Kept, Becomes, Gains
  <2> QED  BY <2>1
<1> QED  BY <1>1, <1>2, <1>4, <1>5 DEF Kept

LEMMA Accounted ==
  ASSUME NEW m, NEW p \in Int, NEW d \in Int, Kept(m, p, d), NEW flags, NEW pages \in Int
  PROVE  Kept(Account(m, flags, pages), p - pages, d - DataOf(flags, pages))
<1> DEFINE w == Account(m, flags, pages)
           data == IF flags = "rw" THEN pages ELSE 0
<1>1. /\ Space(w) /\ w.areas = m.areas /\ w.map_count = m.map_count /\ w.users = m.users
      /\ w.total_vm = m.total_vm + pages /\ w.data_vm = m.data_vm + data
  <2> DEFINE t == m.total_vm + pages
             e == m.data_vm + data
  <2>1. Space(m)
    BY DEF Kept
  <2>2. w = [m EXCEPT !.total_vm = t, !.data_vm = e]
    BY DEF Account
  <2> HIDE DEF w, t, e
  <2>3. /\ Space(w) /\ w.areas = m.areas /\ w.map_count = m.map_count /\ w.users = m.users
        /\ w.total_vm = t /\ w.data_vm = e
    BY ONLY <2>1, <2>2 DEF Space
  <2> QED  BY <2>3 DEF t, e
<1>2. data = DataOf(flags, pages) /\ data \in Int
  BY DEF DataOf
<1> HIDE DEF w, data
<1>3. Areas(m.areas)
  BY DEF Kept
<1>4. /\ w.total_vm \in Int /\ w.data_vm \in Int
      /\ w.total_vm + (p - pages) = SumOf(Pages, w.areas)
      /\ w.data_vm + (d - data) = SumOf(Data, w.areas)
  BY <1>1, <1>2, <1>3, SumsOfAreas DEF Kept
<1>5. Kept(w, p - pages, d - data)
  BY <1>1, <1>4 DEF Kept
<1> QED  BY <1>2, <1>5 DEF w

LEMMA SingleArea ==
  ASSUME NEW S, Areas(S)
  PROVE  /\ \A addr \in Nat : \A u, v \in {x \in S : x.start < addr /\ addr < x.end} : u = v
         /\ \A addr \in Nat : \A u, v \in vma_lookup(S, addr) : u = v
         /\ \A addr \in Nat : \A u, v \in vma_prev(S, addr) : u = v
         /\ \A v \in S : v \in Area /\ v.start \in Nat /\ v.end \in Nat /\ v.start < v.end
<1>1. \A v \in S : v \in Area /\ v.start \in Nat /\ v.end \in Nat /\ v.start < v.end
  BY AreaFields DEF Areas
<1>2. \A u, v \in S : u = v \/ u.end <= v.start \/ v.end <= u.start
  BY DEF Areas, Apart
<1>3. \A addr \in Nat : \A u, v \in {x \in S : x.start < addr /\ addr < x.end} : u = v
  BY <1>1, <1>2
<1>4. \A addr \in Nat : \A u, v \in vma_lookup(S, addr) : u = v
  BY <1>1, <1>2 DEF vma_lookup
<1>5. \A addr \in Nat : \A u, v \in vma_prev(S, addr) : u = v
  BY <1>1, <1>2 DEF vma_prev
<1> QED  BY <1>1, <1>3, <1>4, <1>5

(* What SplitAt() makes of the area around an address.                      *)
Left(v, addr)  == [v EXCEPT !.end = addr]
Right(v, addr) == [v EXCEPT !.start = addr, !.pgoff = @ + (addr - v.start)]

LEMMA LeftAndRight ==
  ASSUME NEW v \in Area, NEW addr \in Nat
  PROVE  /\ Left(v, addr) \in Area /\ Right(v, addr) \in Area
         /\ Left(v, addr).start = v.start /\ Left(v, addr).end = addr
         /\ Left(v, addr).flags = v.flags /\ Left(v, addr).file = v.file
         /\ Right(v, addr).start = addr /\ Right(v, addr).end = v.end
         /\ Right(v, addr).flags = v.flags /\ Right(v, addr).file = v.file
         /\ Left(v, addr).pgoff = v.pgoff /\ Left(v, addr).anon = v.anon
         /\ Right(v, addr).pgoff = v.pgoff + (addr - v.start) /\ Right(v, addr).anon = v.anon
<1> DEFINE off == v.pgoff + (addr - v.start)
<1>1. off \in Int
  BY AreaFields
<1>2. Left(v, addr) = [start |-> v.start, end |-> addr, flags |-> v.flags, file |-> v.file,
                       pgoff |-> v.pgoff, anon |-> v.anon]
  BY AreaFields DEF Left
<1>3. Right(v, addr) = [start |-> addr, end |-> v.end, flags |-> v.flags, file |-> v.file,
                        pgoff |-> off, anon |-> v.anon]
  <2>1. Right(v, addr) = [v EXCEPT !.start = addr, !.pgoff = off]
    BY DEF Right
  <2> HIDE DEF off
  <2> QED  BY <2>1, AreaFields
<1> HIDE DEF off
<1>4. off = v.pgoff + (addr - v.start)
  BY DEF off
<1>5. Right(v, addr).pgoff = off
  BY <1>3
<1> QED  BY <1>1, <1>2, <1>3, <1>4, <1>5, AreaFields DEF Area

LEMMA SplitAtKeeps ==
  ASSUME NEW m, NEW p \in Int, NEW d \in Int, Kept(m, p, d), NEW addr \in Nat
  PROVE  /\ Kept(SplitAt(m, addr), p, d)
         /\ SplitAt(m, addr).total_vm = m.total_vm /\ SplitAt(m, addr).data_vm = m.data_vm
         /\ SplitAt(m, addr).anon_page = m.anon_page
         /\ \/ SplitAt(m, addr) = m /\ \A v \in m.areas : ~(v.start < addr /\ addr < v.end)
            \/ \E v \in m.areas :
                 /\ v.start < addr /\ addr < v.end
                 /\ SplitAt(m, addr).areas = (m.areas \ {v}) \cup {Left(v, addr), Right(v, addr)}
                 /\ SplitAt(m, addr).map_count = m.map_count + 1
<1> DEFINE around == {v \in m.areas : v.start < addr /\ addr < v.end}
<1>1. CASE around = {}
  <2>1. SplitAt(m, addr) = m
    BY <1>1 DEF SplitAt
  <2> QED  BY <1>1, <2>1
<1>2. CASE around # {}
  <2>1. PICK v \in around : around = {v}
    BY <1>2, SingleArea DEF Kept
  <2> DEFINE w == SplitAt(m, addr)
             T == (m.areas \ {v}) \cup {Left(v, addr), Right(v, addr)}
  <2>2. The(around) = v
    BY <2>1 DEF The
  <2>3. w = [m EXCEPT !.areas = T, !.map_count = @ + 1, !.users = Used(@, v.file, 1)]
    BY <1>2, <2>1, <2>2, Zenon DEF SplitAt, Left, Right
  <2>4. /\ v \in m.areas /\ v \in Area /\ v.start < addr /\ addr < v.end
        /\ v.start \in Nat /\ v.end \in Nat /\ Areas(m.areas)
    BY <2>1, SingleArea DEF Kept
  <2>5. Becomes(m.areas, T, 1, 0, 0, v.file)
    <3> DEFINE a == Left(v, addr)
               b == Right(v, addr)
    <3>1. /\ a \in Area /\ b \in Area /\ v.start = a.start /\ a.start < a.end /\ a.end = b.start
          /\ b.start < b.end /\ b.end = v.end /\ a.flags = v.flags /\ b.flags = v.flags
          /\ a.file = v.file /\ b.file = v.file
      <4>1. v \in Area
        BY <2>4
      <4>2. /\ a \in Area /\ b \in Area /\ a.start = v.start /\ a.end = addr /\ a.flags = v.flags
            /\ a.file = v.file /\ b.start = addr /\ b.end = v.end /\ b.flags = v.flags
            /\ b.file = v.file
        BY <4>1, LeftAndRight
      <4> HIDE DEF a, b
      <4> QED  BY <2>4, <4>2
    <3> HIDE DEF a, b
    <3>2. Becomes(m.areas, (m.areas \ {v}) \cup {a, b}, 1, 0, 0, v.file)
      BY <2>4, <3>1, Split
    <3> QED  BY <3>2 DEF a, b
  <2> HIDE DEF T, w
  <2>6. /\ Space(w) /\ w.areas = T /\ w.map_count = m.map_count + 1
        /\ w.users = Used(m.users, v.file, 1) /\ w.total_vm = m.total_vm /\ w.data_vm = m.data_vm
        /\ w.anon_page = m.anon_page
    BY <2>3 DEF Kept, Space
  <2>7. Kept(w, p + 0, d + 0)
    <3>1. Counted(m, w, 1, 0, 0, v.file)
      BY <2>5, <2>6 DEF Counted
    <3> QED  BY <3>1, KeptBy
  <2>8. Kept(w, p, d)
    BY <2>7
  <2> QED  BY <2>4, <2>6, <2>8 DEF w, T
<1> QED  BY <1>1, <1>2

-----------------------------------------------------------------------------
(* What the code counts and adds up is the measures.                        *)

LEMMA CountedByMeasures ==
  ASSUME NEW S, Areas(S)
  PROVE  /\ Cardinality(S) = SumOf(One, S)
         /\ \A f \in Closers : Cardinality({v \in S : v.file = f}) = SumOf(UsedBy(f), S)
<1>1. S \subseteq Area /\ IsFiniteSet(S)
  BY DEF Areas
<1>2. \A v \in S : One[v] = 1
  BY <1>1, MeasuresOf
<1>3. Cardinality(S) = SumOf(One, S)
  BY <1>1, <1>2, SumOfOnes
<1>4. ASSUME NEW f \in Closers
      PROVE  Cardinality({v \in S : v.file = f}) = SumOf(UsedBy(f), S)
  <2> DEFINE T == {v \in S : v.file = f}
  <2>1. \A v \in S : UsedBy(f)[v] = IF v.file = f THEN 1 ELSE 0
    BY <1>1, MeasuresOf
  <2>2. T \subseteq S /\ (\A v \in T : UsedBy(f)[v] = 1) /\ \A v \in S \ T : UsedBy(f)[v] = 0
    BY <2>1
  <2> HIDE DEF T
  <2>3. SumOf(UsedBy(f), S) = Cardinality(T)
    BY <1>1, <2>2, SumCounts
  <2> QED  BY <2>3 DEF T
<1> QED  BY <1>3, <1>4

LEMMA PagesAreSums ==
  ASSUME NEW S, Areas(S)
  PROVE  MapThenSumSet(vma_pages, S) = SumOf(Pages, S)
<1> DEFINE fold == CHOOSE f : f = [s \in SUBSET S |->
                     IF s = {} THEN 0
                     ELSE vma_pages(CHOOSE x \in s : TRUE) + f[s \ {CHOOSE x \in s : TRUE}]]
<1>1. MapThenSumSet(vma_pages, S) = fold[S]
  BY DEF MapThenSumSet, MapThenFoldSet
<1>2. Summable(Pages, S) /\ S \subseteq Area
  BY MeasuresAdd DEF Areas, Measures
<1>3. PICK h : IsSum(h, Pages, S)
  BY <1>2, SumExists
<1>4. ASSUME NEW s \in SUBSET S, s # {}
      PROVE  vma_pages(CHOOSE x \in s : TRUE) = Pages[CHOOSE x \in s : TRUE]
  <2>1. (CHOOSE x \in s : TRUE) \in Area
    BY <1>2, <1>4
  <2> QED  BY <2>1 DEF Pages, vma_pages
<1>5. h = [s \in SUBSET S |->
             IF s = {} THEN 0
             ELSE vma_pages(CHOOSE x \in s : TRUE) + h[s \ {CHOOSE x \in s : TRUE}]]
  <2>1. h \in [SUBSET S -> Int]
    BY <1>3 DEF IsSum
  <2>2. IsFold(h, Pages, S)
    BY <1>3, SumIsFold
  <2> QED  BY <1>4, <2>1, <2>2 DEF IsFold
<1>6. fold = [s \in SUBSET S |->
                IF s = {} THEN 0
                ELSE vma_pages(CHOOSE x \in s : TRUE) + fold[s \ {CHOOSE x \in s : TRUE}]]
  BY <1>5
<1> HIDE DEF fold
<1>7. IsFold(fold, Pages, S)
  BY <1>4, <1>6 DEF IsFold
<1> QED  BY <1>1, <1>2, <1>7, FoldIsSumOf

LEMMA DataAreSums ==
  ASSUME NEW S, Areas(S)
  PROVE  MapThenSumSet(DataPages, S) = SumOf(Data, S)
<1> DEFINE fold == CHOOSE f : f = [s \in SUBSET S |->
                     IF s = {} THEN 0
                     ELSE DataPages(CHOOSE x \in s : TRUE) + f[s \ {CHOOSE x \in s : TRUE}]]
<1>1. MapThenSumSet(DataPages, S) = fold[S]
  BY DEF MapThenSumSet, MapThenFoldSet
<1>2. Summable(Data, S) /\ S \subseteq Area
  BY MeasuresAdd DEF Areas, Measures
<1>3. PICK h : IsSum(h, Data, S)
  BY <1>2, SumExists
<1>4. ASSUME NEW s \in SUBSET S, s # {}
      PROVE  DataPages(CHOOSE x \in s : TRUE) = Data[CHOOSE x \in s : TRUE]
  <2>1. (CHOOSE x \in s : TRUE) \in Area
    BY <1>2, <1>4
  <2> QED  BY <2>1 DEF Data, DataPages, vma_pages
<1>5. h = [s \in SUBSET S |->
             IF s = {} THEN 0
             ELSE DataPages(CHOOSE x \in s : TRUE) + h[s \ {CHOOSE x \in s : TRUE}]]
  <2>1. h \in [SUBSET S -> Int]
    BY <1>3 DEF IsSum
  <2>2. IsFold(h, Data, S)
    BY <1>3, SumIsFold
  <2> QED  BY <1>4, <2>1, <2>2 DEF IsFold
<1>6. fold = [s \in SUBSET S |->
                IF s = {} THEN 0
                ELSE DataPages(CHOOSE x \in s : TRUE) + fold[s \ {CHOOSE x \in s : TRUE}]]
  BY <1>5
<1> HIDE DEF fold
<1>7. IsFold(fold, Data, S)
  BY <1>4, <1>6 DEF IsFold
<1> QED  BY <1>1, <1>2, <1>7, FoldIsSumOf

LEMMA SubsetAreas ==
  ASSUME NEW S, Areas(S), NEW T, T \subseteq S
  PROVE  Areas(T)
BY FS_Subset DEF Areas, Apart

LEMMA RemoveKeeps ==
  ASSUME NEW m, NEW p \in Int, NEW d \in Int, Kept(m, p, d), NEW gone, gone \subseteq m.areas
  PROVE  /\ Kept(Remove(m, gone), p, d) /\ Remove(m, gone).areas = m.areas \ gone
         /\ Remove(m, gone).anon_page =
              [q \in Page |-> IF \E v \in gone : q \in PagesOf(v) THEN NoPage ELSE m.anon_page[q]]
<1> DEFINE w    == Remove(m, gone)
           T    == m.areas \ gone
           k    == m.map_count - SumOf(One, gone)
           t    == m.total_vm - SumOf(Pages, gone)
           e    == m.data_vm - SumOf(Data, gone)
           u    == [f \in Closers |-> m.users[f] - SumOf(UsedBy(f), gone)]
           a    == [q \in Page |-> IF \E v \in gone : q \in PagesOf(v) THEN NoPage ELSE m.anon_page[q]]
<1>1. Areas(gone) /\ Areas(T) /\ Areas(m.areas) /\ Space(m)
  BY SubsetAreas DEF Kept
<1>2. w = [m EXCEPT !.areas = T, !.map_count = k, !.total_vm = t, !.data_vm = e, !.users = u,
                    !.anon_page = a]
  <2>1. /\ Cardinality(gone) = SumOf(One, gone) /\ MapThenSumSet(vma_pages, gone) = SumOf(Pages, gone)
        /\ MapThenSumSet(DataPages, gone) = SumOf(Data, gone)
    BY <1>1, CountedByMeasures, PagesAreSums, DataAreSums
  <2>2. u = [f \in Closers |-> m.users[f] - Cardinality({v \in gone : v.file = f})]
    BY <1>1, CountedByMeasures
  <2> HIDE DEF u
  <2> QED  BY <2>1, <2>2, Zenon DEF Remove
<1>3. u \in [Closers -> Int] /\ \A f \in Closers : u[f] = m.users[f] - SumOf(UsedBy(f), gone)
  <2>1. \A f \in Closers : m.users[f] \in Int /\ SumOf(UsedBy(f), gone) \in Int
    BY <1>1, SumsOfAreas DEF Kept
  <2>2. \A f \in Closers : m.users[f] - SumOf(UsedBy(f), gone) \in Int
    BY <2>1
  <2> QED  BY <2>2
<1>4. \A g \in Measures : SumOf(g, T) = SumOf(g, m.areas) - SumOf(g, gone)
  <2>1. Exchange(m.areas, gone, {}, T)
    <3>1. Areas({}) /\ T = (m.areas \ gone) \cup {}
      BY <1>1, SubsetAreas
    <3> QED  BY <1>1, <3>1 DEF Exchange
  <2>2. \A g \in Measures : SumOf(g, T) = SumOf(g, m.areas) - SumOf(g, gone) + SumOf(g, {})
    BY <2>1, Exchanged
  <2>3. \A g \in Measures : SumOf(g, {}) = 0 /\ SumOf(g, m.areas) \in Int /\ SumOf(g, gone) \in Int
    BY <1>1, SumOfNone, MeasuresAdd DEF Areas
  <2> SUFFICES ASSUME NEW g \in Measures
               PROVE  SumOf(g, T) = SumOf(g, m.areas) - SumOf(g, gone)
    OBVIOUS
  <2> HIDE DEF T
  <2>4. /\ SumOf(g, T) = SumOf(g, m.areas) - SumOf(g, gone) + 0
        /\ SumOf(g, m.areas) \in Int /\ SumOf(g, gone) \in Int
    BY <2>2, <2>3
  <2> QED  BY <2>4
<1>5. One \in Measures /\ Pages \in Measures /\ Data \in Measures /\ \A f \in Closers : UsedBy(f) \in Measures
  BY DEF Measures
<1> HIDE DEF w, u, a, T
<1>6. /\ Space(w) /\ w.areas = T /\ w.map_count = k /\ w.total_vm = t /\ w.data_vm = e /\ w.users = u
      /\ w.anon_page = a
  <2> HIDE DEF k, t, e
  <2> QED  BY ONLY <1>1, <1>2 DEF Space
<1>7. /\ w.map_count = SumOf(One, T) /\ w.total_vm \in Int /\ w.total_vm + p = SumOf(Pages, T)
      /\ w.data_vm \in Int /\ w.data_vm + d = SumOf(Data, T)
  <2>1. SumOf(One, T) = SumOf(One, m.areas) - SumOf(One, gone)
    BY <1>4, <1>5
  <2>2. SumOf(Pages, T) = SumOf(Pages, m.areas) - SumOf(Pages, gone)
    BY <1>4, <1>5
  <2>3. SumOf(Data, T) = SumOf(Data, m.areas) - SumOf(Data, gone)
    BY <1>4, <1>5
  <2>4. SumOf(One, gone) \in Int /\ SumOf(Pages, gone) \in Int /\ SumOf(Data, gone) \in Int
    BY <1>1, SumsOfAreas
  <2>5. m.map_count = SumOf(One, m.areas) /\ m.total_vm \in Int /\ m.total_vm + p = SumOf(Pages, m.areas)
        /\ m.data_vm \in Int /\ m.data_vm + d = SumOf(Data, m.areas)
    BY DEF Kept
  <2> QED  BY <1>6, <2>1, <2>2, <2>3, <2>4, <2>5
<1>8. ASSUME NEW f \in Closers  PROVE w.users[f] = SumOf(UsedBy(f), T)
  <2>1. w.users[f] = m.users[f] - SumOf(UsedBy(f), gone) /\ m.users[f] = SumOf(UsedBy(f), m.areas)
    BY <1>3, <1>6 DEF Kept
  <2>2. SumOf(UsedBy(f), T) = SumOf(UsedBy(f), m.areas) - SumOf(UsedBy(f), gone)
    BY <1>4, <1>5
  <2> QED  BY <2>1, <2>2
<1>9. Kept(w, p, d)
  BY <1>1, <1>3, <1>6, <1>7, <1>8 DEF Kept
<1> QED  BY <1>6, <1>9 DEF w, T, a

-----------------------------------------------------------------------------
(* Areas with other ends                                                    *)

LEMMA OtherEnd ==
  ASSUME NEW v \in Area, NEW e \in Nat, NEW a, a = [v EXCEPT !.end = e]
  PROVE  /\ a \in Area /\ a.start = v.start /\ a.end = e /\ a.flags = v.flags /\ a.file = v.file
         /\ a.pgoff = v.pgoff /\ a.anon = v.anon
BY DEF Area

Started(v, s, off)   == [v EXCEPT !.start = s, !.pgoff = off]
PlacedAt(v, s, e, off) == [v EXCEPT !.start = s, !.end = e, !.pgoff = off]

LEMMA OtherStart ==
  ASSUME NEW v \in Area, NEW s \in Nat, NEW off \in Int, NEW a, a = Started(v, s, off)
  PROVE  /\ a \in Area /\ a.start = s /\ a.end = v.end /\ a.flags = v.flags /\ a.file = v.file
         /\ a.pgoff = off /\ a.anon = v.anon
BY DEF Area, Started

HasPlace(a, v, s, e) ==
  a \in Area /\ a.start = s /\ a.end = e /\ a.flags = v.flags /\ a.file = v.file

LEMMA OtherPlace ==
  ASSUME NEW v \in Area, NEW s \in Nat, NEW e \in Nat, NEW off \in Int
  PROVE  /\ HasPlace(PlacedAt(v, s, e, off), v, s, e)
         /\ PlacedAt(v, s, e, off).pgoff = off /\ PlacedAt(v, s, e, off).anon = v.anon
BY DEF Area, PlacedAt, HasPlace

LEMMA OtherAnon ==
  ASSUME NEW v \in Area, NEW anon \in Nat, NEW a, a = [v EXCEPT !.anon = anon]
  PROVE  /\ a \in Area /\ a.start = v.start /\ a.end = v.end /\ a.flags = v.flags
         /\ a.file = v.file /\ a.pgoff = v.pgoff /\ a.anon = anon
BY DEF Area

LEMMA OtherFlags ==
  ASSUME NEW v \in Area, NEW flags \in Flags, NEW a, a = [v EXCEPT !.flags = flags]
  PROVE  /\ a \in Area /\ a.start = v.start /\ a.end = v.end /\ a.flags = flags
         /\ a.file = v.file /\ a.pgoff = v.pgoff /\ a.anon = v.anon
BY DEF Area

LEMMA DupKeeps ==
  ASSUME NEW v \in Area, NEW w \in Area, NEW a, a = dup_anon_vma(v, w)
  PROVE  /\ a \in Area /\ a.start = v.start /\ a.end = v.end /\ a.flags = v.flags
         /\ a.file = v.file /\ a.pgoff = v.pgoff
         /\ a.anon = IF v.anon = NoAnon THEN w.anon ELSE v.anon
<1>1. CASE v.anon = NoAnon
  <2>1. a = [v EXCEPT !.anon = w.anon] /\ w.anon \in Nat
    BY <1>1, AreaFields DEF dup_anon_vma
  <2> QED  BY <1>1, <2>1, OtherAnon
<1>2. CASE v.anon # NoAnon
  BY <1>2 DEF dup_anon_vma
<1> QED  BY <1>1, <1>2

-----------------------------------------------------------------------------
(* Pages that are free, and how they come to be in an area                  *)

Span(addr, end) == addr \in Nat /\ end \in Nat /\ addr < end
Free(S, addr, end) == Span(addr, end) /\ Intersecting(S, addr, end) = {}

LEMMA FreeIsClear ==
  ASSUME NEW S, Areas(S), NEW addr, NEW end, Free(S, addr, end)
  PROVE  /\ \A u \in S : u.end <= addr \/ end <= u.start
         /\ \A n \in vma_lookup(S, end) : n \in S /\ n.start = end
<1>1. \A u \in S : u.start \in Nat /\ u.end \in Nat /\ u.start < u.end
  BY SingleArea
<1>2. \A u \in S : ~(u.start < end /\ u.end > addr)
  BY DEF Free, Intersecting
<1>3. addr \in Nat /\ end \in Nat /\ addr < end
  BY DEF Free, Span
<1>4. \A u \in S : u.end <= addr \/ end <= u.start
  BY <1>1, <1>2, <1>3
<1>5. \A n \in vma_lookup(S, end) : n \in S /\ n.start = end
  BY <1>1, <1>3, <1>4 DEF vma_lookup
<1> QED  BY <1>4, <1>5

(* What [addr, end) adds when it joins areas of its flags, gone of which go. *)
Filled(S, T, addr, end, flags, gone) ==
  Becomes(S, T, 0 - gone, end - addr, DataOf(flags, end - addr), NoFile)

LEMMA GrowPrev ==
  ASSUME NEW S, Areas(S), NEW addr, NEW end, Free(S, addr, end), NEW p \in S, p.end = addr,
         NEW a \in Area, a.start = p.start, a.end = end, a.flags = p.flags, a.file = p.file
  PROVE  Filled(S, (S \ {p}) \cup {a}, addr, end, p.flags, 0)
<1>1. addr \in Nat /\ end \in Nat /\ addr < end /\ p \in Area /\ p.start \in Nat /\ p.start < addr
  BY SingleArea DEF Free, Span
<1>2. \A u \in S \ {p} : u.start \in Nat /\ u.end \in Nat /\ u.start < u.end
                         /\ (u.end <= p.start \/ p.end <= u.start)
                         /\ (u.end <= addr \/ end <= u.start)
  BY SingleArea, FreeIsClear DEF Areas, Apart
<1>3. Clear(a, S \ {p})
  BY <1>1, <1>2 DEF Clear
<1> DEFINE pages == (a.end - a.start) - (p.end - p.start)
           data == DataOf(a.flags, a.end - a.start) - DataOf(p.flags, p.end - p.start)
<1>4. Becomes(S, (S \ {p}) \cup {a}, 0, pages, data, NoFile)
  BY <1>1, <1>3, Altered
<1>5. pages = end - addr
  BY <1>1
<1>6. data = DataOf(p.flags, end - addr)
  <2> DEFINE x == a.end - a.start
             y == p.end - p.start
  <2>1. x \in Int /\ y \in Int /\ x - y = end - addr
    BY <1>1
  <2> HIDE DEF x, y
  <2>2. DataOf(p.flags, x - y) = DataOf(p.flags, x) - DataOf(p.flags, y)
    BY <2>1, DataAdds
  <2> QED  BY <2>1, <2>2 DEF x, y
<1> HIDE DEF pages, data
<1> QED  BY <1>4, <1>5, <1>6 DEF Filled

LEMMA GrowNext ==
  ASSUME NEW S, Areas(S), NEW addr, NEW end, Free(S, addr, end), NEW n \in S, n.start = end,
         NEW a \in Area, a.start = addr, a.end = n.end, a.flags = n.flags, a.file = n.file
  PROVE  Filled(S, (S \ {n}) \cup {a}, addr, end, n.flags, 0)
<1>1. addr \in Nat /\ end \in Nat /\ addr < end /\ n \in Area /\ n.end \in Nat /\ end < n.end
  BY SingleArea DEF Free, Span
<1>2. \A u \in S \ {n} : u.start \in Nat /\ u.end \in Nat /\ u.start < u.end
                         /\ (u.end <= n.start \/ n.end <= u.start)
                         /\ (u.end <= addr \/ end <= u.start)
  BY SingleArea, FreeIsClear DEF Areas, Apart
<1>3. Clear(a, S \ {n})
  BY <1>1, <1>2 DEF Clear
<1> DEFINE pages == (a.end - a.start) - (n.end - n.start)
           data == DataOf(a.flags, a.end - a.start) - DataOf(n.flags, n.end - n.start)
<1>4. Becomes(S, (S \ {n}) \cup {a}, 0, pages, data, NoFile)
  <2>1. a.start < a.end
    BY <1>1
  <2> QED  BY <1>3, <2>1, Altered
<1>5. pages = end - addr
  BY <1>1
<1>6. data = DataOf(n.flags, end - addr)
  <2> DEFINE x == a.end - a.start
             y == n.end - n.start
  <2>1. x \in Int /\ y \in Int /\ x - y = end - addr
    BY <1>1
  <2> HIDE DEF x, y
  <2>2. DataOf(n.flags, x - y) = DataOf(n.flags, x) - DataOf(n.flags, y)
    BY <2>1, DataAdds
  <2> QED  BY <2>1, <2>2 DEF x, y
<1> HIDE DEF pages, data
<1> QED  BY <1>4, <1>5, <1>6 DEF Filled

LEMMA Bridge ==
  ASSUME NEW S, Areas(S), NEW addr, NEW end, Free(S, addr, end), NEW p \in S, p.end = addr,
         NEW n \in S, n.start = end, n.flags = p.flags, n.file = p.file, p.file \notin Closers,
         NEW a \in Area, a.start = p.start, a.end = n.end, a.flags = p.flags, a.file = p.file
  PROVE  Filled(S, (S \ {p, n}) \cup {a}, addr, end, p.flags, 1)
<1>1. /\ addr \in Nat /\ end \in Nat /\ addr < end /\ n \in Area /\ n.end \in Nat /\ end < n.end
      /\ p \in Area /\ p.start \in Nat /\ p.start < addr /\ p # n
  BY SingleArea DEF Free, Span
<1>2. \A u \in S \ {p, n} : u.start \in Nat /\ u.end \in Nat /\ u.start < u.end
                         /\ (u.end <= n.start \/ n.end <= u.start)
                         /\ (u.end <= p.start \/ p.end <= u.start)
                         /\ (u.end <= addr \/ end <= u.start)
  BY SingleArea, FreeIsClear DEF Areas, Apart
<1>3. Clear(a, S \ {p, n})
  BY <1>1, <1>2 DEF Clear
<1> DEFINE pages == (a.end - a.start) - (p.end - p.start) - (n.end - n.start)
           data == DataOf(a.flags, a.end - a.start) - DataOf(p.flags, p.end - p.start)
                     - DataOf(n.flags, n.end - n.start)
<1>4. Becomes(S, (S \ {p, n}) \cup {a}, -1, pages, data, NoFile)
  <2>1. a.start < a.end /\ p # n /\ a.file = p.file /\ a.file = n.file /\ a.file \notin Closers
    BY <1>1
  <2> QED  BY <1>3, <2>1, Joined
<1>5. pages = end - addr
  BY <1>1
<1>6. data = DataOf(p.flags, end - addr)
  <2> DEFINE x == a.end - a.start
             y == p.end - p.start
             z == n.end - n.start
  <2>1. x \in Int /\ y \in Int /\ z \in Int /\ x - y \in Int /\ (x - y) - z = end - addr
    BY <1>1
  <2> HIDE DEF x, y, z
  <2>2. DataOf(p.flags, (x - y) - z) = DataOf(p.flags, x) - DataOf(p.flags, y) - DataOf(p.flags, z)
    BY <2>1, DataAdds
  <2> QED  BY <2>1, <2>2 DEF x, y, z
<1> HIDE DEF pages, data
<1> QED  BY <1>4, <1>5, <1>6 DEF Filled

LEMMA Inset ==
  ASSUME NEW S, Areas(S), NEW addr, NEW end, Free(S, addr, end),
         NEW a \in Area, a.start = addr, a.end = end
  PROVE  Becomes(S, S \cup {a}, 1, end - addr, DataOf(a.flags, end - addr), a.file)
<1>1. Clear(a, S) /\ a.start < a.end
  BY FreeIsClear DEF Clear, Free, Span
<1> QED  BY <1>1, Inserted

-----------------------------------------------------------------------------
(* What is mapped where, before and after                                   *)

Holds(v, p) == v.start <= p /\ p < v.end

(* w is of the same file at the same distance, and finds the pages of v.    *)
Like(w, v) ==
  /\ w.file = v.file /\ w.pgoff - w.start = v.pgoff - v.start
  /\ v.anon # NoAnon => w.anon = v.anon

FlagsUnder(x, v, p) == IF Holds(x, p) THEN x.flags ELSE v.flags

(* The pages of T are those of S and of x, which is laid over them: a page  *)
(* of S keeps its place in its file, and gets the flags of x if it is in x. *)
Carried(S, T, x) ==
  \A v \in S : \A p \in Nat : Holds(v, p) =>
    \E w \in T : Holds(w, p) /\ Like(w, v) /\ w.flags = FlagsUnder(x, v, p)
Laid(T, x) ==
  \A p \in Nat : Holds(x, p) => \E w \in T : Holds(w, p) /\ Like(w, x) /\ w.flags = x.flags
NoMore(S, T, x) ==
  \A w \in T : \A p \in Nat : Holds(w, p) => Holds(x, p) \/ \E v \in S : Holds(v, p)
Overlaid(S, T, x) == Carried(S, T, x) /\ Laid(T, x) /\ NoMore(S, T, x)

(* x is laid over the areas of m, and no page loses what was written to it. *)
Lays(m, w, x) == Overlaid(m.areas, w.areas, x) /\ w.anon_page = m.anon_page

Over(addr, end, flags, file, pgoff, anon) ==
  [start |-> addr, end |-> end, flags |-> flags, file |-> file, pgoff |-> pgoff, anon |-> anon]

LEMMA OverFields ==
  ASSUME NEW addr, NEW end, NEW flags, NEW file, NEW pgoff, NEW anon,
         NEW x, x = Over(addr, end, flags, file, pgoff, anon)
  PROVE  /\ x.start = addr /\ x.end = end /\ x.flags = flags /\ x.file = file
         /\ x.pgoff = pgoff /\ x.anon = anon
BY DEF Over

Beside(S, x) == \A u \in S : u.end <= x.start \/ x.end <= u.start

(* Areas change, away from x or as x says.                                  *)
LEMMA OldAndNew ==
  ASSUME NEW S, Areas(S), NEW old, old \subseteq S, NEW new, NEW T, T = (S \ old) \cup new,
         NEW x, x.start \in Nat, x.end \in Nat, Beside(S \ old, x),
         Carried(old, new, x), Laid(new, x), NoMore(old, new, x)
  PROVE  Overlaid(S, T, x)
<1>1. ASSUME NEW v \in S, NEW p \in Nat, Holds(v, p)
      PROVE  \E w \in T : Holds(w, p) /\ Like(w, v) /\ w.flags = FlagsUnder(x, v, p)
  <2>1. CASE v \in old
    BY <1>1, <2>1 DEF Carried
  <2>2. CASE v \notin old
    <3>1. v \in S \ old /\ v.start \in Nat /\ v.end \in Nat
      BY <2>2, SingleArea
    <3>2. ~Holds(x, p)
      BY <1>1, <3>1 DEF Beside, Holds
    <3>3. Like(v, v) /\ v.flags = FlagsUnder(x, v, p)
      BY <3>2 DEF Like, FlagsUnder
    <3> QED  BY <1>1, <3>1, <3>3
  <2> QED  BY <2>1, <2>2
<1>2. Laid(T, x)
  BY DEF Laid
<1>3. NoMore(S, T, x)
  BY DEF NoMore
<1> QED  BY <1>1, <1>2, <1>3 DEF Overlaid, Carried

(* What an area that takes others in has to be for each of them.            *)
TakesIn(a, v, x) ==
  /\ a.start <= v.start /\ v.end <= a.end /\ Like(a, v)
  /\ v.flags = a.flags \/ (x.start <= v.start /\ v.end <= x.end)

(* One area takes the place of old ones and of x, which is like them.       *)
LEMMA OneOverlays ==
  ASSUME NEW S, Areas(S), NEW old, old \subseteq S, NEW a \in Area, NEW T, T = (S \ old) \cup {a},
         NEW x, x.start \in Nat, x.end \in Nat, Beside(S \ old, x),
         a.start <= x.start /\ x.end <= a.end /\ Like(a, x) /\ a.flags = x.flags,
         \A v \in old : TakesIn(a, v, x), NoMore(old, {a}, x)
  PROVE  Overlaid(S, T, x)
<1>1. a.start \in Nat /\ a.end \in Nat
  BY AreaFields
<1>2. ASSUME NEW v \in old, NEW p \in Nat, Holds(v, p)
      PROVE  Holds(a, p) /\ Like(a, v) /\ a.flags = FlagsUnder(x, v, p)
  <2>1. v.start \in Nat /\ v.end \in Nat /\ TakesIn(a, v, x)
    BY SingleArea
  <2> QED  BY <1>1, <1>2, <2>1 DEF Holds, TakesIn, FlagsUnder
<1>3. Carried(old, {a}, x)
  BY <1>2 DEF Carried
<1>4. Laid({a}, x)
  BY <1>1 DEF Laid, Holds
<1> QED  BY <1>3, <1>4, OldAndNew

(* Two areas do; the first ends where the second starts.                    *)
PartTakenIn(a, b, v, x) ==
  /\ a.start <= v.start /\ v.end <= b.end
  /\ v.start < a.end => /\ Like(a, v)
                        /\ v.flags = a.flags \/ (x.start <= v.start /\ a.end <= x.end)
  /\ b.start < v.end => /\ Like(b, v)
                        /\ v.flags = b.flags \/ (x.start <= b.start /\ v.end <= x.end)

SitsIn(new, x) ==
  x.start < x.end => \E w \in new : /\ w.start <= x.start /\ x.end <= w.end
                                     /\ Like(w, x) /\ w.flags = x.flags

LEMMA TwoOverlay ==
  ASSUME NEW S, Areas(S), NEW old, old \subseteq S, NEW a \in Area, NEW b \in Area,
         NEW T, T = (S \ old) \cup {a, b}, a.end = b.start,
         NEW x, x.start \in Nat, x.end \in Nat, Beside(S \ old, x),
         SitsIn({a, b}, x), \A v \in old : PartTakenIn(a, b, v, x), NoMore(old, {a, b}, x)
  PROVE  Overlaid(S, T, x)
<1>1. a.start \in Nat /\ a.end \in Nat /\ b.start \in Nat /\ b.end \in Nat
  BY AreaFields
<1>2. ASSUME NEW p \in Nat, Holds(x, p)
      PROVE  \E w \in {a, b} : Holds(w, p) /\ Like(w, x) /\ w.flags = x.flags
  <2>1. x.start < x.end
    BY <1>2 DEF Holds
  <2>2. PICK w \in {a, b} : w.start <= x.start /\ x.end <= w.end /\ Like(w, x) /\ w.flags = x.flags
    BY <2>1 DEF SitsIn
  <2>3. Holds(w, p)
    BY <1>1, <1>2, <2>2 DEF Holds
  <2> QED  BY <2>2, <2>3
<1>3. ASSUME NEW v \in old, NEW p \in Nat, Holds(v, p)
      PROVE  \E w \in {a, b} : Holds(w, p) /\ Like(w, v) /\ w.flags = FlagsUnder(x, v, p)
  <2>1. v.start \in Nat /\ v.end \in Nat /\ PartTakenIn(a, b, v, x)
    BY SingleArea
  <2>2. CASE p < a.end
    <3>1. Holds(a, p) /\ Like(a, v)
      BY <1>1, <1>3, <2>1, <2>2 DEF Holds, PartTakenIn
    <3>2. Holds(x, p) => a.flags = x.flags
      <4>1. Holds(b, p) => FALSE
        BY <1>1, <2>2 DEF Holds
      <4> QED  BY <1>2, <4>1
    <3>3. ~Holds(x, p) => a.flags = v.flags
      BY <1>1, <1>3, <2>1, <2>2 DEF Holds, PartTakenIn
    <3> QED  BY <3>1, <3>2, <3>3 DEF FlagsUnder
  <2>3. CASE ~(p < a.end)
    <3>1. Holds(b, p) /\ Like(b, v)
      BY <1>1, <1>3, <2>1, <2>3 DEF Holds, PartTakenIn
    <3>2. Holds(x, p) => b.flags = x.flags
      <4>1. Holds(a, p) => FALSE
        BY <1>1, <2>3 DEF Holds
      <4> QED  BY <1>2, <4>1
    <3>3. ~Holds(x, p) => b.flags = v.flags
      BY <1>1, <1>3, <2>1, <2>3 DEF Holds, PartTakenIn
    <3> QED  BY <3>1, <3>2, <3>3 DEF FlagsUnder
  <2> QED  BY <2>2, <2>3
<1>4. Carried(old, {a, b}, x)
  BY <1>3 DEF Carried
<1>5. Laid({a, b}, x)
  BY <1>2 DEF Laid
<1> QED  BY <1>4, <1>5, OldAndNew

(* Free pages x, between p and n.                                           *)
LEMMA OverFree ==
  ASSUME NEW S, Areas(S), NEW x, Free(S, x.start, x.end), NEW a \in Area, Like(a, x),
         a.flags = x.flags
  PROVE  /\ a.start = x.start /\ a.end = x.end => Overlaid(S, S \cup {a}, x)
         /\ \A p \in S : /\ p.end = x.start /\ a.start = p.start /\ a.end = x.end
                         /\ Like(a, p) /\ a.flags = p.flags
                         => Overlaid(S, (S \ {p}) \cup {a}, x)
         /\ \A n \in S : /\ n.start = x.end /\ a.start = x.start /\ a.end = n.end
                         /\ Like(a, n) /\ a.flags = n.flags
                         => Overlaid(S, (S \ {n}) \cup {a}, x)
         /\ \A p, n \in S : /\ p.end = x.start /\ a.start = p.start /\ Like(a, p) /\ a.flags = p.flags
                            /\ n.start = x.end /\ a.end = n.end /\ Like(a, n) /\ a.flags = n.flags
                            => Overlaid(S, (S \ {p, n}) \cup {a}, x)
<1>1. x.start \in Nat /\ x.end \in Nat /\ x.start < x.end /\ Beside(S, x)
  BY FreeIsClear DEF Free, Span, Beside
<1>2. \A u \in S : u.start \in Nat /\ u.end \in Nat /\ u.start < u.end
  BY SingleArea
<1>3. ASSUME NEW old, old \subseteq S, a.start <= x.start, x.end <= a.end,
             \A v \in old : TakesIn(a, v, x), NoMore(old, {a}, x)
      PROVE  Overlaid(S, (S \ old) \cup {a}, x)
  <2>1. Beside(S \ old, x)
    BY <1>1 DEF Beside
  <2> QED  BY <1>1, <1>3, <2>1, OneOverlays
<1>4. ASSUME a.start = x.start, a.end = x.end  PROVE Overlaid(S, S \cup {a}, x)
  <2>1. NoMore({}, {a}, x)
    BY <1>4 DEF NoMore, Holds
  <2>2. (S \ {}) \cup {a} = S \cup {a} /\ a.start <= x.start /\ x.end <= a.end
    BY <1>1, <1>4
  <2>3. Overlaid(S, (S \ {}) \cup {a}, x)
    BY <1>3, <2>1, <2>2
  <2> QED  BY <2>2, <2>3
<1>5. ASSUME NEW p \in S, p.end = x.start, a.start = p.start, a.end = x.end, Like(a, p), a.flags = p.flags
      PROVE  Overlaid(S, (S \ {p}) \cup {a}, x)
  <2>1. NoMore({p}, {a}, x) /\ TakesIn(a, p, x) /\ a.start <= x.start /\ x.end <= a.end
    BY <1>1, <1>2, <1>5 DEF NoMore, Holds, TakesIn
  <2> QED  BY <1>3, <2>1
<1>6. ASSUME NEW n \in S, n.start = x.end, a.start = x.start, a.end = n.end, Like(a, n), a.flags = n.flags
      PROVE  Overlaid(S, (S \ {n}) \cup {a}, x)
  <2>1. NoMore({n}, {a}, x) /\ TakesIn(a, n, x) /\ a.start <= x.start /\ x.end <= a.end
    BY <1>1, <1>2, <1>6 DEF NoMore, Holds, TakesIn
  <2> QED  BY <1>3, <2>1
<1>7. ASSUME NEW p \in S, NEW n \in S, p.end = x.start, a.start = p.start, Like(a, p), a.flags = p.flags,
             n.start = x.end, a.end = n.end, Like(a, n), a.flags = n.flags
      PROVE  Overlaid(S, (S \ {p, n}) \cup {a}, x)
  <2>1. NoMore({p, n}, {a}, x) /\ TakesIn(a, p, x) /\ TakesIn(a, n, x) /\ a.start <= x.start /\ x.end <= a.end
    BY <1>1, <1>2, <1>7 DEF NoMore, Holds, TakesIn
  <2> QED  BY <1>3, <2>1
<1> QED  BY <1>4, <1>5, <1>6, <1>7

(* Pages x of v, all of them.                                               *)
LEMMA OverWhole ==
  ASSUME NEW S, Areas(S), NEW v \in S, NEW x, x.start = v.start, x.end = v.end,
         NEW a \in Area, Like(a, x), Like(a, v), a.flags = x.flags
  PROVE  /\ a.start = v.start /\ a.end = v.end => Overlaid(S, (S \ {v}) \cup {a}, x)
         /\ \A p \in S : /\ p.end = v.start /\ a.start = p.start /\ a.end = v.end
                         /\ Like(a, p) /\ a.flags = p.flags
                         => Overlaid(S, (S \ {p, v}) \cup {a}, x)
         /\ \A n \in S : /\ n.start = v.end /\ a.start = v.start /\ a.end = n.end
                         /\ Like(a, n) /\ a.flags = n.flags
                         => Overlaid(S, (S \ {n, v}) \cup {a}, x)
         /\ \A p, n \in S : /\ p.end = v.start /\ a.start = p.start /\ Like(a, p) /\ a.flags = p.flags
                            /\ n.start = v.end /\ a.end = n.end /\ Like(a, n) /\ a.flags = n.flags
                            => Overlaid(S, (S \ {p, n, v}) \cup {a}, x)
<1>1. x.start \in Nat /\ x.end \in Nat /\ x.start < x.end /\ Beside(S \ {v}, x)
  BY SingleArea DEF Areas, Apart, Beside
<1>2. \A u \in S : u.start \in Nat /\ u.end \in Nat /\ u.start < u.end
  BY SingleArea
<1>3. ASSUME NEW old, old \subseteq S, v \in old, a.start <= x.start, x.end <= a.end,
             \A u \in old : TakesIn(a, u, x), NoMore(old, {a}, x)
      PROVE  Overlaid(S, (S \ old) \cup {a}, x)
  <2>1. Beside(S \ old, x)
    BY <1>1, <1>3 DEF Beside
  <2> QED  BY <1>1, <1>3, <2>1, OneOverlays
<1>4. ASSUME a.start = v.start, a.end = v.end  PROVE Overlaid(S, (S \ {v}) \cup {a}, x)
  <2>1. NoMore({v}, {a}, x) /\ TakesIn(a, v, x) /\ a.start <= x.start /\ x.end <= a.end
    BY <1>1, <1>2, <1>4 DEF NoMore, Holds, TakesIn
  <2> QED  BY <1>3, <2>1
<1>5. ASSUME NEW p \in S, p.end = v.start, a.start = p.start, a.end = v.end, Like(a, p), a.flags = p.flags
      PROVE  Overlaid(S, (S \ {p, v}) \cup {a}, x)
  <2>1. NoMore({p, v}, {a}, x) /\ TakesIn(a, p, x) /\ TakesIn(a, v, x) /\ a.start <= x.start /\ x.end <= a.end
    BY <1>1, <1>2, <1>5 DEF NoMore, Holds, TakesIn
  <2> QED  BY <1>3, <2>1
<1>6. ASSUME NEW n \in S, n.start = v.end, a.start = v.start, a.end = n.end, Like(a, n), a.flags = n.flags
      PROVE  Overlaid(S, (S \ {n, v}) \cup {a}, x)
  <2>1. NoMore({n, v}, {a}, x) /\ TakesIn(a, n, x) /\ TakesIn(a, v, x) /\ a.start <= x.start /\ x.end <= a.end
    BY <1>1, <1>2, <1>6 DEF NoMore, Holds, TakesIn
  <2> QED  BY <1>3, <2>1
<1>7. ASSUME NEW p \in S, NEW n \in S, p.end = v.start, a.start = p.start, Like(a, p), a.flags = p.flags,
             n.start = v.end, a.end = n.end, Like(a, n), a.flags = n.flags
      PROVE  Overlaid(S, (S \ {p, n, v}) \cup {a}, x)
  <2>1. NoMore({p, n, v}, {a}, x) /\ a.start <= x.start /\ x.end <= a.end
    BY <1>1, <1>2, <1>7 DEF NoMore, Holds
  <2>2. TakesIn(a, p, x) /\ TakesIn(a, n, x) /\ TakesIn(a, v, x)
    BY <1>1, <1>2, <1>7 DEF TakesIn
  <2> QED  BY <1>3, <2>1, <2>2
<1> QED  BY <1>4, <1>5, <1>6, <1>7

(* Pages x of v, the first or the last of them.                             *)
LEMMA OverPart ==
  ASSUME NEW S, Areas(S), NEW v \in S, NEW x, x.start \in Nat, x.end \in Nat, x.start < x.end,
         NEW a \in Area, NEW b \in Area, a.end = b.start
  PROVE  /\ \A p \in S : /\ p.end = v.start /\ x.start = v.start /\ x.end < v.end
                         /\ a.start = p.start /\ a.end = x.end /\ b.end = v.end
                         /\ Like(a, p) /\ Like(a, v) /\ Like(a, x) /\ Like(b, v)
                         /\ a.flags = p.flags /\ a.flags = x.flags /\ b.flags = v.flags
                         => Overlaid(S, (S \ {p, v}) \cup {a, b}, x)
         /\ \A n \in S : /\ n.start = v.end /\ x.end = v.end /\ v.start < x.start
                         /\ a.start = v.start /\ b.start = x.start /\ b.end = n.end
                         /\ Like(b, n) /\ Like(b, v) /\ Like(b, x) /\ Like(a, v)
                         /\ b.flags = n.flags /\ b.flags = x.flags /\ a.flags = v.flags
                         => Overlaid(S, (S \ {v, n}) \cup {a, b}, x)
<1>1. /\ \A u \in S : u.start \in Nat /\ u.end \in Nat /\ u.start < u.end
      /\ \A u \in S \ {v} : u.end <= v.start \/ v.end <= u.start
  BY SingleArea DEF Areas, Apart
<1>2. ASSUME NEW p \in S, p.end = v.start, x.start = v.start, x.end < v.end,
             a.start = p.start, a.end = x.end, b.end = v.end,
             Like(a, p), Like(a, v), Like(a, x), Like(b, v),
             a.flags = p.flags, a.flags = x.flags, b.flags = v.flags
      PROVE  Overlaid(S, (S \ {p, v}) \cup {a, b}, x)
  <2>1. Beside(S \ {p, v}, x)
    BY <1>1, <1>2 DEF Beside
  <2>2. NoMore({p, v}, {a, b}, x)
    <3>1. \A q \in Nat : Holds(a, q) => Holds(p, q) \/ Holds(x, q)
      BY <1>1, <1>2 DEF Holds
    <3>2. \A q \in Nat : Holds(b, q) => Holds(v, q)
      BY <1>1, <1>2 DEF Holds
    <3> QED  BY <3>1, <3>2 DEF NoMore
  <2>3. PartTakenIn(a, b, p, x) /\ PartTakenIn(a, b, v, x)
    BY <1>1, <1>2 DEF PartTakenIn
  <2>4. a.start <= x.start /\ x.end <= a.end
    BY <1>1, <1>2
  <2>5. SitsIn({a, b}, x)
    BY <1>2, <2>4 DEF SitsIn
  <2>6. {p, v} \subseteq S /\ \A u \in {p, v} : PartTakenIn(a, b, u, x)
    BY <2>3
  <2> QED  BY <2>1, <2>2, <2>5, <2>6, TwoOverlay
<1>3. ASSUME NEW n \in S, n.start = v.end, x.end = v.end, v.start < x.start,
             a.start = v.start, b.start = x.start, b.end = n.end,
             Like(b, n), Like(b, v), Like(b, x), Like(a, v),
             b.flags = n.flags, b.flags = x.flags, a.flags = v.flags
      PROVE  Overlaid(S, (S \ {v, n}) \cup {a, b}, x)
  <2>1. Beside(S \ {v, n}, x)
    BY <1>1, <1>3 DEF Beside
  <2>2. NoMore({v, n}, {a, b}, x)
    <3>1. \A q \in Nat : Holds(a, q) => Holds(v, q)
      BY <1>1, <1>3 DEF Holds
    <3>2. \A q \in Nat : Holds(b, q) => Holds(n, q) \/ Holds(x, q)
      BY <1>1, <1>3 DEF Holds
    <3> QED  BY <3>1, <3>2 DEF NoMore
  <2>3. PartTakenIn(a, b, n, x) /\ PartTakenIn(a, b, v, x)
    BY <1>1, <1>3 DEF PartTakenIn
  <2>4. b.start <= x.start /\ x.end <= b.end
    BY <1>1, <1>3
  <2>5. SitsIn({a, b}, x)
    BY <1>3, <2>4 DEF SitsIn
  <2>6. {v, n} \subseteq S /\ \A u \in {v, n} : PartTakenIn(a, b, u, x)
    BY <2>3
  <2> QED  BY <2>1, <2>2, <2>5, <2>6, TwoOverlay
<1> QED  BY <1>2, <1>3

(* No pages at all: an area is split, or gets an anon_vma.                  *)
Nowhere == Over(0, 0, "r", NoFile, 0, NoAnon)

LEMMA OverNothing ==
  ASSUME NEW S, Areas(S)
  PROVE  /\ Overlaid(S, S, Nowhere)
         /\ \A v \in S : \A a \in Area :
              /\ a.start = v.start /\ a.end = v.end /\ Like(a, v) /\ a.flags = v.flags
              => Overlaid(S, (S \ {v}) \cup {a}, Nowhere)
         /\ \A v \in S : \A a, b \in Area :
              /\ a.start = v.start /\ a.end = b.start /\ b.end = v.end
              /\ v.start <= a.end /\ a.end <= v.end
              /\ Like(a, v) /\ a.flags = v.flags /\ Like(b, v) /\ b.flags = v.flags
              => Overlaid(S, (S \ {v}) \cup {a, b}, Nowhere)
<1>1. /\ \A u \in S : u.start \in Nat /\ u.end \in Nat /\ u.start < u.end /\ Like(u, u)
  BY SingleArea DEF Like
<1>2. Nowhere.start = 0 /\ Nowhere.end = 0 /\ \A p \in Nat : ~Holds(Nowhere, p)
  BY DEF Nowhere, Over, Holds
<1>3. \A old : old \subseteq S => Beside(S \ old, Nowhere)
  BY <1>1, <1>2 DEF Beside
<1>4. Laid({}, Nowhere) /\ \A T : Laid(T, Nowhere)
  BY <1>2 DEF Laid
<1>5. Overlaid(S, S, Nowhere)
  <2>1. Carried(S, S, Nowhere)
    BY <1>1, <1>2 DEF Carried, FlagsUnder
  <2>2. NoMore(S, S, Nowhere)
    BY DEF NoMore
  <2> QED  BY <1>4, <2>1, <2>2 DEF Overlaid
<1>6. ASSUME NEW v \in S, NEW a \in Area, a.start = v.start, a.end = v.end, Like(a, v), a.flags = v.flags
      PROVE  Overlaid(S, (S \ {v}) \cup {a}, Nowhere)
  <2>1. Carried({v}, {a}, Nowhere)
    BY <1>2, <1>6 DEF Carried, FlagsUnder, Holds
  <2>2. NoMore({v}, {a}, Nowhere)
    BY <1>6 DEF NoMore, Holds
  <2>3. {v} \subseteq S /\ Nowhere.start \in Nat /\ Nowhere.end \in Nat
    BY <1>2
  <2> QED  BY <1>3, <1>4, <2>1, <2>2, <2>3, OldAndNew
<1>7. ASSUME NEW v \in S, NEW a \in Area, NEW b \in Area,
             a.start = v.start, a.end = b.start, b.end = v.end, v.start <= a.end, a.end <= v.end,
             Like(a, v), a.flags = v.flags, Like(b, v), b.flags = v.flags
      PROVE  Overlaid(S, (S \ {v}) \cup {a, b}, Nowhere)
  <2>1. \A u \in {v} : PartTakenIn(a, b, u, Nowhere)
    BY <1>1, <1>7 DEF PartTakenIn
  <2>2. NoMore({v}, {a, b}, Nowhere)
    <3>1. b.start \in Nat
      BY AreaFields
    <3>2. \A q \in Nat : Holds(a, q) \/ Holds(b, q) => Holds(v, q)
      BY <1>1, <1>7, <3>1 DEF Holds
    <3> QED  BY <3>2 DEF NoMore
  <2>3. {v} \subseteq S /\ Nowhere.start \in Nat /\ Nowhere.end \in Nat /\ SitsIn({a, b}, Nowhere)
    BY <1>2 DEF SitsIn
  <2>4. Beside(S \ {v}, Nowhere)
    BY <1>3
  <2> QED  BY <1>7, <2>1, <2>2, <2>3, <2>4, TwoOverlay
<1> QED  BY <1>5, <1>6, <1>7
-----------------------------------------------------------------------------
(* vma_merge() over free pages: there is no curr.                           *)

LEMMA TheOnly ==
  ASSUME NEW x, NEW S, S = {x}
  PROVE  The(S) = x
BY DEF The

LEMMA TheOne ==
  ASSUME NEW S, S # {}
  PROVE  The(S) \in S
BY DEF The

(* prev is the area behind which, up to end, there is none.                 *)
IsPrev(S, prev, addr, end) ==
  /\ prev \subseteq S /\ \A u \in prev : u.end <= addr
  /\ Intersecting(S, IF prev = {} THEN 0 ELSE The(prev).end, end) = {}

Freed(S, r, addr, end, flags) ==
  r.gone \in Int /\ Filled(S, r.areas, addr, end, flags, r.gone)

LEMMA MergeFree ==
  ASSUME NEW S, Areas(S), NEW addr, NEW end, Free(S, addr, end), NEW prev,
         IsPrev(S, prev, addr, end), NEW flags, NEW anon, NEW file, NEW pgoff \in Int,
         NEW r \in vma_merge(S, prev, addr, end, flags, anon, file, pgoff)
  PROVE  /\ Freed(S, r, addr, end, flags)
         /\ Overlaid(S, r.areas, Over(addr, end, flags, file, pgoff, anon))
<1> DEFINE x == Over(addr, end, flags, file, pgoff, anon)
<1>0. /\ x.start = addr /\ x.end = end /\ x.flags = flags /\ x.file = file
      /\ x.pgoff = pgoff /\ x.anon = anon
  BY OverFields
<1> HIDE DEF x
<1> DEFINE p     == The(prev)
           after == IF prev = {} THEN 0 ELSE p.end
           first == Intersecting(S, after, end)
           curr  == {v \in first : \A u \in first : v.start <= u.start}
           next  == IF curr = {} \/ end = The(curr).end THEN vma_lookup(S, end) ELSE {}
           n     == The(next)
           merge_prev == prev # {} /\ addr = p.end /\ can_vma_merge_after(p, flags, anon, file, pgoff)
           merge_next == next # {} /\ can_vma_merge_before(n, flags, anon, file, pgoff + (end - addr))
           both == merge_prev /\ merge_next /\ is_mergeable_anon_vma(p.anon, n.anon, TRUE)
<1>1. first = {} /\ curr = {} /\ next = vma_lookup(S, end)
  BY DEF IsPrev
<1>2. \/ both /\ r \in MergeBoth(S, p, curr, n)
      \/ merge_prev /\ r \in MergePrev(S, p, curr, end)
      \/ merge_next /\ prev # {} /\ addr < p.end
      \/ merge_next /\ r \in MergeNext(S, curr, n, addr, end - addr)
  <2>1. r \in IF file = Special THEN {} ELSE
              CASE both -> MergeBoth(S, p, curr, n)
                [] merge_prev /\ ~(merge_next /\ is_mergeable_anon_vma(p.anon, n.anon, TRUE)) ->
                     MergePrev(S, p, curr, end)
                [] merge_next /\ ~merge_prev /\ prev # {} /\ addr < p.end ->
                     MergeIntoNext(S, p, n, addr)
                [] merge_next /\ ~merge_prev /\ (prev = {} \/ addr >= p.end) ->
                     MergeNext(S, curr, n, addr, end - addr)
                [] OTHER -> {}
    BY Zenon DEF vma_merge
  <2> HIDE DEF curr, n, both, merge_prev, merge_next, p
  <2> QED  BY <2>1
<1>3. merge_prev => /\ p \in S /\ p \in Area /\ p.end = addr /\ p.flags = flags /\ p.file = file
                    /\ p.pgoff + (addr - p.start) = pgoff /\ (anon # NoAnon => p.anon = anon)
  <2>1. prev # {} => p \in S /\ p \in Area
    BY TheOne DEF IsPrev, Areas
  <2> QED  BY <2>1 DEF can_vma_merge_after, is_mergeable_vma, is_mergeable_anon_vma, vma_pages
<1>4. merge_next => /\ n \in S /\ n \in Area /\ n.start = end /\ n.flags = flags /\ n.file = file
                    /\ file \notin Closers /\ n.pgoff = pgoff + (end - addr)
                    /\ (anon # NoAnon => n.anon = anon)
  <2>1. next # {} => n \in next
    BY TheOne
  <2> HIDE DEF n
  <2>2. next # {} => n \in S /\ n \in Area /\ n.start = end
    BY <1>1, <2>1, FreeIsClear DEF Areas
  <2> HIDE DEF next
  <2> QED  BY <2>2 DEF can_vma_merge_before, is_mergeable_vma, is_mergeable_anon_vma
<1>5. prev # {} => p.end <= addr
  BY TheOne DEF IsPrev
<1>6. Cardinality({}) = 0
  BY FS_EmptySet
<1>7. addr \in Nat /\ end \in Nat /\ end - addr \in Int
  BY DEF Free, Span
<1>8. CASE both /\ r \in MergeBoth(S, p, curr, n)
  <2> DEFINE q == dup_anon_vma(p, n)
             a == [q EXCEPT !.end = n.end]
  <2>1. r = [areas |-> (S \ {p, n}) \cup {a}, gone |-> 1]
    <3>1. r \in {[areas |-> (S \ ({p, n} \cup {})) \cup {a}, gone |-> 1 + Cardinality({})]}
      BY <1>1, <1>8, Zenon DEF MergeBoth, Merged
    <3> HIDE DEF a, p, n
    <3> QED  BY <1>6, <3>1
  <2> HIDE DEF p, n, merge_prev, merge_next
  <2>2. /\ q \in Area /\ q.start = p.start /\ q.end = p.end /\ q.flags = p.flags /\ q.file = p.file
        /\ q.pgoff = p.pgoff /\ q.anon = IF p.anon = NoAnon THEN n.anon ELSE p.anon
    BY <1>3, <1>4, <1>8, DupKeeps
  <2>3. n.end \in Nat
    BY <1>4, <1>8, AreaFields
  <2> HIDE DEF q
  <2>4. /\ a \in Area /\ a.start = p.start /\ a.end = n.end /\ a.flags = p.flags /\ a.file = p.file
        /\ a.pgoff = p.pgoff /\ a.anon = q.anon
    BY <2>2, <2>3, OtherEnd
  <2> HIDE DEF a
  <2>5. Filled(S, (S \ {p, n}) \cup {a}, addr, end, p.flags, 1)
    BY <1>3, <1>4, <1>8, <2>4, Bridge
  <2>6. Like(a, p) /\ Like(a, n) /\ Like(a, x)
    <3>1. p.anon = n.anon \/ p.anon = NoAnon \/ n.anon = NoAnon
      BY <1>8 DEF is_mergeable_anon_vma
    <3>2. /\ p.start \in Nat /\ p.pgoff \in Int /\ p.end = addr /\ n.start = end
          /\ p.file = file /\ n.file = file
          /\ n.pgoff = pgoff + (end - addr) /\ p.pgoff + (addr - p.start) = pgoff
          /\ (anon # NoAnon => p.anon = anon) /\ (anon # NoAnon => n.anon = anon)
      BY <1>3, <1>4, <1>8, AreaFields
    <3> QED  BY ONLY <1>0, <1>7, <2>2, <2>4, <3>1, <3>2, pgoff \in Int DEF Like
  <2>7. Overlaid(S, (S \ {p, n}) \cup {a}, x)
    BY <1>0, <1>3, <1>4, <1>8, <2>4, <2>6, OverFree
  <2> QED  BY <1>3, <1>8, <2>1, <2>5, <2>7 DEF Freed, x
<1>9. CASE merge_prev /\ r \in MergePrev(S, p, curr, end)
  <2> DEFINE a == [p EXCEPT !.end = end]
  <2>1. r = [areas |-> (S \ {p}) \cup {a}, gone |-> 0]
    <3>1. r \in {[areas |-> (S \ {p}) \cup {a}, gone |-> 0]}
      BY <1>1, <1>9, Zenon DEF MergePrev, Merged
    <3> QED  BY <3>1
  <2> HIDE DEF p, n, merge_prev, merge_next
  <2>2. /\ a \in Area /\ a.start = p.start /\ a.end = end /\ a.flags = p.flags /\ a.file = p.file
        /\ a.pgoff = p.pgoff /\ a.anon = p.anon
    BY <1>3, <1>7, <1>9, OtherEnd
  <2> HIDE DEF a
  <2>3. Filled(S, (S \ {p}) \cup {a}, addr, end, p.flags, 0)
    BY <1>3, <1>9, <2>2, GrowPrev
  <2>4. Like(a, p) /\ Like(a, x)
    <3>1. p.start \in Nat /\ p.pgoff \in Int
      BY <1>3, <1>9, AreaFields
    <3> QED  BY <1>0, <1>3, <1>7, <1>9, <2>2, <3>1 DEF Like
  <2>5. Overlaid(S, (S \ {p}) \cup {a}, x)
    BY <1>0, <1>3, <1>9, <2>2, <2>4, OverFree
  <2> QED  BY <1>3, <1>9, <2>1, <2>3, <2>5 DEF Freed, x
<1>10. CASE merge_next /\ prev # {} /\ addr < p.end
  <2>1. p.end \in Nat
    BY <1>10, TheOne, AreaFields DEF IsPrev, Areas
  <2> QED  BY <1>5, <1>7, <1>10, <2>1
<1>11. CASE merge_next /\ r \in MergeNext(S, curr, n, addr, end - addr)
  <2> DEFINE off == n.pgoff - (end - addr)
             a == [n EXCEPT !.start = addr, !.pgoff = off]
  <2>1. r = [areas |-> (S \ {n}) \cup {a}, gone |-> 0]
    <3>1. r \in {[areas |-> (S \ {n}) \cup {a}, gone |-> 0]}
      BY <1>1, <1>11, Zenon DEF MergeNext, Merged
    <3> QED  BY <3>1
  <2> HIDE DEF p, n, merge_prev, merge_next
  <2>2. off \in Int
    BY <1>4, <1>7, <1>11, AreaFields
  <2> HIDE DEF off
  <2>3. /\ a \in Area /\ a.start = addr /\ a.end = n.end /\ a.flags = n.flags /\ a.file = n.file
        /\ a.pgoff = off /\ a.anon = n.anon
    <3>1. n \in Area /\ addr \in Nat
      BY <1>4, <1>7, <1>11
    <3>2. a = Started(n, addr, off)
      BY DEF Started
    <3> HIDE DEF a
    <3> QED  BY <2>2, <3>1, <3>2, OtherStart
  <2> HIDE DEF a
  <2>4. Filled(S, (S \ {n}) \cup {a}, addr, end, n.flags, 0)
    BY <1>4, <1>11, <2>3, GrowNext
  <2>5. Like(a, n) /\ Like(a, x)
    <3>1. n.pgoff \in Int /\ a.pgoff = n.pgoff - (end - addr)
      BY <1>4, <1>11, <2>3, AreaFields DEF off
    <3> QED  BY <1>0, <1>4, <1>7, <1>11, <2>3, <3>1 DEF Like
  <2>6. Overlaid(S, (S \ {n}) \cup {a}, x)
    BY <1>0, <1>4, <1>11, <2>3, <2>5, OverFree
  <2> QED  BY <1>4, <1>11, <2>1, <2>4, <2>6 DEF Freed, x
<1> HIDE DEF p, n, merge_prev, merge_next, both
<1> QED  BY <1>2, <1>8, <1>9, <1>10, <1>11

(* The area vma_prev() finds is a prev; so is one that ends at addr.        *)
LEMMA PrevExists ==
  ASSUME NEW S, Areas(S), NEW addr \in Nat, NEW u \in S, u.end <= addr
  PROVE  \E p \in vma_prev(S, addr) : u.end <= p.end
<1> DEFINE E == {e \in Nat : \E v \in S : v.end = e /\ e <= addr}
<1>1. \A v \in S : v.start \in Nat /\ v.end \in Nat
  BY SingleArea
<1>2. u.end \in E /\ E \subseteq Nat /\ \A e \in E : e <= addr
  BY <1>1
<1> HIDE DEF E
<1>3. PICK e \in E : \A g \in E : e >= g
  BY <1>2, GreatestNat
<1>4. PICK p \in S : p.end = e /\ e <= addr
  BY <1>3 DEF E
<1>5. \A v \in S : v.end <= addr => v.end \in E
  BY <1>1 DEF E
<1>6. e \in Nat
  BY <1>2, <1>3
<1>7. \A v \in S : v.end <= addr => v.end <= p.end
  BY <1>1, <1>3, <1>4, <1>5, <1>6
<1> QED  BY <1>4, <1>7 DEF vma_prev

LEMMA VmaPrevIsPrev ==
  ASSUME NEW S, Areas(S), NEW addr, NEW end, Free(S, addr, end)
  PROVE  IsPrev(S, vma_prev(S, addr), addr, end)
<1> DEFINE prev == vma_prev(S, addr)
           after == IF prev = {} THEN 0 ELSE The(prev).end
<1>1. addr \in Nat /\ end \in Nat /\ addr < end
  BY DEF Free, Span
<1>2. \A u \in S : u.start \in Nat /\ u.end \in Nat /\ u.start < u.end
  BY SingleArea
<1>3. prev \subseteq S /\ \A u \in prev : u.end <= addr
  BY DEF vma_prev
<1>4. ASSUME NEW u \in Intersecting(S, after, end)  PROVE FALSE
  <2>1. u \in S /\ u.start < end /\ u.end > after
    BY <1>4 DEF Intersecting
  <2>2. u.end <= addr
    BY <1>1, <1>2, <2>1, FreeIsClear
  <2>3. PICK p \in prev : u.end <= p.end
    BY <1>1, <2>1, <2>2, PrevExists
  <2>4. The(prev) = p
    BY <1>1, <2>3, SingleArea, TheOne
  <2>5. p.end \in Nat
    BY <1>2, <1>3
  <2> QED  BY <1>2, <2>1, <2>3, <2>4, <2>5
<1> QED  BY <1>3, <1>4 DEF IsPrev

LEMMA EndingIsPrev ==
  ASSUME NEW S, Areas(S), NEW addr, NEW end, Free(S, addr, end), NEW p \in S, p.end = addr
  PROVE  /\ {v \in S : v.end = addr} = {p}
         /\ IsPrev(S, {p}, addr, end)
<1>1. addr \in Nat /\ end \in Nat /\ addr < end
  BY DEF Free, Span
<1>2. \A u \in S : u.start \in Nat /\ u.end \in Nat /\ u.start < u.end
  BY SingleArea
<1>3. {v \in S : v.end = addr} = {p}
  BY <1>1, <1>2 DEF Areas, Apart
<1>4. The({p}) = p
  BY TheOnly
<1>5. Intersecting(S, p.end, end) = {}
  BY DEF Free
<1> QED  BY <1>1, <1>3, <1>4, <1>5 DEF IsPrev

-----------------------------------------------------------------------------
(* Mapping free pages                                                       *)

(* m with its pages up to what [addr, end) adds: what Account() adds next.  *)
KeptButFor(m, addr, end, flags) == Kept(m, end - addr, DataOf(flags, end - addr))

LEMMA InsertKeeps ==
  ASSUME NEW m, Kept(m, 0, 0), NEW addr, NEW end, Free(m.areas, addr, end),
         NEW v \in Area, v.start = addr, v.end = end
  PROVE  KeptButFor(vma_link(m, v), addr, end, v.flags) /\ Lays(m, vma_link(m, v), v)
<1> DEFINE w == vma_link(m, v)
           T == m.areas \cup {v}
<1>1. Areas(m.areas) /\ Space(m)
  BY DEF Kept
<1>2. Becomes(m.areas, T, 1, end - addr, DataOf(v.flags, end - addr), v.file)
  BY <1>1, Inset
<1> DEFINE k == m.map_count + 1
           u == Used(m.users, v.file, 1)
<1>3. w = [m EXCEPT !.areas = T, !.map_count = k, !.users = u]
  BY DEF vma_link
<1> HIDE DEF w, T, k, u
<1>4. /\ Space(w) /\ w.areas = T /\ w.map_count = k /\ w.users = u
      /\ w.total_vm = m.total_vm /\ w.data_vm = m.data_vm /\ w.anon_page = m.anon_page
  BY ONLY <1>1, <1>3 DEF Space
<1>5. end - addr \in Int /\ DataOf(v.flags, end - addr) \in Int
  BY DEF Free, Span, DataOf
<1>6. Counted(m, w, 1, end - addr, DataOf(v.flags, end - addr), v.file)
  BY <1>2, <1>4 DEF Counted, k, u
<1>7. Kept(w, 0 + (end - addr), 0 + DataOf(v.flags, end - addr))
  BY <1>5, <1>6, KeptBy
<1>8. 0 + (end - addr) = end - addr /\ 0 + DataOf(v.flags, end - addr) = DataOf(v.flags, end - addr)
  BY <1>5
<1>9. Lays(m, w, v)
  <2>1. Like(v, v) /\ Free(m.areas, v.start, v.end)
    BY DEF Like
  <2>2. Overlaid(m.areas, T, v)
    BY <1>1, <2>1, OverFree DEF T
  <2> QED  BY <1>4, <2>2 DEF Lays
<1> QED  BY <1>7, <1>8, <1>9 DEF KeptButFor, w

(* Some areas become others, gone fewer; nothing else changes.              *)
Regrouped(m, w, T, gone) ==
  /\ Space(w) /\ w.areas = T /\ w.map_count = m.map_count - gone /\ w.users = m.users
  /\ w.total_vm = m.total_vm /\ w.data_vm = m.data_vm /\ w.anon_page = m.anon_page

LEMMA FilledKeeps ==
  ASSUME NEW m, Kept(m, 0, 0), NEW addr, NEW end, Span(addr, end), NEW T, NEW gone \in Int,
         NEW flags, Filled(m.areas, T, addr, end, flags, gone), NEW w, Regrouped(m, w, T, gone)
  PROVE  KeptButFor(w, addr, end, flags)
<1>1. end - addr \in Int /\ DataOf(flags, end - addr) \in Int /\ 0 - gone \in Int
  BY DEF Span, DataOf
<1>2. Areas(m.areas) /\ m.map_count = SumOf(One, m.areas)
  BY DEF Kept
<1>3. m.map_count \in Int
  BY <1>2, SumsOfAreas
<1>4. w.map_count = m.map_count + (0 - gone)
  BY <1>3 DEF Regrouped
<1>5. w.users = Used(m.users, NoFile, 1)
  BY FilesDiffer DEF Regrouped, Used
<1>6. Counted(m, w, 0 - gone, end - addr, DataOf(flags, end - addr), NoFile)
  BY <1>4, <1>5 DEF Counted, Filled, Regrouped
<1>7. Kept(w, 0 + (end - addr), 0 + DataOf(flags, end - addr))
  BY <1>1, <1>6, KeptBy
<1>8. 0 + (end - addr) = end - addr /\ 0 + DataOf(flags, end - addr) = DataOf(flags, end - addr)
  BY <1>1
<1> QED  BY <1>7, <1>8 DEF KeptButFor

LEMMA AccountCloses ==
  ASSUME NEW m, NEW addr, NEW end, Span(addr, end), NEW flags, KeptButFor(m, addr, end, flags)
  PROVE  Kept(Account(m, flags, end - addr), 0, 0)
<1> DEFINE pages == end - addr
           data == DataOf(flags, pages)
<1>1. pages \in Int /\ data \in Int
  BY DEF Span, DataOf
<1>2. Kept(Account(m, flags, pages), pages - pages, data - DataOf(flags, pages))
  BY <1>1, Accounted DEF KeptButFor
<1>3. pages - pages = 0 /\ data - data = 0
  BY <1>1
<1> QED  BY <1>2, <1>3

LEMMA WithMergeKeeps ==
  ASSUME NEW m, Kept(m, 0, 0), NEW addr, NEW end, Span(addr, end), NEW flags,
         NEW r, Freed(m.areas, r, addr, end, flags)
  PROVE  /\ KeptButFor(WithMerge(m, r), addr, end, flags)
         /\ WithMerge(m, r).areas = r.areas /\ WithMerge(m, r).anon_page = m.anon_page
<1> DEFINE w == WithMerge(m, r)
           T == r.areas
           k == m.map_count - r.gone
<1>1. w = [m EXCEPT !.areas = T, !.map_count = k]
  BY DEF WithMerge
<1>2. Space(m)
  BY DEF Kept
<1> HIDE DEF w, T, k
<1>3. /\ Space(w) /\ w.areas = T /\ w.map_count = k /\ w.users = m.users
      /\ w.total_vm = m.total_vm /\ w.data_vm = m.data_vm /\ w.anon_page = m.anon_page
  BY ONLY <1>1, <1>2 DEF Space
<1>4. Regrouped(m, w, T, r.gone) /\ Filled(m.areas, T, addr, end, flags, r.gone)
  BY <1>3 DEF Regrouped, Freed, T, k
<1>5. r.gone \in Int
  BY DEF Freed
<1> QED  BY <1>3, <1>4, <1>5, FilledKeeps DEF w, T

LEMMA MapFreeKeeps ==
  ASSUME NEW m, Kept(m, 0, 0), NEW addr, NEW end, Free(m.areas, addr, end),
         NEW flags \in Flags, NEW file \in Mapped, NEW pgoff \in Int,
         NEW w \in MapFree(m, addr, end, flags, file, pgoff)
  PROVE  KeptButFor(w, addr, end, flags) /\ Lays(m, w, Over(addr, end, flags, file, pgoff, NoAnon))
<1> DEFINE x     == Over(addr, end, flags, file, pgoff, NoAnon)
           S     == m.areas
           next  == {v \in vma_lookup(m.areas, end) :
                       can_vma_merge_before(v, flags, NoAnon, file, pgoff + (end - addr))}
           n     == The(next)
           anon  == IF next = {} THEN NoAnon ELSE n.anon
           prev  == {v \in vma_prev(m.areas, addr) :
                       v.end = addr /\ can_vma_merge_after(v, flags, anon, file, pgoff)}
           p     == The(prev)
           v     == The(IF prev = {} THEN next ELSE prev)
           start == IF prev = {} THEN addr ELSE v.start
           stop  == IF next = {} THEN end ELSE n.end
           off   == IF prev = {} THEN v.pgoff - (end - addr) ELSE v.pgoff
<1>1. addr \in Nat /\ end \in Nat /\ addr < end /\ Span(addr, end)
  BY DEF Free, Span
<1>2. Areas(S) /\ Space(m)
  BY DEF Kept
<1>0. /\ x.start = addr /\ x.end = end /\ x.flags = flags /\ x.file = file
      /\ x.pgoff = pgoff /\ x.anon = NoAnon
  BY OverFields
<1>3. CASE w = Insert(m, addr, end, flags, file, pgoff)
  <2> DEFINE a == [start |-> addr, end |-> end, flags |-> flags, file |-> file,
                   pgoff |-> pgoff, anon |-> NoAnon]
  <2>1. a \in Area /\ a.start = addr /\ a.end = end /\ a.flags = flags /\ a = x
    BY <1>1 DEF Area, NoAnon, Over
  <2>2. w = vma_link(m, a)
    BY <1>3 DEF Insert
  <2> HIDE DEF a, x
  <2>3. KeptButFor(w, addr, end, a.flags) /\ Lays(m, w, a)
    BY <2>1, <2>2, InsertKeeps
  <2> QED  BY <2>1, <2>3 DEF x
<1>4. CASE prev \cup next # {} /\ w = vma_expand(m, v, start, stop, off, next)
  <2> HIDE DEF x
  <2>1. \A u \in next : /\ u \in S /\ u \in Area /\ u.start = end /\ u.flags = flags /\ u.file = file
                        /\ file \notin Closers /\ u.pgoff = pgoff + (end - addr)
    BY <1>2, FreeIsClear DEF can_vma_merge_before, is_mergeable_vma, Areas
  <2>2. \A u \in prev : /\ u \in S /\ u \in Area /\ u.end = addr /\ u.flags = flags /\ u.file = file
                        /\ u.pgoff + (addr - u.start) = pgoff
                        /\ anon = u.anon \/ anon = NoAnon \/ u.anon = NoAnon
    <3> HIDE DEF next, anon
    <3> QED  BY <1>2 DEF can_vma_merge_after, is_mergeable_vma, is_mergeable_anon_vma, vma_prev,
                         vma_pages, Areas
  <2>0. anon = IF next = {} THEN NoAnon ELSE n.anon
    OBVIOUS
  <2>3. /\ next # {} => n \in next /\ next = {n}
        /\ prev # {} => p \in prev
    <3>1. \A t, u \in next : t = u
      BY <1>1, <1>2, SingleArea
    <3> HIDE DEF next, prev
    <3> QED  BY <3>1, TheOne
  <2>4. (prev = {} => v = n) /\ (prev # {} => v = p)
    OBVIOUS
  <2> HIDE DEF next, prev, n, p, v, anon
  <2> DEFINE over == {u \in next : u # v /\ u.end = stop}
             o    == IF over = {} THEN v ELSE dup_anon_vma(v, The(over))
             a    == [o EXCEPT !.start = start, !.end = stop, !.pgoff = off]
             T    == (S \ ({v} \cup over)) \cup {a}
             k    == m.map_count - Cardinality(over)
  <2>5. Space(w) /\ w.areas = T /\ w.map_count = k /\ w.users = m.users
        /\ w.total_vm = m.total_vm /\ w.data_vm = m.data_vm /\ w.anon_page = m.anon_page
    <3>1. w = [m EXCEPT !.areas = T, !.map_count = k]
      BY <1>4 DEF vma_expand
    <3> HIDE DEF T, k
    <3> QED  BY ONLY <1>2, <3>1 DEF Space
  <2>6. v \in S /\ v \in Area /\ v.pgoff \in Int /\ v.start \in Nat /\ v.end \in Nat
    <3>1. v \in S /\ v \in Area
      BY <1>4, <2>1, <2>2, <2>3, <2>4
    <3> QED  BY <3>1, AreaFields
  <2>7. start \in Nat /\ stop \in Nat /\ off \in Int
    <3>1. next # {} => n.end \in Nat
      BY <2>1, <2>3, AreaFields
    <3> QED  BY <1>1, <2>6, <3>1
  <2>8. CASE prev = {}
    <3>1. next = {n} /\ v = n /\ over = {} /\ o = n /\ start = addr /\ stop = n.end
      BY <1>4, <2>3, <2>4, <2>8
    <3>2. /\ a \in Area /\ a.start = addr /\ a.end = n.end /\ a.flags = n.flags /\ a.file = n.file
          /\ a.pgoff = off /\ a.anon = n.anon
      <4>1. o \in Area
        BY <2>6, <3>1
      <4>2. a = PlacedAt(o, start, stop, off)
        BY DEF PlacedAt
      <4> HIDE DEF start, stop, off, o, a
      <4>3. HasPlace(a, o, start, stop) /\ a.pgoff = off /\ a.anon = o.anon
        BY <2>7, <4>1, <4>2, OtherPlace
      <4> QED  BY <3>1, <4>3 DEF HasPlace
    <3>3. T = (S \ {n}) \cup {a} /\ Cardinality(over) = 0
      <4> HIDE DEF a
      <4> QED  BY <3>1, FS_EmptySet
    <3> HIDE DEF a
    <3>4. Filled(S, (S \ {n}) \cup {a}, addr, end, flags, 0)
      <4>1. n \in S /\ n.start = end /\ n.flags = flags
        BY <2>1, <2>3, <3>1
      <4> QED  BY <1>2, <3>2, <4>1, GrowNext
    <3>6. Overlaid(S, (S \ {n}) \cup {a}, x)
      <4>1. /\ n \in S /\ n.start = end /\ n.flags = flags /\ n.file = file
            /\ n.pgoff = pgoff + (end - addr) /\ n.pgoff \in Int /\ off = n.pgoff - (end - addr)
        BY <2>1, <2>3, <2>8, <3>1, AreaFields
      <4> HIDE DEF off
      <4>2. Like(a, n) /\ Like(a, x)
        BY <1>0, <1>1, <3>2, <4>1 DEF Like
      <4> QED  BY <1>0, <1>2, <3>2, <4>1, <4>2, OverFree
    <3>5. Regrouped(m, w, T, 0)
      BY <2>5, <3>3 DEF Regrouped
    <3> HIDE DEF T
    <3> QED  BY <1>1, <2>5, <3>3, <3>4, <3>5, <3>6, FilledKeeps DEF Lays, x
  <2>9. CASE prev # {} /\ next = {}
    <3>1. v = p /\ over = {} /\ o = p /\ start = p.start /\ stop = end
      BY <2>3, <2>4, <2>9
    <3>2. /\ a \in Area /\ a.start = p.start /\ a.end = end /\ a.flags = p.flags /\ a.file = p.file
          /\ a.pgoff = off /\ a.anon = p.anon
      <4>1. o \in Area
        BY <2>6, <3>1
      <4>2. a = PlacedAt(o, start, stop, off)
        BY DEF PlacedAt
      <4> HIDE DEF start, stop, off, o, a
      <4>3. HasPlace(a, o, start, stop) /\ a.pgoff = off /\ a.anon = o.anon
        BY <2>7, <4>1, <4>2, OtherPlace
      <4> QED  BY <3>1, <4>3 DEF HasPlace
    <3>3. T = (S \ {p}) \cup {a} /\ Cardinality(over) = 0
      <4> HIDE DEF a
      <4> QED  BY <3>1, FS_EmptySet
    <3> HIDE DEF a
    <3>4. Filled(S, (S \ {p}) \cup {a}, addr, end, flags, 0)
      <4>1. p \in S /\ p.end = addr /\ p.flags = flags
        BY <2>2, <2>3, <2>9
      <4> QED  BY <1>2, <3>2, <4>1, GrowPrev
    <3>6. Overlaid(S, (S \ {p}) \cup {a}, x)
      <4>1. /\ p \in S /\ p.end = addr /\ p.flags = flags /\ p.file = file
            /\ p.pgoff + (addr - p.start) = pgoff /\ off = p.pgoff
            /\ p.pgoff \in Int /\ p.start \in Nat
        BY <2>2, <2>3, <2>9, <3>1, AreaFields
      <4> HIDE DEF off
      <4>2. Like(a, p) /\ Like(a, x)
        BY <1>0, <1>1, <3>2, <4>1 DEF Like
      <4> QED  BY <1>0, <1>2, <3>2, <4>1, <4>2, OverFree
    <3>5. Regrouped(m, w, T, 0)
      BY <2>5, <3>3 DEF Regrouped
    <3> HIDE DEF T
    <3> QED  BY <1>1, <2>5, <3>3, <3>4, <3>5, <3>6, FilledKeeps DEF Lays, x
  <2>10. CASE prev # {} /\ next # {}
    <3>1. /\ v = p /\ p \in S /\ p \in Area /\ p.end = addr /\ p.flags = flags /\ p.file = file
          /\ next = {n} /\ n \in S /\ n \in Area /\ n.start = end /\ n.flags = flags
          /\ n.file = file /\ file \notin Closers
      BY <2>1, <2>2, <2>3, <2>4, <2>10
    <3>2. n # p
      BY <1>1, <1>2, <3>1, SingleArea
    <3>3. over = {n} /\ start = p.start /\ stop = n.end
      BY <2>10, <3>1, <3>2
    <3>4. o = dup_anon_vma(p, n)
      <4> HIDE DEF over
      <4> QED  BY <3>1, <3>3, TheOnly
    <3>5. /\ o \in Area /\ o.start = p.start /\ o.flags = p.flags /\ o.file = p.file
          /\ o.anon = IF p.anon = NoAnon THEN n.anon ELSE p.anon
      <4> HIDE DEF o
      <4> QED  BY <3>1, <3>4, DupKeeps
    <3>6. /\ a \in Area /\ a.start = p.start /\ a.end = n.end /\ a.flags = p.flags /\ a.file = p.file
          /\ a.pgoff = off /\ a.anon = o.anon
      <4>1. a = PlacedAt(o, start, stop, off)
        BY DEF PlacedAt
      <4> HIDE DEF start, stop, off, o, a
      <4>2. HasPlace(a, o, start, stop) /\ a.pgoff = off /\ a.anon = o.anon
        BY <2>7, <3>5, <4>1, OtherPlace
      <4> QED  BY <3>3, <3>5, <4>2 DEF HasPlace
    <3>7. T = (S \ {p, n}) \cup {a} /\ k = m.map_count - 1
      <4> HIDE DEF a, over
      <4>1. {v} \cup over = {p, n}
        BY <3>1, <3>3
      <4>2. Cardinality(over) = 1
        BY <3>3, FS_Singleton
      <4>3. T = (S \ {p, n}) \cup {a}
        BY <4>1
      <4> QED  BY <4>2, <4>3
    <3> HIDE DEF a
    <3>8. Filled(S, (S \ {p, n}) \cup {a}, addr, end, flags, 1)
      <4>1. /\ p \in S /\ p.end = addr /\ n \in S /\ n.start = end /\ n.flags = p.flags
            /\ n.file = p.file /\ p.file \notin Closers
        BY <3>1
      <4> HIDE DEF S
      <4>2. Filled(S, (S \ {p, n}) \cup {a}, addr, end, p.flags, 1)
        BY <1>2, <3>6, <4>1, Bridge DEF S
      <4> QED  BY <3>1, <4>2
    <3>9. Regrouped(m, w, T, 1)
      <4> HIDE DEF T, k, over
      <4> QED  BY <2>5, <3>7 DEF Regrouped
    <3>10. Overlaid(S, (S \ {p, n}) \cup {a}, x)
      <4>1. /\ p \in S /\ p.end = addr /\ p.flags = flags /\ p.file = file
            /\ p.pgoff + (addr - p.start) = pgoff /\ off = p.pgoff
            /\ p.pgoff \in Int /\ p.start \in Nat
            /\ n \in S /\ n.start = end /\ n.flags = flags /\ n.file = file
            /\ n.pgoff = pgoff + (end - addr) /\ n.pgoff \in Int
            /\ n.anon = p.anon \/ n.anon = NoAnon \/ p.anon = NoAnon
        BY <2>0, <2>1, <2>2, <2>3, <2>10, <3>1, AreaFields
      <4> HIDE DEF off, o, a
      <4>2. Like(a, p) /\ Like(a, n) /\ Like(a, x)
        BY ONLY <1>0, <1>1, <3>5, <3>6, <4>1, pgoff \in Int DEF Like
      <4> QED  BY <1>0, <1>2, <3>6, <4>1, <4>2, OverFree
    <3> HIDE DEF T
    <3> QED  BY <1>1, <2>5, <3>7, <3>8, <3>9, <3>10, FilledKeeps DEF Lays, x
  <2> QED  BY <2>8, <2>9, <2>10
<1>5. \/ w = Insert(m, addr, end, flags, file, pgoff)
      \/ prev \cup next # {} /\ w = vma_expand(m, v, start, stop, off, next)
  <2>1. w \in {Insert(m, addr, end, flags, file, pgoff)} \cup
              IF prev \cup next = {} THEN {} ELSE {vma_expand(m, v, start, stop, off, next)}
    BY Zenon DEF MapFree
  <2> HIDE DEF prev, next, v, start, stop, off
  <2> QED  BY <2>1
<1> QED  BY <1>3, <1>4, <1>5

LEMMA BrkKeeps ==
  ASSUME NEW m, Kept(m, 0, 0), NEW addr, NEW end, Free(m.areas, addr, end)
  PROVE  /\ KeptButFor(do_brk_flags(m, addr, end), addr, end, "rw")
         /\ Lays(m, do_brk_flags(m, addr, end), Over(addr, end, "rw", NoFile, addr, NoAnon))
<1> DEFINE S    == m.areas
           x    == Over(addr, end, "rw", NoFile, addr, NoAnon)
           w    == do_brk_flags(m, addr, end)
           heap == {v \in vma_prev(S, addr) :
                      v.end = addr /\ can_vma_merge_after(v, "rw", NoAnon, NoFile, addr)}
           p    == The(heap)
<1>0. /\ x.start = addr /\ x.end = end /\ x.flags = "rw" /\ x.file = NoFile
      /\ x.pgoff = addr /\ x.anon = NoAnon
  BY OverFields
<1>1. addr \in Nat /\ end \in Nat /\ addr < end /\ Span(addr, end)
  BY DEF Free, Span
<1>2. Areas(S) /\ Space(m)
  BY DEF Kept
<1>3. CASE heap = {}
  <2> DEFINE a == [start |-> addr, end |-> end, flags |-> "rw", file |-> NoFile,
                   pgoff |-> addr, anon |-> NoAnon]
  <2>1. a \in Area /\ a.start = addr /\ a.end = end /\ a.flags = "rw" /\ a = x
    BY <1>1, FilesDiffer DEF Area, NoAnon, Over
  <2>2. w = vma_link(m, a)
    BY <1>3 DEF Insert, do_brk_flags
  <2> HIDE DEF a, w, x
  <2>3. KeptButFor(vma_link(m, a), addr, end, a.flags) /\ Lays(m, vma_link(m, a), a)
    BY <2>1, InsertKeeps
  <2> QED  BY <2>1, <2>2, <2>3 DEF w, x
<1>4. CASE heap # {}
  <2> HIDE DEF x
  <2>1. \A u \in heap : /\ u \in S /\ u \in Area /\ u.end = addr /\ u.flags = "rw"
                        /\ u.file = NoFile /\ u.pgoff + (addr - u.start) = addr
    BY <1>2 DEF can_vma_merge_after, is_mergeable_vma, vma_prev, Areas, vma_pages
  <2>2. heap = {p}
    <3>1. \A t, u \in heap : t = u
      BY <1>1, <1>2, SingleArea
    <3> HIDE DEF heap
    <3> QED  BY <1>4, <3>1, TheOne
  <2> DEFINE a == [p EXCEPT !.end = end]
             T == (S \ {p}) \cup {a}
  <2>3. w = [m EXCEPT !.areas = T]
    <3>1. w = [m EXCEPT !.areas = (S \ heap) \cup {[p EXCEPT !.end = end]}]
      BY <1>4, Zenon DEF do_brk_flags
    <3> HIDE DEF heap, p
    <3> QED  BY <2>2, <3>1
  <2> HIDE DEF heap, p
  <2>4. /\ p \in S /\ p \in Area /\ p.end = addr /\ p.flags = "rw"
        /\ p.file = NoFile /\ p.pgoff + (addr - p.start) = addr
    BY <2>1, <2>2
  <2>5. /\ a \in Area /\ a.start = p.start /\ a.end = end /\ a.flags = p.flags /\ a.file = p.file
        /\ a.pgoff = p.pgoff /\ a.anon = p.anon
    BY <1>1, <2>4, OtherEnd
  <2> HIDE DEF a
  <2>6. Filled(S, T, addr, end, "rw", 0)
    <3>1. p \in S /\ p.end = addr /\ p.flags = "rw"
      BY <2>4
    <3> QED  BY <1>2, <2>5, <3>1, GrowPrev
  <2> HIDE DEF T, w
  <2>7. /\ Space(w) /\ w.areas = T /\ w.map_count = m.map_count /\ w.users = m.users
        /\ w.total_vm = m.total_vm /\ w.data_vm = m.data_vm /\ w.anon_page = m.anon_page
    BY ONLY <1>2, <2>3 DEF Space
  <2>8. m.map_count = m.map_count - 0
    BY <1>2, SumsOfAreas DEF Kept
  <2>9. Regrouped(m, w, T, 0)
    BY <2>7, <2>8 DEF Regrouped
  <2>10. Like(a, p) /\ Like(a, x)
    <3>1. p.start \in Nat /\ p.pgoff \in Int
      BY <2>4, AreaFields
    <3> QED  BY ONLY <1>0, <1>1, <2>4, <2>5, <3>1 DEF Like
  <2>11. Overlaid(S, T, x)
    BY <1>0, <1>2, <2>4, <2>5, <2>10, OverFree DEF T
  <2>12. Lays(m, w, x)
    BY <2>7, <2>11 DEF Lays
  <2> QED  BY <1>1, <2>6, <2>9, <2>12, FilledKeeps DEF w, x
<1> QED  BY <1>3, <1>4

-----------------------------------------------------------------------------
(* What a space maps, and whether what was written to it can be found       *)

ContentIn(S, p) ==
  LET v == The(vma_lookup(S, p)) IN
  IF vma_lookup(S, p) = {} THEN Unmapped
  ELSE [flags |-> v.flags, file |-> v.file, off |-> v.pgoff + p - v.start]

MapOf(m) == [p \in Page |-> ContentIn(m.areas, p)]

With(map, x) ==
  [p \in Page |-> IF Holds(x, p)
                  THEN [flags |-> x.flags, file |-> x.file, off |-> x.pgoff + p - x.start]
                  ELSE map[p]]
Without(map, start, end) ==
  [p \in Page |-> IF start <= p /\ p < end THEN Unmapped ELSE map[p]]

(* The area of every page that was written to leads to it.                  *)
FoundIn(S, pages) ==
  \A p \in Page : pages[p] # NoPage =>
    /\ pages[p].anon # NoAnon
    /\ \E v \in S : Holds(v, p) /\ pages[p] = [anon |-> v.anon, index |-> v.pgoff + p - v.start]

Found(m) ==
  /\ m.anon_page = [p \in Page |-> m.anon_page[p]] /\ FoundIn(m.areas, m.anon_page)
  /\ \A v \in m.areas : v.pgoff >= 0

Good(m) == Kept(m, 0, 0) /\ Found(m)

LEMMA PagesAreNumbers == \A p \in Page : p \in Nat
BY SpaceAssumption DEF Page

LEMMA HeldByOne ==
  ASSUME NEW S, Areas(S), NEW p \in Nat, NEW v \in S, Holds(v, p), NEW w \in S, Holds(w, p)
  PROVE  v = w
<1>1. v.start \in Nat /\ v.end \in Nat /\ w.start \in Nat /\ w.end \in Nat
  BY SingleArea
<1> QED  BY <1>1 DEF Areas, Apart, Holds

LEMMA ContentOfHeld ==
  ASSUME NEW S, Areas(S), NEW p \in Nat
  PROVE  /\ \A v \in S : Holds(v, p) =>
              ContentIn(S, p) = [flags |-> v.flags, file |-> v.file, off |-> v.pgoff + p - v.start]
         /\ (\A v \in S : ~Holds(v, p)) => ContentIn(S, p) = Unmapped
<1>1. vma_lookup(S, p) = {v \in S : Holds(v, p)}
  BY DEF vma_lookup, Holds
<1>2. ASSUME NEW v \in S, Holds(v, p)
      PROVE  ContentIn(S, p) = [flags |-> v.flags, file |-> v.file, off |-> v.pgoff + p - v.start]
  <2>1. vma_lookup(S, p) = {v}
    BY <1>1, <1>2, HeldByOne
  <2>2. The(vma_lookup(S, p)) = v /\ vma_lookup(S, p) # {}
    BY <2>1, TheOnly
  <2> QED  BY <2>2 DEF ContentIn
<1>3. (\A v \in S : ~Holds(v, p)) => ContentIn(S, p) = Unmapped
  BY <1>1 DEF ContentIn
<1> QED  BY <1>2, <1>3

(* Pages are mapped: what is said of the areas holds of the map.            *)
LEMMA LaysContent ==
  ASSUME NEW S, Areas(S), NEW T, Areas(T), NEW x, Overlaid(S, T, x),
         x.start \in Nat, x.pgoff \in Int, NEW p \in Nat
  PROVE  ContentIn(T, p) =
           IF Holds(x, p) THEN [flags |-> x.flags, file |-> x.file, off |-> x.pgoff + p - x.start]
           ELSE ContentIn(S, p)
<1>0. \A v \in S \cup T : v.start \in Nat /\ v.pgoff \in Int
  BY AreaFields DEF Areas
<1>1. CASE Holds(x, p)
  <2>1. PICK w \in T : Holds(w, p) /\ Like(w, x) /\ w.flags = x.flags
    BY <1>1 DEF Overlaid, Laid
  <2>2. w.file = x.file /\ w.pgoff + p - w.start = x.pgoff + p - x.start
    BY <1>0, <2>1 DEF Like
  <2> QED  BY <1>1, <2>1, <2>2, ContentOfHeld
<1>2. CASE ~Holds(x, p) /\ \E v \in S : Holds(v, p)
  <2>1. PICK v \in S : Holds(v, p)
    BY <1>2
  <2>2. PICK w \in T : Holds(w, p) /\ Like(w, v) /\ w.flags = v.flags
    BY <1>2, <2>1 DEF Overlaid, Carried, FlagsUnder
  <2>3. w.file = v.file /\ w.pgoff + p - w.start = v.pgoff + p - v.start
    BY <1>0, <2>2 DEF Like
  <2>4. ContentIn(S, p) = [flags |-> v.flags, file |-> v.file, off |-> v.pgoff + p - v.start]
    BY <2>1, ContentOfHeld
  <2>5. ContentIn(T, p) = [flags |-> w.flags, file |-> w.file, off |-> w.pgoff + p - w.start]
    BY <2>2, ContentOfHeld
  <2> QED  BY <1>2, <2>2, <2>3, <2>4, <2>5
<1>3. CASE ~Holds(x, p) /\ \A v \in S : ~Holds(v, p)
  <2>1. \A w \in T : ~Holds(w, p)
    BY <1>3 DEF Overlaid, NoMore
  <2> QED  BY <1>3, <2>1, ContentOfHeld
<1> QED  BY <1>1, <1>2, <1>3

LEMMA LaysMap ==
  ASSUME NEW m, Areas(m.areas), NEW w, Areas(w.areas), NEW x, Lays(m, w, x),
         x.start \in Nat, x.pgoff \in Int
  PROVE  MapOf(w) = With(MapOf(m), x)
<1>1. \A p \in Page : ContentIn(w.areas, p) =
        IF Holds(x, p) THEN [flags |-> x.flags, file |-> x.file, off |-> x.pgoff + p - x.start]
        ELSE ContentIn(m.areas, p)
  BY PagesAreNumbers, LaysContent DEF Lays
<1> QED  BY <1>1 DEF MapOf, With

LEMMA LaysFound ==
  ASSUME NEW m, Areas(m.areas), NEW w, Areas(w.areas), NEW x, Lays(m, w, x),
         x.start \in Nat, x.pgoff \in Nat, Found(m)
  PROVE  Found(w)
<1>0. \A v \in m.areas \cup w.areas : /\ v.start \in Nat /\ v.end \in Nat /\ v.start < v.end
                                     /\ v.pgoff \in Int
  BY AreaFields, SingleArea DEF Areas
<1>1. ASSUME NEW p \in Page, w.anon_page[p] # NoPage
      PROVE  /\ w.anon_page[p].anon # NoAnon
             /\ \E v \in w.areas : /\ Holds(v, p)
                                   /\ w.anon_page[p] = [anon |-> v.anon, index |-> v.pgoff + p - v.start]
  <2>1. w.anon_page[p] = m.anon_page[p] /\ w.anon_page[p].anon # NoAnon
    BY <1>1 DEF Lays, Found, FoundIn
  <2>2. PICK v \in m.areas :
          Holds(v, p) /\ m.anon_page[p] = [anon |-> v.anon, index |-> v.pgoff + p - v.start]
    BY <1>1, <2>1 DEF Found, FoundIn
  <2>3. PICK u \in w.areas : Holds(u, p) /\ Like(u, v)
    BY <2>2, PagesAreNumbers DEF Lays, Overlaid, Carried
  <2>4. v.anon # NoAnon
    BY <2>1, <2>2
  <2>5. u.anon = v.anon /\ u.pgoff + p - u.start = v.pgoff + p - v.start
    BY <1>0, <2>3, <2>4, PagesAreNumbers DEF Like
  <2> QED  BY <2>1, <2>2, <2>3, <2>5
<1>2. ASSUME NEW w1 \in w.areas  PROVE w1.pgoff >= 0
  <2> DEFINE p == w1.start
  <2>1. p \in Nat /\ Holds(w1, p)
    BY <1>0 DEF Holds
  <2>2. CASE Holds(x, p)
    <3>1. PICK u \in w.areas : Holds(u, p) /\ Like(u, x)
      BY <2>1, <2>2 DEF Lays, Overlaid, Laid
    <3>2. u = w1
      BY <2>1, <3>1, HeldByOne
    <3> QED  BY <1>0, <2>2, <3>1, <3>2 DEF Like, Holds
  <2>3. CASE ~Holds(x, p)
    <3>1. PICK v \in m.areas : Holds(v, p)
      BY <2>1, <2>3 DEF Lays, Overlaid, NoMore
    <3>2. PICK u \in w.areas : Holds(u, p) /\ Like(u, v)
      BY <2>1, <3>1 DEF Lays, Overlaid, Carried
    <3>3. u = w1 /\ v.pgoff >= 0
      BY <2>1, <3>2, HeldByOne DEF Found
    <3> QED  BY <1>0, <3>1, <3>2, <3>3 DEF Like, Holds
  <2> QED  BY <2>2, <2>3
<1> QED  BY <1>1, <1>2 DEF Found, FoundIn, Lays

(* A split changes neither.                                                 *)
LEMMA NowhereFields ==
  /\ Nowhere.start = 0 /\ Nowhere.end = 0 /\ Nowhere.pgoff = 0
  /\ \A p \in Nat : ~Holds(Nowhere, p)
  /\ \A map : With([p \in Page |-> map[p]], Nowhere) = [p \in Page |-> map[p]]
<1>1. Nowhere.start = 0 /\ Nowhere.end = 0 /\ Nowhere.pgoff = 0
  BY DEF Nowhere, Over
<1>2. \A p \in Nat : ~Holds(Nowhere, p)
  BY <1>1 DEF Holds
<1>3. ASSUME NEW map  PROVE With([p \in Page |-> map[p]], Nowhere) = [p \in Page |-> map[p]]
  <2>1. \A p \in Page : ~Holds(Nowhere, p)
    BY <1>2, PagesAreNumbers
  <2> QED  BY <2>1 DEF With
<1> QED  BY <1>1, <1>2, <1>3

LEMMA LaysNothing ==
  ASSUME NEW m, Areas(m.areas), NEW w, Areas(w.areas), Lays(m, w, Nowhere)
  PROVE  MapOf(w) = MapOf(m) /\ (Found(m) => Found(w))
<1>1. MapOf(w) = With(MapOf(m), Nowhere)
  BY LaysMap, NowhereFields
<1>2. With(MapOf(m), Nowhere) = MapOf(m)
  <2>1. \A p \in Page : ~Holds(Nowhere, p)
    BY NowhereFields, PagesAreNumbers
  <2> QED  BY <2>1 DEF With, MapOf
<1>3. Found(m) => Found(w)
  BY LaysFound, NowhereFields
<1> QED  BY <1>1, <1>2, <1>3

LEMMA SplitLays ==
  ASSUME NEW m, Kept(m, 0, 0), NEW addr \in Nat
  PROVE  /\ Lays(m, SplitAt(m, addr), Nowhere)
         /\ \A v \in SplitAt(m, addr).areas :
              /\ ~(v.start < addr /\ addr < v.end)
              /\ \E u \in m.areas : u.start <= v.start /\ v.end <= u.end
<1> DEFINE w == SplitAt(m, addr)
<1>1. Areas(m.areas) /\ w.anon_page = m.anon_page
  BY SplitAtKeeps DEF Kept
<1>2. CASE w = m /\ \A v \in m.areas : ~(v.start < addr /\ addr < v.end)
  <2>1. Overlaid(m.areas, m.areas, Nowhere)
    BY <1>1, OverNothing
  <2>2. \A v \in m.areas : v.start \in Nat /\ v.end \in Nat
    BY <1>1, SingleArea
  <2>3. \A v \in m.areas : v.start <= v.start /\ v.end <= v.end
    BY <2>2
  <2> HIDE DEF w
  <2> QED  BY <1>2, <2>1, <2>3 DEF Lays, w
<1>3. ASSUME NEW v \in m.areas, v.start < addr, addr < v.end,
             w.areas = (m.areas \ {v}) \cup {Left(v, addr), Right(v, addr)}
      PROVE  /\ Overlaid(m.areas, w.areas, Nowhere)
             /\ \A u \in w.areas : /\ ~(u.start < addr /\ addr < u.end)
                                   /\ \E t \in m.areas : t.start <= u.start /\ u.end <= t.end
  <2> DEFINE a == Left(v, addr)
             b == Right(v, addr)
  <2>1. /\ v \in Area /\ v.start \in Nat /\ v.end \in Nat /\ v.pgoff \in Int
        /\ \A u \in m.areas : u.start \in Nat /\ u.end \in Nat /\ u.start < u.end
        /\ \A u \in m.areas \ {v} : u.end <= v.start \/ v.end <= u.start
    BY <1>1, SingleArea, AreaFields DEF Areas, Apart
  <2>2. /\ a \in Area /\ b \in Area /\ a.start = v.start /\ a.end = addr /\ a.flags = v.flags
        /\ a.file = v.file /\ b.start = addr /\ b.end = v.end /\ b.flags = v.flags
        /\ b.file = v.file /\ a.pgoff = v.pgoff /\ a.anon = v.anon
        /\ b.pgoff = v.pgoff + (addr - v.start) /\ b.anon = v.anon
    BY <2>1, LeftAndRight
  <2> HIDE DEF a, b, w
  <2>3. Like(a, v) /\ Like(b, v)
    BY <2>1, <2>2 DEF Like
  <2>4. Overlaid(m.areas, w.areas, Nowhere)
    <3>1. w.areas = (m.areas \ {v}) \cup {a, b}
      BY <1>3 DEF a, b
    <3>2. Overlaid(m.areas, (m.areas \ {v}) \cup {a, b}, Nowhere)
      <4>1. v.start <= a.end /\ a.end <= v.end /\ a.end = b.start
        BY <1>3, <2>1, <2>2
      <4> QED  BY <1>1, <2>2, <2>3, <4>1, OverNothing
    <3> QED  BY <3>1, <3>2
  <2>5. ASSUME NEW u \in w.areas
        PROVE  /\ ~(u.start < addr /\ addr < u.end)
               /\ \E t \in m.areas : t.start <= u.start /\ u.end <= t.end
    <3>1. u \in m.areas \ {v} \/ u = a \/ u = b
      BY <1>3 DEF a, b
    <3>2. CASE u \in m.areas \ {v}
      <4>1. ~(u.start < addr /\ addr < u.end) /\ u.start <= u.start /\ u.end <= u.end
        BY <1>3, <2>1, <3>2
      <4> QED  BY <3>2, <4>1
    <3>3. CASE u = a \/ u = b
      <4>1. v.start <= u.start /\ u.end <= v.end /\ ~(u.start < addr /\ addr < u.end)
        BY <1>3, <2>1, <2>2, <3>3
      <4> QED  BY <4>1
    <3> QED  BY <3>1, <3>2, <3>3
  <2> QED  BY <2>4, <2>5
<1>4. \/ w = m /\ \A v \in m.areas : ~(v.start < addr /\ addr < v.end)
      \/ \E v \in m.areas :
           /\ v.start < addr /\ addr < v.end
           /\ w.areas = (m.areas \ {v}) \cup {Left(v, addr), Right(v, addr)}
  BY SplitAtKeeps
<1> HIDE DEF w
<1> QED  BY <1>1, <1>2, <1>3, <1>4 DEF Lays, w

LEMMA Outcomes ==
  ASSUME NEW m
  PROVE  /\ Succeeds(m).mm = m /\ Fails(m).mm = m /\ BUG(m).mm = m
         /\ Succeeds(m).ends = "ok" /\ Fails(m).ends = "failed" /\ BUG(m).ends = "bug"
         /\ Ok(Succeeds(m)) /\ ~Ok(Fails(m)) /\ ~Ok(BUG(m))
BY DEF Succeeds, Fails, BUG, Ok

-----------------------------------------------------------------------------
(* munmap()                                                                 *)

(* The areas between two borders go.                                        *)
LEMMA RemoveEmpties ==
  ASSUME NEW m, Good(m), NEW start, NEW end, Span(start, end),
         \A v \in m.areas : /\ ~(v.start < start /\ start < v.end)
                            /\ ~(v.start < end /\ end < v.end),
         NEW gone, gone = Intersecting(m.areas, start, end)
  PROVE  /\ Good(Remove(m, gone)) /\ Free(Remove(m, gone).areas, start, end)
         /\ MapOf(Remove(m, gone)) = Without(MapOf(m), start, end)
<1> DEFINE w == Remove(m, gone)
<1>1. /\ Kept(w, 0, 0) /\ w.areas = m.areas \ gone /\ gone \subseteq m.areas
      /\ w.anon_page = [q \in Page |-> IF \E v \in gone : q \in PagesOf(v) THEN NoPage ELSE m.anon_page[q]]
  <2>1. gone \subseteq m.areas
    BY DEF Intersecting
  <2> QED  BY <2>1, RemoveKeeps DEF Good
<1> HIDE DEF w
<1>2. /\ Areas(m.areas) /\ Areas(w.areas) /\ start \in Nat /\ end \in Nat /\ start < end
      /\ \A v \in m.areas : v.start \in Nat /\ v.end \in Nat /\ v.start < v.end
  BY <1>1, SingleArea DEF Good, Kept, Span
<1>3. \A v \in m.areas : \A p \in Nat : Holds(v, p) => (v \in gone <=> start <= p /\ p < end)
  <2> SUFFICES ASSUME NEW v \in m.areas, NEW p \in Nat, Holds(v, p)
               PROVE  v \in gone <=> start <= p /\ p < end
    OBVIOUS
  <2>1. v \in gone <=> v.start < end /\ v.end > start
    BY DEF Intersecting
  <2>2. /\ ~(v.start < start /\ start < v.end) /\ ~(v.start < end /\ end < v.end)
        /\ v.start <= p /\ p < v.end
    BY DEF Holds
  <2> QED  BY <1>2, <2>1, <2>2
<1>4. ASSUME NEW p \in Page
      PROVE  ContentIn(w.areas, p) = IF start <= p /\ p < end THEN Unmapped ELSE ContentIn(m.areas, p)
  <2>1. p \in Nat
    BY PagesAreNumbers
  <2>2. CASE \E v \in w.areas : Holds(v, p)
    <3>1. PICK v \in w.areas : Holds(v, p)
      BY <2>2
    <3>2. v \in m.areas /\ v \notin gone
      BY <1>1
    <3> QED  BY <1>2, <1>3, <2>1, <3>1, <3>2, ContentOfHeld
  <2>3. CASE \A v \in w.areas : ~Holds(v, p)
    <3>1. ContentIn(w.areas, p) = Unmapped
      BY <1>2, <2>1, <2>3, ContentOfHeld
    <3>2. ~(start <= p /\ p < end) => \A v \in m.areas : ~Holds(v, p)
      BY <1>1, <1>3, <2>1, <2>3
    <3> QED  BY <1>2, <2>1, <3>1, <3>2, ContentOfHeld
  <2> QED  BY <2>2, <2>3
<1>5. ASSUME NEW p \in Page, w.anon_page[p] # NoPage
      PROVE  /\ w.anon_page[p].anon # NoAnon
             /\ \E v \in w.areas : /\ Holds(v, p)
                                   /\ w.anon_page[p] = [anon |-> v.anon, index |-> v.pgoff + p - v.start]
  <2>1. w.anon_page[p] = m.anon_page[p] /\ \A v \in gone : p \notin PagesOf(v)
    BY <1>1, <1>5
  <2>2. PICK v \in m.areas :
          Holds(v, p) /\ m.anon_page[p] = [anon |-> v.anon, index |-> v.pgoff + p - v.start]
    BY <1>5, <2>1 DEF Good, Found, FoundIn
  <2>3. v \notin gone
    BY <1>2, <2>1, <2>2, PagesAreNumbers DEF PagesOf, Holds
  <2>4. m.anon_page[p].anon # NoAnon
    BY <1>5, <2>1 DEF Good, Found, FoundIn
  <2> QED  BY <1>1, <2>1, <2>2, <2>3, <2>4
<1>6. Found(w)
  BY <1>1, <1>5 DEF Good, Found, FoundIn
<1>7. Free(w.areas, start, end)
  BY <1>1 DEF Free, Intersecting
<1>8. MapOf(w) = Without(MapOf(m), start, end)
  BY <1>4 DEF MapOf, Without
<1> QED  BY <1>1, <1>6, <1>7, <1>8 DEF Good, w

LEMMA NothingThere ==
  ASSUME NEW m, Good(m), NEW start, NEW end, Free(m.areas, start, end)
  PROVE  Without(MapOf(m), start, end) = MapOf(m)
<1>1. ASSUME NEW p \in Page, start <= p, p < end  PROVE ContentIn(m.areas, p) = Unmapped
  <2>1. /\ Areas(m.areas) /\ \A u \in m.areas : u.end <= start \/ end <= u.start
        /\ start \in Nat /\ end \in Nat /\ p \in Nat
        /\ \A v \in m.areas : v.start \in Nat /\ v.end \in Nat
    BY PagesAreNumbers, FreeIsClear, SingleArea DEF Good, Kept, Free, Span
  <2>2. \A v \in m.areas : ~Holds(v, p)
    BY <1>1, <2>1 DEF Holds
  <2> QED  BY <2>1, <2>2, ContentOfHeld
<1> QED  BY <1>1 DEF Without, MapOf

(* munmap: what it leaves of the pages and the map.                         *)
Unmaps(m, start, end, u) ==
  /\ Good(u.mm)
  /\ \/ /\ u.ends = "ok" /\ Free(u.mm.areas, start, end)
        /\ MapOf(u.mm) = Without(MapOf(m), start, end)
     \/ u.ends = "failed" /\ MapOf(u.mm) = MapOf(m)

LEMMA SplitIsGood ==
  ASSUME NEW m, Good(m), NEW addr \in Nat
  PROVE  Good(SplitAt(m, addr)) /\ MapOf(SplitAt(m, addr)) = MapOf(m)
<1> DEFINE w == SplitAt(m, addr)
<1>1. Kept(w, 0, 0) /\ Lays(m, w, Nowhere)
  BY SplitAtKeeps, SplitLays DEF Good
<1> HIDE DEF w
<1>2. MapOf(w) = MapOf(m) /\ Found(w)
  BY <1>1, LaysNothing DEF Good, Kept
<1> QED  BY <1>1, <1>2 DEF Good, w

LEMMA MunmapIs ==
  ASSUME NEW m, Good(m), NEW start, NEW end, Span(start, end),
         NEW u \in do_vmi_munmap(m, start, end)
  PROVE  Unmaps(m, start, end, u)
<1> DEFINE split_start == SplitAt(m, start)
           split_both  == SplitAt(split_start, end)
           gone == Intersecting(split_both.areas, start, end)
           rest == Remove(split_both, gone)
<1>1. start \in Nat /\ end \in Nat
  BY DEF Span
<1>2. /\ Good(split_start) /\ MapOf(split_start) = MapOf(m)
      /\ \A v \in split_start.areas : ~(v.start < start /\ start < v.end)
      /\ \A v \in split_start.areas : v.start \in Nat /\ v.end \in Nat
  <2>1. Good(split_start) /\ MapOf(split_start) = MapOf(m)
    BY <1>1, SplitIsGood
  <2>2. \A v \in split_start.areas : ~(v.start < start /\ start < v.end)
    BY <1>1, SplitLays DEF Good
  <2> HIDE DEF split_start
  <2> QED  BY <2>1, <2>2, SingleArea DEF Good, Kept
<1> HIDE DEF split_start
<1>3. /\ Good(split_both) /\ MapOf(split_both) = MapOf(m)
      /\ \A v \in split_both.areas : /\ ~(v.start < start /\ start < v.end)
                                     /\ ~(v.start < end /\ end < v.end)
  <2>1. Good(split_both) /\ MapOf(split_both) = MapOf(m)
    BY <1>1, <1>2, SplitIsGood
  <2>2. \A v \in split_both.areas :
          /\ ~(v.start < end /\ end < v.end)
          /\ \E t \in split_start.areas : t.start <= v.start /\ v.end <= t.end
    BY <1>1, <1>2, SplitLays DEF Good
  <2> HIDE DEF split_both
  <2>3. \A v \in split_both.areas : v.start \in Nat /\ v.end \in Nat
    BY <2>1, SingleArea DEF Good, Kept
  <2>4. ASSUME NEW v \in split_both.areas  PROVE ~(v.start < start /\ start < v.end)
    <3>1. PICK t \in split_start.areas : t.start <= v.start /\ v.end <= t.end
      BY <2>2
    <3> QED  BY <1>1, <1>2, <2>3, <3>1
  <2> QED  BY <2>1, <2>2, <2>4
<1>4. u \in IF Intersecting(m.areas, start, end) = {} THEN {Succeeds(m)}
            ELSE IF \/ PunchesHole(m, start, end) /\ m.map_count >= sysctl_max_map_count
                    \/ ~may_split(m, start)
                 THEN {Fails(m)}
            ELSE IF ~may_split(m, end) THEN {Fails(m), Fails(split_start)}
            ELSE {Fails(m), Fails(split_start), Fails(split_both), Succeeds(rest)}
  BY Zenon DEF do_vmi_munmap, split_start
<1> HIDE DEF split_both, rest
<1>5. \/ Intersecting(m.areas, start, end) = {} /\ u = Succeeds(m)
      \/ u \in {Fails(m), Fails(split_start), Fails(split_both)}
      \/ u = Succeeds(rest)
  BY <1>4
<1>6. CASE Intersecting(m.areas, start, end) = {} /\ u = Succeeds(m)
  <2>1. Free(m.areas, start, end)
    BY <1>6 DEF Free
  <2> QED  BY <1>6, <2>1, NothingThere, Outcomes DEF Unmaps
<1>7. CASE u \in {Fails(m), Fails(split_start), Fails(split_both)}
  BY <1>2, <1>3, <1>7, Outcomes DEF Unmaps
<1>8. CASE u = Succeeds(rest)
  <2>1. Good(rest) /\ Free(rest.areas, start, end) /\ MapOf(rest) = Without(MapOf(split_both), start, end)
    BY <1>3, RemoveEmpties DEF rest
  <2> QED  BY <1>3, <1>8, <2>1, Outcomes DEF Unmaps
<1> QED  BY <1>5, <1>6, <1>7, <1>8

-----------------------------------------------------------------------------
(* The calls that map pages, and exit()                                     *)

LEMMA AccountFields ==
  ASSUME NEW m, Space(m), NEW flags, NEW pages
  PROVE  Account(m, flags, pages).areas = m.areas /\ Account(m, flags, pages).anon_page = m.anon_page
<1> DEFINE t == m.total_vm + pages
           d == m.data_vm + IF flags = "rw" THEN pages ELSE 0
           w == Account(m, flags, pages)
<1>1. w = [m EXCEPT !.total_vm = t, !.data_vm = d]
  BY DEF Account
<1> HIDE DEF t, d, w
<1>2. w.areas = m.areas /\ w.anon_page = m.anon_page
  BY ONLY <1>1, Space(m) DEF Space
<1> QED  BY <1>2 DEF w

(* Pages have been mapped and are accounted for.                            *)
LEMMA MapsAndAccounts ==
  ASSUME NEW m, Good(m), NEW addr, NEW end, Span(addr, end), NEW flags, NEW w,
         KeptButFor(w, addr, end, flags), NEW x, Lays(m, w, x), x.start \in Nat, x.pgoff \in Nat
  PROVE  /\ Good(Account(w, flags, end - addr))
         /\ MapOf(Account(w, flags, end - addr)) = With(MapOf(m), x)
<1> DEFINE n == Account(w, flags, end - addr)
<1>1. Kept(n, 0, 0)
  BY AccountCloses
<1>2. n.areas = w.areas /\ n.anon_page = w.anon_page
  BY AccountFields DEF KeptButFor, Kept
<1> HIDE DEF n
<1>3. Lays(m, n, x) /\ Areas(n.areas) /\ Areas(m.areas)
  BY <1>1, <1>2 DEF Lays, Kept, Good
<1>4. Found(n) /\ MapOf(n) = With(MapOf(m), x)
  BY <1>3, LaysFound, LaysMap DEF Good
<1> QED  BY <1>1, <1>4 DEF Good, n

(* A call fails and changes nothing, ...                                    *)
FailsIdly(m, o) == o.ends = "failed" /\ Good(o.mm) /\ MapOf(o.mm) = MapOf(m)

(* ... or maps x, where there may have been something.                      *)
Maps(m, x, o) == o.ends = "ok" /\ Good(o.mm) /\ MapOf(o.mm) = With(MapOf(m), x)

MapsOver(m, x, o) ==
  \/ FailsIdly(m, o) \/ Maps(m, x, o)
  \/ /\ o.ends = "failed" /\ Good(o.mm)
     /\ MapOf(o.mm) = Without(MapOf(m), x.start, x.end)

LEMMA WithoutThenWith ==
  ASSUME NEW m, NEW x
  PROVE  With(Without(MapOf(m), x.start, x.end), x) = With(MapOf(m), x)
BY DEF With, Without, Holds, MapOf

MmapOK(c) == Span(c.start, c.end) /\ c.flags \in Flags /\ c.file \in Mapped /\ c.pgoff \in Nat

LEMMA MmapIs ==
  ASSUME NEW m, Good(m), NEW c, MmapOK(c), NEW o \in mmap_region(m, c)
  PROVE  MapsOver(m, Over(c.start, c.end, c.flags, c.file, c.pgoff, NoAnon), o)
<1> DEFINE x == Over(c.start, c.end, c.flags, c.file, c.pgoff, NoAnon)
<1>1. Span(c.start, c.end) /\ x.start = c.start /\ x.end = c.end /\ x.pgoff = c.pgoff /\ c.start \in Nat
      /\ c.pgoff \in Nat
  BY OverFields DEF MmapOK, Span
<1> HIDE DEF x
<1>2. CASE o = Fails(m)
  BY <1>2, Outcomes DEF MapsOver, FailsIdly
<1>3. ASSUME NEW u \in do_vmi_munmap(m, c.start, c.end), o \in Placed(u, c)
      PROVE  MapsOver(m, x, o)
  <2>1. Unmaps(m, c.start, c.end, u)
    BY <1>1, MunmapIs
  <2>2. CASE ~Ok(u)
    BY <1>3, <2>1, <2>2 DEF Placed, Ok, Unmaps, MapsOver, FailsIdly
  <2>3. CASE Ok(u)
    <3>1. \/ o = Fails(u.mm)
          \/ \E w \in MapFree(u.mm, c.start, c.end, c.flags, c.file, c.pgoff) :
               o = Succeeds(Account(w, c.flags, c.end - c.start))
      BY <1>3, <2>3 DEF Placed
    <3>2. /\ Good(u.mm) /\ Free(u.mm.areas, c.start, c.end)
          /\ MapOf(u.mm) = Without(MapOf(m), c.start, c.end)
      BY <2>1, <2>3 DEF Unmaps, Ok
    <3>3. CASE o = Fails(u.mm)
      BY <1>1, <3>2, <3>3, Outcomes DEF MapsOver
    <3>4. ASSUME NEW w \in MapFree(u.mm, c.start, c.end, c.flags, c.file, c.pgoff),
                 o = Succeeds(Account(w, c.flags, c.end - c.start))
          PROVE  MapsOver(m, x, o)
      <4>1. KeptButFor(w, c.start, c.end, c.flags) /\ Lays(u.mm, w, x)
        BY <3>2, MapFreeKeeps DEF MmapOK, Good, x
      <4> DEFINE n == Account(w, c.flags, c.end - c.start)
      <4>2. Good(n) /\ MapOf(n) = With(MapOf(u.mm), x)
        BY <1>1, <3>2, <4>1, MapsAndAccounts
      <4> HIDE DEF n
      <4>3. MapOf(n) = With(MapOf(m), x)
        BY <1>1, <3>2, <4>2, WithoutThenWith
      <4> QED  BY <3>4, <4>2, <4>3, Outcomes DEF MapsOver, Maps, n
    <3> QED  BY <3>1, <3>3, <3>4
  <2> QED  BY <2>2, <2>3
<1>4. o = Fails(m) \/ \E u \in do_vmi_munmap(m, c.start, c.end) : o \in Placed(u, c)
  BY DEF mmap_region
<1> QED  BY <1>2, <1>3, <1>4 DEF x

LEMMA BrkIs ==
  ASSUME NEW m, Good(m), NEW c, Span(c.start, c.end), NEW o \in vm_brk_flags(m, c)
  PROVE  MapsOver(m, Over(c.start, c.end, "rw", NoFile, c.start, NoAnon), o)
<1> DEFINE x == Over(c.start, c.end, "rw", NoFile, c.start, NoAnon)
<1>0. x.start = c.start /\ x.end = c.end /\ x.pgoff = c.start /\ c.start \in Nat
  BY OverFields DEF Span
<1>1. PICK u \in do_vmi_munmap(m, c.start, c.end) :
        \/ o = Fails(u.mm)
        \/ Ok(u) /\ o = Succeeds(Account(do_brk_flags(u.mm, c.start, c.end), "rw", c.end - c.start))
  BY DEF vm_brk_flags
<1>2. Unmaps(m, c.start, c.end, u)
  BY MunmapIs
<1> HIDE DEF x
<1>3. CASE o = Fails(u.mm)
  <2>1. o.mm = u.mm /\ o.ends = "failed"
    BY <1>3, Outcomes
  <2>2. MapsOver(m, x, o)
    BY <1>0, <1>2, <2>1 DEF Unmaps, MapsOver, FailsIdly
  <2> QED  BY <2>2 DEF x
<1>4. CASE Ok(u) /\ o = Succeeds(Account(do_brk_flags(u.mm, c.start, c.end), "rw", c.end - c.start))
  <2> DEFINE w == do_brk_flags(u.mm, c.start, c.end)
             n == Account(w, "rw", c.end - c.start)
  <2>1. /\ Good(u.mm) /\ Free(u.mm.areas, c.start, c.end)
        /\ MapOf(u.mm) = Without(MapOf(m), c.start, c.end)
    BY <1>2, <1>4, Outcomes DEF Unmaps, Ok
  <2>2. KeptButFor(w, c.start, c.end, "rw") /\ Lays(u.mm, w, x)
    BY <2>1, BrkKeeps DEF Good, x
  <2> HIDE DEF w
  <2>3. Good(n) /\ MapOf(n) = With(MapOf(u.mm), x)
    BY <1>0, <2>1, <2>2, MapsAndAccounts
  <2> HIDE DEF n
  <2>4. MapOf(n) = With(MapOf(m), x)
    BY <1>0, <2>1, <2>3, WithoutThenWith
  <2>5. MapsOver(m, x, o)
    BY <1>4, <2>3, <2>4, Outcomes DEF MapsOver, Maps, n, w
  <2> QED  BY <2>5 DEF x
<1> QED  BY <1>1, <1>3, <1>4 DEF x

MremapOK(m, c) ==
  /\ Free(m.areas, c.start, c.end) /\ c.pgoff \in Nat
  /\ \E v \in m.areas : v.end = c.start /\ v.flags = c.flags /\ v.file = c.file

LEMMA MremapIs ==
  ASSUME NEW m, Good(m), NEW c, MremapOK(m, c), NEW o \in vma_merge_extend(m, c)
  PROVE  \/ FailsIdly(m, o)
         \/ \E anon : Maps(m, Over(c.start, c.end, c.flags, c.file, c.pgoff, anon), o)
<1>1. PICK v \in m.areas : v.end = c.start /\ v.flags = c.flags /\ v.file = c.file
  BY DEF MremapOK
<1> DEFINE x == Over(c.start, c.end, v.flags, v.file, c.pgoff, v.anon)
<1>2. Areas(m.areas) /\ Free(m.areas, c.start, c.end) /\ Span(c.start, c.end) /\ c.start \in Nat
  BY DEF Good, Kept, MremapOK, Free, Span
<1>3. {u \in m.areas : u.end = c.start} = {v} /\ IsPrev(m.areas, {v}, c.start, c.end)
  BY <1>1, <1>2, EndingIsPrev
<1>4. CASE o = Fails(m)
  BY <1>4, Outcomes DEF FailsIdly
<1>5. ASSUME NEW r \in vma_merge(m.areas, {v}, c.start, c.end, v.flags, v.anon, v.file, c.pgoff),
             o = Succeeds(Account(WithMerge(m, r), c.flags, c.end - c.start))
      PROVE  Maps(m, x, o)
  <2>0. c.pgoff \in Nat /\ c.pgoff \in Int /\ x.start = c.start /\ x.pgoff = c.pgoff
    BY OverFields DEF MremapOK
  <2>1. Freed(m.areas, r, c.start, c.end, v.flags) /\ Overlaid(m.areas, r.areas, x)
    BY <1>2, <1>3, <2>0, MergeFree
  <2> HIDE DEF x
  <2> DEFINE w == WithMerge(m, r)
             n == Account(w, c.flags, c.end - c.start)
  <2>2. KeptButFor(w, c.start, c.end, c.flags) /\ w.areas = r.areas /\ w.anon_page = m.anon_page
    BY <1>1, <1>2, <2>1, WithMergeKeeps DEF Good
  <2> HIDE DEF w
  <2>3. Lays(m, w, x)
    BY <2>1, <2>2 DEF Lays
  <2>4. Good(n) /\ MapOf(n) = With(MapOf(m), x)
    BY <1>2, <2>0, <2>2, <2>3, MapsAndAccounts
  <2> HIDE DEF n
  <2> QED  BY <1>5, <2>4, Outcomes DEF Maps, n, w
<1>6. The({v}) = v
  BY TheOnly
<1>7. \/ o = Fails(m)
      \/ \E r \in vma_merge(m.areas, {v}, c.start, c.end, v.flags, v.anon, v.file, c.pgoff) :
           o = Succeeds(Account(WithMerge(m, r), c.flags, c.end - c.start))
  BY <1>3, <1>6 DEF vma_merge_extend
<1>8. x = Over(c.start, c.end, c.flags, c.file, c.pgoff, v.anon)
  BY <1>1
<1> HIDE DEF x
<1> QED  BY <1>4, <1>5, <1>7, <1>8

LEMMA InstallIs ==
  ASSUME NEW m, Good(m), NEW c, Span(c.start, c.end), c.flags \in Flags,
         NEW o \in install_special_mapping(m, c)
  PROVE  \/ FailsIdly(m, o)
         \/ Maps(m, Over(c.start, c.end, c.flags, Special, 0, NoAnon), o)
<1> DEFINE w == Insert(m, c.start, c.end, c.flags, Special, 0)
           x == Over(c.start, c.end, c.flags, Special, 0, NoAnon)
<1>1. PICK u \in insert_vm_struct(m, c.start, c.end, c.flags) :
        o = IF Ok(u) THEN Succeeds(Account(u.mm, c.flags, c.end - c.start)) ELSE u
  BY DEF install_special_mapping
<1>2. u = Fails(m) \/ (Intersecting(m.areas, c.start, c.end) = {} /\ u = Succeeds(w))
  BY DEF insert_vm_struct
<1>3. CASE u = Fails(m)
  BY <1>1, <1>3, Outcomes DEF FailsIdly
<1>4. CASE Intersecting(m.areas, c.start, c.end) = {} /\ u = Succeeds(w)
  <2>1. /\ x \in Area /\ x.start = c.start /\ x.end = c.end /\ x.flags = c.flags
        /\ x.start \in Nat /\ x.pgoff \in Nat
    BY FilesDiffer DEF Area, NoAnon, Span, Over
  <2>2. w = vma_link(m, x) /\ Free(m.areas, c.start, c.end)
    BY <1>4 DEF Insert, Free, Over
  <2> HIDE DEF x, w
  <2>3. KeptButFor(w, c.start, c.end, c.flags) /\ Lays(m, w, x)
    BY <2>1, <2>2, InsertKeeps DEF Good
  <2> DEFINE n == Account(w, c.flags, c.end - c.start)
  <2>4. Good(n) /\ MapOf(n) = With(MapOf(m), x)
    BY <2>1, <2>3, MapsAndAccounts
  <2> HIDE DEF n
  <2>5. o = Succeeds(n)
    BY <1>1, <1>4, Outcomes DEF n
  <2> QED  BY <2>4, <2>5, Outcomes DEF Maps, x
<1> QED  BY <1>2, <1>3, <1>4

LEMMA ExitIs ==
  ASSUME NEW m, Good(m), NEW o \in exit_mmap(m)
  PROVE  o.ends = "ok" /\ Good(o.mm) /\ MapOf(o.mm) = Without(MapOf(m), 0, NPages)
<1> DEFINE w == Remove(m, m.areas)
<1>1. Areas(m.areas) /\ m.map_count = SumOf(One, m.areas)
  BY DEF Good, Kept
<1>2. Cardinality(m.areas) = m.map_count
  BY <1>1, CountedByMeasures
<1>3. o = Succeeds(w)
  BY <1>2 DEF exit_mmap
<1>4. /\ Kept(w, 0, 0) /\ w.areas = {}
      /\ w.anon_page = [q \in Page |-> IF \E v \in m.areas : q \in PagesOf(v) THEN NoPage ELSE m.anon_page[q]]
  BY RemoveKeeps DEF Good
<1> HIDE DEF w
<1>5. ASSUME NEW p \in Page  PROVE w.anon_page[p] = NoPage
  <2>1. CASE m.anon_page[p] # NoPage
    <3>1. PICK v \in m.areas : Holds(v, p)
      BY <2>1 DEF Good, Found, FoundIn
    <3>2. p \in PagesOf(v)
      BY <1>1, <3>1, SingleArea, PagesAreNumbers DEF PagesOf, Holds
    <3> QED  BY <1>4, <3>2
  <2> QED  BY <1>4, <2>1
<1>6. Found(w)
  BY <1>4, <1>5 DEF Found, FoundIn
<1>7. ASSUME NEW p \in Page  PROVE ContentIn(w.areas, p) = Unmapped /\ 0 <= p /\ p < NPages
  <2>1. ContentIn(w.areas, p) = Unmapped
    BY <1>4 DEF ContentIn, vma_lookup
  <2> QED  BY <2>1, SpaceAssumption DEF Page
<1>8. MapOf(w) = Without(MapOf(m), 0, NPages)
  BY <1>7 DEF MapOf, Without
<1>9. Kept(w, 0, 0)
  BY <1>4
<1> QED  BY <1>3, <1>6, <1>8, <1>9, Outcomes DEF Good, w

-----------------------------------------------------------------------------
(* mremap() that moves pages                                                *)

(* What mremap() moves comes to [addr, addr + len).                         *)
CopyOf(v, start, addr, len) ==
  Over(addr, addr + len, v.flags, v.file,
       IF v.file # NoFile \/ v.anon # NoAnon THEN v.pgoff + (start - v.start) ELSE addr, v.anon)

LEMMA CopyIs ==
  ASSUME NEW m, Good(m), NEW v \in m.areas, NEW start \in Nat, v.start <= start, start < v.end,
         NEW addr, NEW len \in Int, Free(m.areas, addr, addr + len),
         NEW u \in copy_vma(m, v, start, addr, len)
  PROVE  \/ u = Fails(m)
         \/ /\ u.ends = "ok" /\ KeptButFor(u.mm, addr, addr + len, v.flags)
            /\ Lays(m, u.mm, CopyOf(v, start, addr, len))
<1> DEFINE end     == addr + len
           faulted == v.file # NoFile \/ v.anon # NoAnon
           pgoff   == IF faulted THEN v.pgoff + (start - v.start) ELSE addr
           merged  == vma_merge(m.areas, vma_prev(m.areas, addr), addr, end,
                                v.flags, v.anon, v.file, pgoff)
           itself(r) == \A t \in r.areas : addr \in PagesOf(t) => v.start \in PagesOf(t)
           a       == PlacedAt(v, addr, end, pgoff)
           x       == CopyOf(v, start, addr, len)
<1>1. /\ Kept(m, 0, 0) /\ Areas(m.areas) /\ v \in Area /\ addr \in Nat /\ end \in Nat
      /\ Span(addr, end) /\ v.start \in Nat /\ v.end \in Nat /\ v.start < v.end /\ v.pgoff \in Int
  BY SingleArea, AreaFields DEF Good, Kept, Areas, Free, Span
<1>2. pgoff \in Int
  BY <1>1
<1>3. /\ x = Over(addr, end, v.flags, v.file, pgoff, v.anon)
      /\ x.start = addr /\ x.end = end /\ x.flags = v.flags /\ x.file = v.file
      /\ x.pgoff = pgoff /\ x.anon = v.anon
  <2>1. x = Over(addr, end, v.flags, v.file, pgoff, v.anon)
    BY DEF CopyOf
  <2> HIDE DEF x, pgoff, end
  <2> QED  BY <2>1, OverFields
<1>4. \/ u = Fails(m) \/ u = Succeeds(vma_link(m, a))
      \/ \E r \in merged : u = IF itself(r) /\ faulted THEN BUG(m) ELSE Succeeds(WithMerge(m, r))
  BY Zenon DEF copy_vma, PlacedAt
<1> HIDE DEF x
<1>5. CASE u = Succeeds(vma_link(m, a))
  <2> HIDE DEF pgoff, end
  <2>1. HasPlace(a, v, addr, end) /\ a.pgoff = pgoff /\ a.anon = v.anon
    BY <1>1, <1>2, OtherPlace
  <2> HIDE DEF a
  <2>2. a \in Area /\ a.start = addr /\ a.end = end /\ a.flags = v.flags /\ a.file = v.file
    BY <2>1 DEF HasPlace
  <2>3. a = x
    BY <1>3, <2>1, <2>2, AreaFields DEF Over
  <2>4. Free(m.areas, addr, end)
    BY DEF end
  <2>5. KeptButFor(vma_link(m, a), addr, end, a.flags) /\ Lays(m, vma_link(m, a), a)
    BY <1>1, <2>2, <2>4, InsertKeeps
  <2> QED  BY <1>5, <2>2, <2>3, <2>5, Outcomes DEF end, x
<1>6. ASSUME NEW r \in merged
      PROVE  /\ KeptButFor(WithMerge(m, r), addr, end, v.flags) /\ Lays(m, WithMerge(m, r), x)
             /\ faulted => ~itself(r)
  <2> HIDE DEF pgoff
  <2>1. Free(m.areas, addr, end)
    OBVIOUS
  <2>2. IsPrev(m.areas, vma_prev(m.areas, addr), addr, end)
    BY <1>1, <2>1, VmaPrevIsPrev
  <2> HIDE DEF end, faulted, itself
  <2>3. Freed(m.areas, r, addr, end, v.flags) /\ Overlaid(m.areas, r.areas, x)
    <3>1. v.flags \in Flags /\ addr < end
      BY <1>1 DEF Area, Span
    <3>2. r \in vma_merge(m.areas, vma_prev(m.areas, addr), addr, end, v.flags, v.anon, v.file, pgoff)
      BY DEF end
    <3>3. Areas(m.areas)
      BY <1>1
    <3> QED  BY <1>2, <1>3, <2>1, <2>2, <3>1, <3>2, <3>3, MergeFree
  <2>4. /\ KeptButFor(WithMerge(m, r), addr, end, v.flags)
        /\ WithMerge(m, r).areas = r.areas /\ WithMerge(m, r).anon_page = m.anon_page
    BY <1>1, <2>1, <2>3, WithMergeKeeps
  <2>5. ASSUME faulted, itself(r)  PROVE FALSE
    <3>1. PICK t \in r.areas : Holds(t, addr) /\ Like(t, x)
      <4>1. Holds(x, addr)
        BY <1>1, <1>3 DEF Holds, Span
      <4> QED  BY <1>1, <2>3, <4>1 DEF Overlaid, Laid
    <3>2. Areas(r.areas)
      BY <2>3 DEF Freed, Filled, Becomes
    <3>3. /\ t.start \in Nat /\ t.end \in Nat /\ t.pgoff \in Int
      BY <3>2, AreaFields DEF Areas
    <3>4. Holds(t, v.start)
      <4>1. addr \in PagesOf(t)
        BY <1>1, <3>1, <3>3 DEF PagesOf, Holds
      <4>2. v.start \in PagesOf(t)
        BY <2>5, <4>1 DEF itself
      <4> QED  BY <1>1, <3>3, <4>2 DEF PagesOf, Holds
    <3>5. PICK w \in r.areas : Holds(w, v.start) /\ Like(w, v)
      <4>1. Holds(v, v.start)
        BY <1>1 DEF Holds
      <4> QED  BY <1>1, <2>3, <4>1 DEF Overlaid, Carried
    <3>6. w = t
      BY <1>1, <3>2, <3>4, <3>5, HeldByOne
    <3>7. start = addr
      <4>1. t.pgoff - t.start = v.pgoff - v.start
        BY <3>5, <3>6 DEF Like
      <4>2. t.pgoff - t.start = pgoff - addr /\ pgoff = v.pgoff + (start - v.start)
        BY <1>3, <2>5, <3>1 DEF Like, pgoff
      <4> QED  BY <1>1, <3>3, <4>1, <4>2
    <3> QED  BY <1>1, <2>1, <3>7, FreeIsClear DEF Span
  <2> QED  BY <2>3, <2>4, <2>5 DEF Lays
<1> HIDE DEF a, merged, faulted, itself
<1>7. ASSUME NEW r \in merged, u = IF itself(r) /\ faulted THEN BUG(m) ELSE Succeeds(WithMerge(m, r))
      PROVE  u.ends = "ok" /\ KeptButFor(u.mm, addr, end, v.flags) /\ Lays(m, u.mm, x)
  <2>1. u = Succeeds(WithMerge(m, r))
    BY <1>6, <1>7
  <2> QED  BY <1>6, <2>1, Outcomes
<1> QED  BY <1>4, <1>5, <1>7 DEF x

(* Pages move to c.to, or are fresh there; where they were, they stay or go. *)
MapMoved(map, old, c, fresh) ==
  [p \in Page |->
     IF c.to <= p /\ p < c.to + (c.end - c.start)
     THEN IF fresh THEN [map[c.start + (p - c.to)] EXCEPT !.off = p] ELSE map[c.start + (p - c.to)]
     ELSE old[p]]

Moves(m, c, o) ==
  /\ o.ends = "ok" /\ Good(o.mm)
  /\ \E old \in {MapOf(m), Without(MapOf(m), c.start, c.end)},
        fresh \in IF c.file = NoFile THEN BOOLEAN ELSE {FALSE} :
       MapOf(o.mm) = MapMoved(MapOf(m), old, c, fresh)

MoveOK(m, c) ==
  /\ Span(c.start, c.end) /\ Free(m.areas, c.to, c.to + (c.end - c.start)) /\ c.end <= NPages
  /\ \E v \in m.areas : v.start <= c.start /\ c.end <= v.end /\ v.file = c.file

(* The pages of the copy are those of the area.                             *)
LEMMA CopyMaps ==
  ASSUME NEW m, Good(m), NEW c, MoveOK(m, c), NEW v \in m.areas, v.start <= c.start,
         c.end <= v.end, v.file = c.file, NEW x, x = CopyOf(v, c.start, c.to, c.end - c.start)
  PROVE  LET fresh == v.file = NoFile /\ v.anon = NoAnon IN
         /\ With(MapOf(m), x) = MapMoved(MapOf(m), MapOf(m), c, fresh)
         /\ Without(With(MapOf(m), x), c.start, c.end) =
              MapMoved(MapOf(m), Without(MapOf(m), c.start, c.end), c, fresh)
<1> DEFINE fresh == v.file = NoFile /\ v.anon = NoAnon
           len == c.end - c.start
           until == c.to + len
           M == MapOf(m)
<1>1. /\ Areas(m.areas) /\ v \in Area /\ v.start \in Nat /\ v.end \in Nat /\ v.pgoff \in Int
      /\ c.start \in Nat /\ c.end \in Nat /\ c.start < c.end /\ c.end <= NPages /\ NPages \in Nat
      /\ c.to \in Nat /\ until \in Nat /\ len \in Int /\ (v.end <= c.to \/ until <= v.start)
  <2>1. v.end <= c.to \/ until <= v.start
    BY FreeIsClear DEF MoveOK, Good, Kept
  <2> QED  BY <2>1, SingleArea, AreaFields, SpaceAssumption DEF MoveOK, Good, Kept, Free, Span
<1>2. /\ x.start = c.to /\ x.end = until /\ x.flags = v.flags /\ x.file = v.file
      /\ x.pgoff = IF fresh THEN c.to ELSE v.pgoff + (c.start - v.start)
  BY OverFields DEF CopyOf
<1>3. ASSUME NEW p \in Page, c.to <= p, p < until
      PROVE  LET q == c.start + (p - c.to) IN
             /\ ~(c.start <= p /\ p < c.end)
             /\ [flags |-> x.flags, file |-> x.file, off |-> x.pgoff + p - x.start] =
                  IF fresh THEN [M[q] EXCEPT !.off = p] ELSE M[q]
  <2> DEFINE q == c.start + (p - c.to)
  <2>1. p \in Nat
    BY PagesAreNumbers
  <2>2. q \in Nat /\ c.start <= q /\ q < c.end /\ q \in Page
    BY <1>1, <1>3, <2>1 DEF Page
  <2>3. ~(c.start <= p /\ p < c.end)
    BY <1>1, <1>3, <2>1
  <2>4. M[q] = [flags |-> v.flags, file |-> v.file, off |-> v.pgoff + q - v.start]
    <3>1. Holds(v, q)
      BY <1>1, <2>2 DEF Holds
    <3> QED  BY <1>1, <2>2, <3>1, ContentOfHeld DEF MapOf
  <2>5. x.pgoff + p - x.start = IF fresh THEN p ELSE v.pgoff + q - v.start
    <3> HIDE DEF fresh
    <3> QED  BY <1>1, <1>2, <2>1
  <2> HIDE DEF q, fresh, M
  <2>6. [flags |-> x.flags, file |-> x.file, off |-> x.pgoff + p - x.start] =
          IF fresh THEN [M[q] EXCEPT !.off = p] ELSE M[q]
    BY <1>2, <2>4, <2>5
  <2> QED  BY <2>3, <2>6 DEF q
<1> HIDE DEF fresh
<1>4. \A p \in Page : Holds(x, p) <=> c.to <= p /\ p < until
  BY <1>2 DEF Holds
<1>5. With(M, x) = MapMoved(M, M, c, fresh)
  <2> HIDE DEF M
  <2> QED  BY <1>3, <1>4 DEF With, MapMoved, M
<1>6. Without(With(M, x), c.start, c.end) = MapMoved(M, Without(M, c.start, c.end), c, fresh)
  <2> HIDE DEF M
  <2> QED  BY <1>3, <1>4 DEF With, Without, MapMoved, M
<1> QED  BY <1>5, <1>6 DEF fresh

(* mremap() takes the pages along.                                          *)
MovedPages(pages, c) ==
  [p \in Page |-> CASE p \in c.start..(c.end - 1)                    -> NoPage
                    [] p \in c.to..(c.to + (c.end - c.start) - 1)    -> pages[c.start + (p - c.to)]
                    [] OTHER                                         -> pages[p]]

MovedTo(n, c) == [n EXCEPT !.anon_page = MovedPages(n.anon_page, c)]

LEMMA MovedFound ==
  ASSUME NEW m, Good(m), NEW c, MoveOK(m, c), NEW v \in m.areas, v.start <= c.start,
         c.end <= v.end, NEW x, x = CopyOf(v, c.start, c.to, c.end - c.start),
         NEW w, Areas(w.areas), Lays(m, w, x), NEW n, n.areas = w.areas,
         n.anon_page = MovedPages(w.anon_page, c)
  PROVE  Found(n)
<1> DEFINE len == c.end - c.start
           until == c.to + len
<1>1. /\ Areas(m.areas) /\ v \in Area /\ v.start \in Nat /\ v.end \in Nat
      /\ v.pgoff \in Int /\ v.pgoff >= 0
      /\ c.start \in Nat /\ c.end \in Nat /\ c.start < c.end /\ c.end <= NPages /\ NPages \in Nat
      /\ c.to \in Nat /\ until \in Nat /\ len \in Int
  BY SingleArea, AreaFields, SpaceAssumption DEF MoveOK, Good, Found, Kept, Free, Span
<1>2. /\ x.start = c.to /\ x.end = until /\ x.anon = v.anon
      /\ x.pgoff = IF v.file # NoFile \/ v.anon # NoAnon THEN v.pgoff + (c.start - v.start) ELSE c.to
  BY OverFields DEF CopyOf
<1>3. x.pgoff \in Nat /\ x.start \in Nat
  BY <1>1, <1>2
<1>4. Found(w)
  BY <1>1, <1>3, LaysFound DEF Good
<1>5. ASSUME NEW p \in Page, n.anon_page[p] # NoPage
      PROVE  /\ n.anon_page[p].anon # NoAnon
             /\ \E t \in n.areas : /\ Holds(t, p)
                                   /\ n.anon_page[p] = [anon |-> t.anon, index |-> t.pgoff + p - t.start]
  <2>0. p \in Nat
    BY PagesAreNumbers
  <2> DEFINE q == c.start + (p - c.to)
  <2>1. n.anon_page[p] = IF p \in c.start..(c.end - 1) THEN NoPage
                         ELSE IF p \in c.to..(c.to + len - 1) THEN w.anon_page[q] ELSE w.anon_page[p]
    <3>1. v.end <= c.to \/ until <= v.start
      BY FreeIsClear DEF MoveOK, Good, Kept
    <3>2. ~(p \in c.start..(c.end - 1) /\ p \in c.to..(c.to + len - 1))
      BY <1>1, <3>1
    <3> DEFINE pages == w.anon_page
               away == p \in c.start..(c.end - 1)
               came == p \in c.to..(c.to + (c.end - c.start) - 1)
               from == pages[c.start + (p - c.to)]
               here == MovedPages(pages, c)[p]
    <3>3. here = CASE away -> NoPage [] came -> from [] OTHER -> pages[p]
      BY Zenon DEF MovedPages
    <3>4. ~(away /\ came)
      BY <3>2
    <3>5. n.anon_page[p] = here
      OBVIOUS
    <3> HIDE DEF away, came, from, here, pages
    <3>6. n.anon_page[p] = IF away THEN NoPage ELSE IF came THEN from ELSE pages[p]
      BY <3>3, <3>4, <3>5
    <3> QED  BY <3>6, Zenon DEF away, came, from, pages
  <2>2. CASE p \in c.to..(c.to + len - 1) /\ p \notin c.start..(c.end - 1)
    <3>1. n.anon_page[p] = m.anon_page[q]
      BY <2>1, <2>2 DEF Lays
    <3>2. q \in Nat /\ c.start <= q /\ q < c.end /\ q \in Page /\ c.to <= p /\ p < until
      BY <1>1, <2>0, <2>2 DEF Page
    <3>3. m.anon_page[q].anon # NoAnon
      BY <1>5, <3>1, <3>2 DEF Good, Found, FoundIn
    <3>4. PICK h \in m.areas : Holds(h, q) /\ m.anon_page[q] = [anon |-> h.anon, index |-> h.pgoff + q - h.start]
      BY <1>5, <3>1, <3>2 DEF Good, Found, FoundIn
    <3>5. h = v
      <4>1. Holds(v, q)
        BY <1>1, <3>2 DEF Holds
      <4> QED  BY <1>1, <3>2, <3>4, <4>1, HeldByOne
    <3>6. PICK t \in w.areas : Holds(t, p) /\ Like(t, x)
      <4>1. Holds(x, p)
        BY <1>2, <3>2 DEF Holds
      <4> QED  BY <2>0, <4>1 DEF Lays, Overlaid, Laid
    <3>7. t.start \in Nat /\ t.pgoff \in Int
      BY AreaFields DEF Areas
    <3>8. v.anon # NoAnon
      BY <3>3, <3>4, <3>5
    <3>9. t.anon = v.anon /\ t.pgoff + p - t.start = v.pgoff + q - v.start
      BY <1>1, <1>2, <2>0, <3>6, <3>7, <3>8 DEF Like
    <3> HIDE DEF q
    <3> QED  BY <3>1, <3>3, <3>4, <3>5, <3>6, <3>9
  <2>3. CASE p \notin c.to..(c.to + len - 1) \/ p \in c.start..(c.end - 1)
    <3>1. n.anon_page[p] = w.anon_page[p]
      BY <1>5, <2>1, <2>3
    <3> QED  BY <1>4, <1>5, <3>1 DEF Found, FoundIn
  <2> QED  BY <2>2, <2>3
<1>6. n.anon_page = [p \in Page |-> n.anon_page[p]]
  BY DEF MovedPages
<1>7. \A t \in n.areas : t.pgoff >= 0
  BY <1>4 DEF Found
<1> QED  BY <1>5, <1>6, <1>7 DEF Found, FoundIn

LEMMA MovedKeeps ==
  ASSUME NEW n, NEW addr, NEW end, NEW flags, KeptButFor(n, addr, end, flags), NEW c
  PROVE  /\ KeptButFor(MovedTo(n, c), addr, end, flags)
         /\ MovedTo(n, c).areas = n.areas /\ MovedTo(n, c).anon_page = MovedPages(n.anon_page, c)
<1> DEFINE pages == MovedPages(n.anon_page, c)
           w == MovedTo(n, c)
<1>1. Space(n)
  BY DEF KeptButFor, Kept
<1>2. w = [n EXCEPT !.anon_page = pages]
  BY DEF MovedTo
<1> HIDE DEF w, pages
<1>3. /\ Space(w) /\ w.areas = n.areas /\ w.map_count = n.map_count /\ w.users = n.users
      /\ w.total_vm = n.total_vm /\ w.data_vm = n.data_vm /\ w.anon_page = pages
  BY ONLY <1>1, <1>2 DEF Space
<1>4. KeptButFor(w, addr, end, flags)
  BY <1>3 DEF KeptButFor, Kept
<1> QED  BY <1>3, <1>4 DEF w, pages

LEMMA MoveIs ==
  ASSUME NEW m, Good(m), NEW c, MoveOK(m, c), NEW o \in move_vma(m, c)
  PROVE  FailsIdly(m, o) \/ Moves(m, c, o)
<1> DEFINE v   == The(vma_lookup(m.areas, c.start))
           len == c.end - c.start
           until == c.to + len
           x   == CopyOf(v, c.start, c.to, len)
           fresh == v.file = NoFile /\ v.anon = NoAnon
<1>1. /\ Areas(m.areas) /\ Span(c.start, c.end) /\ c.start \in Nat /\ c.end \in Nat
      /\ c.start < c.end /\ len \in Int /\ Free(m.areas, c.to, until) /\ Span(c.to, until)
  BY DEF MoveOK, Good, Kept, Span, Free
<1>2. v \in m.areas /\ v.start <= c.start /\ c.end <= v.end /\ v.file = c.file
  <2>1. PICK h \in m.areas : h.start <= c.start /\ c.end <= h.end /\ h.file = c.file
    BY DEF MoveOK
  <2>2. h.start \in Nat /\ h.end \in Nat
    BY <1>1, SingleArea
  <2>3. Holds(h, c.start) /\ h \in vma_lookup(m.areas, c.start)
    BY <1>1, <2>1, <2>2 DEF vma_lookup, Holds
  <2>4. v \in vma_lookup(m.areas, c.start)
    BY <2>3, TheOne
  <2>5. v = h
    BY <1>1, <2>3, <2>4, HeldByOne DEF vma_lookup, Holds
  <2> QED  BY <2>1, <2>5
<1>3. c.start < v.end
  BY <1>1, <1>2, SingleArea
<1>4. ASSUME NEW u \in copy_vma(m, v, c.start, c.to, len)
      PROVE  \/ u = Fails(m)
             \/ u.ends = "ok" /\ KeptButFor(u.mm, c.to, until, v.flags) /\ Lays(m, u.mm, x)
  <2> HIDE DEF v, len
  <2> QED  BY <1>1, <1>2, <1>3, CopyIs DEF x
<1>5. \/ o = Fails(m)
      \/ \E u \in copy_vma(m, v, c.start, c.to, len) :
           \/ ~Ok(u) /\ o = u
           \/ /\ Ok(u)
              /\ \E w \in do_vmi_munmap(Account(MovedTo(u.mm, c), v.flags, len), c.start, c.end) :
                   o = Succeeds(w.mm)
  <2> HIDE DEF v
  <2> QED  BY Zenon DEF move_vma, v, MovedTo, MovedPages
<1> HIDE DEF x, fresh, len, v
<1>6. CASE o = Fails(m)
  BY <1>6, Outcomes DEF FailsIdly
<1>7. ASSUME NEW u \in copy_vma(m, v, c.start, c.to, len), ~Ok(u), o = u
      PROVE  FailsIdly(m, o)
  BY <1>4, <1>7, Outcomes DEF FailsIdly, Ok
<1>8. ASSUME NEW u \in copy_vma(m, v, c.start, c.to, len), Ok(u),
             NEW w \in do_vmi_munmap(Account(MovedTo(u.mm, c), v.flags, len), c.start, c.end),
             o = Succeeds(w.mm)
      PROVE  Moves(m, c, o)
  <2> DEFINE n == Account(MovedTo(u.mm, c), v.flags, len)
  <2>1. KeptButFor(u.mm, c.to, until, v.flags) /\ Lays(m, u.mm, x)
    BY <1>4, <1>8, Outcomes DEF Ok
  <2>2. /\ KeptButFor(MovedTo(u.mm, c), c.to, until, v.flags)
        /\ MovedTo(u.mm, c).areas = u.mm.areas
        /\ MovedTo(u.mm, c).anon_page = MovedPages(u.mm.anon_page, c)
    BY <2>1, MovedKeeps
  <2>3. Kept(n, 0, 0) /\ n.areas = u.mm.areas /\ n.anon_page = MovedPages(u.mm.anon_page, c)
    <3>1. len = until - c.to
      BY <1>1 DEF Free, Span
    <3> DEFINE s == MovedTo(u.mm, c)
    <3> HIDE DEF s, until
    <3>2. Kept(Account(s, v.flags, until - c.to), 0, 0)
      BY <1>1, <2>2, AccountCloses DEF s
    <3>3. Space(s)
      BY <2>2 DEF KeptButFor, Kept, s
    <3>4. n = Account(s, v.flags, len) 
      BY DEF s
    <3> HIDE DEF n
    <3>5. Account(s, v.flags, len).areas = s.areas /\ Account(s, v.flags, len).anon_page = s.anon_page
      BY <3>3, AccountFields
    <3> QED  BY <2>2, <3>1, <3>2, <3>4, <3>5 DEF s
  <2> HIDE DEF n, until
  <2>4. Areas(u.mm.areas) /\ Areas(n.areas)
    BY <2>1, <2>3 DEF KeptButFor, Kept
  <2>5. x = CopyOf(v, c.start, c.to, c.end - c.start)
    BY DEF x, len
  <2>6. Good(n)
    BY <1>2, <2>1, <2>3, <2>4, <2>5, MovedFound DEF Good
  <2>7. MapOf(n) = With(MapOf(m), x)
    <3>1. x.start \in Nat /\ x.pgoff \in Int
      <4>1. /\ x.start = c.to /\ c.to \in Nat
            /\ x.pgoff = IF v.file # NoFile \/ v.anon # NoAnon THEN v.pgoff + (c.start - v.start) ELSE c.to
        BY <1>1, OverFields DEF CopyOf, Free, Span, x
      <4>2. v.start \in Nat /\ v.pgoff \in Int
        BY <1>1, <1>2, AreaFields DEF Areas
      <4> QED  BY <1>1, <4>1, <4>2
    <3>2. MapOf(u.mm) = With(MapOf(m), x)
      BY <1>1, <2>1, <2>4, <3>1, LaysMap
    <3> QED  BY <2>3, <3>2 DEF MapOf
  <2>8. /\ With(MapOf(m), x) = MapMoved(MapOf(m), MapOf(m), c, fresh)
        /\ Without(With(MapOf(m), x), c.start, c.end) =
             MapMoved(MapOf(m), Without(MapOf(m), c.start, c.end), c, fresh)
    BY <1>2, <2>5, CopyMaps DEF fresh
  <2>9. Good(w.mm) /\ (MapOf(w.mm) = MapOf(n) \/ MapOf(w.mm) = Without(MapOf(n), c.start, c.end))
    BY <1>1, <2>6, MunmapIs DEF Unmaps, n
  <2>10. fresh \in IF c.file = NoFile THEN BOOLEAN ELSE {FALSE}
    BY <1>2 DEF fresh
  <2>11. o.ends = "ok" /\ o.mm = w.mm
    BY <1>8, Outcomes
  <2>12. \/ MapOf(w.mm) = MapMoved(MapOf(m), MapOf(m), c, fresh)
         \/ MapOf(w.mm) = MapMoved(MapOf(m), Without(MapOf(m), c.start, c.end), c, fresh)
    BY <2>7, <2>8, <2>9
  <2> QED  BY <2>9, <2>10, <2>11, <2>12 DEF Moves
<1> QED  BY <1>5, <1>6, <1>7, <1>8

-----------------------------------------------------------------------------
(* Pages that change hands between neighbours                               *)

(* [addr, end) goes from areas of the flags old to some of others.          *)
HandsOver(S, T, addr, end, old, flags, gone) ==
  /\ gone \in Int
  /\ Becomes(S, T, 0 - gone, 0, DataOf(flags, end - addr) - DataOf(old, end - addr), NoFile)

LEMMA DataDiffer ==
  ASSUME NEW flags, NEW x \in Int, NEW y \in Int, NEW z \in Int, x - y = z
  PROVE  /\ DataOf(flags, x) - DataOf(flags, y) = DataOf(flags, z)
         /\ DataOf(flags, x) \in Int /\ DataOf(flags, y) \in Int /\ DataOf(flags, z) \in Int
BY DEF DataOf

LEMMA PrevTakesAll ==
  ASSUME NEW S, Areas(S), NEW p \in S, NEW v \in S, p.end = v.start, p.file = v.file,
         p.file \notin Closers, NEW a \in Area, a.start = p.start, a.end = v.end,
         a.flags = p.flags, a.file = p.file
  PROVE  HandsOver(S, (S \ {p, v}) \cup {a}, v.start, v.end, v.flags, p.flags, 1)
<1>1. /\ p \in Area /\ v \in Area /\ p.start \in Nat /\ v.start \in Nat /\ v.end \in Nat
      /\ p.start < v.start /\ v.start < v.end /\ p # v
  BY SingleArea
<1>2. \A u \in S \ {p, v} : u.start \in Nat /\ u.end \in Nat /\ u.start < u.end
                         /\ (u.end <= p.start \/ p.end <= u.start)
                         /\ (u.end <= v.start \/ v.end <= u.start)
  BY SingleArea DEF Areas, Apart
<1>3. Clear(a, S \ {p, v}) /\ a.start < a.end
  BY <1>1, <1>2 DEF Clear
<1> DEFINE x == a.end - a.start
           y == p.end - p.start
           z == v.end - v.start
           pages == x - y - z
           data == DataOf(a.flags, x) - DataOf(p.flags, y) - DataOf(v.flags, z)
<1>4. Becomes(S, (S \ {p, v}) \cup {a}, -1, pages, data, NoFile)
  BY <1>1, <1>3, Joined
<1>5. x \in Int /\ y \in Int /\ z \in Int /\ x - y = z
  BY <1>1
<1> HIDE DEF x, y, z
<1>6. data = DataOf(p.flags, z) - DataOf(v.flags, z) /\ pages = 0
  BY <1>5, DataDiffer
<1> HIDE DEF data, pages
<1> QED  BY <1>4, <1>6 DEF HandsOver, z

LEMMA NextTakesAll ==
  ASSUME NEW S, Areas(S), NEW n \in S, NEW v \in S, v.end = n.start, n.file = v.file,
         n.file \notin Closers, NEW a \in Area, a.start = v.start, a.end = n.end,
         a.flags = n.flags, a.file = n.file
  PROVE  HandsOver(S, (S \ {n, v}) \cup {a}, v.start, v.end, v.flags, n.flags, 1)
<1>1. /\ n \in Area /\ v \in Area /\ n.end \in Nat /\ v.start \in Nat /\ v.end \in Nat
      /\ n.start < n.end /\ v.start < v.end /\ n # v
  BY SingleArea
<1>2. \A u \in S \ {n, v} : u.start \in Nat /\ u.end \in Nat /\ u.start < u.end
                         /\ (u.end <= n.start \/ n.end <= u.start)
                         /\ (u.end <= v.start \/ v.end <= u.start)
  BY SingleArea DEF Areas, Apart
<1>3. Clear(a, S \ {n, v}) /\ a.start < a.end
  BY <1>1, <1>2 DEF Clear
<1> DEFINE x == a.end - a.start
           y == n.end - n.start
           z == v.end - v.start
           pages == x - y - z
           data == DataOf(a.flags, x) - DataOf(n.flags, y) - DataOf(v.flags, z)
<1>4. Becomes(S, (S \ {n, v}) \cup {a}, -1, pages, data, NoFile)
  BY <1>1, <1>3, Joined
<1>5. x \in Int /\ y \in Int /\ z \in Int /\ x - y = z
  BY <1>1
<1> HIDE DEF x, y, z
<1>6. data = DataOf(n.flags, z) - DataOf(v.flags, z) /\ pages = 0
  BY <1>5, DataDiffer
<1> HIDE DEF data, pages
<1> QED  BY <1>4, <1>6 DEF HandsOver, z

(* Two areas are joined by the one between them, one after the other.       *)
LEMMA BothTakeAll ==
  ASSUME NEW S, Areas(S), NEW p \in S, NEW n \in S, NEW v \in S, p.end = v.start, v.end = n.start,
         p.file = v.file, n.file = v.file, v.file \notin Closers, p.flags = n.flags,
         NEW a \in Area, a.start = p.start, a.end = n.end, a.flags = p.flags, a.file = p.file
  PROVE  HandsOver(S, (S \ {p, n, v}) \cup {a}, v.start, v.end, v.flags, p.flags, 2)
<1> DEFINE b == [p EXCEPT !.end = v.end]
           T == (S \ {p, v}) \cup {b}
           U == (T \ {b, n}) \cup {a}
           z == v.end - v.start
           d == DataOf(p.flags, z) - DataOf(v.flags, z)
<1>1. /\ p \in Area /\ v \in Area /\ n \in Area /\ p.start \in Nat /\ v.start \in Nat /\ v.end \in Nat
      /\ n.end \in Nat /\ p.start < v.start /\ v.start < v.end /\ v.end < n.end
      /\ p # v /\ n # v /\ n # p
  BY SingleArea
<1>2. b \in Area /\ b.start = p.start /\ b.end = v.end /\ b.flags = p.flags /\ b.file = p.file
  BY <1>1, OtherEnd
<1> HIDE DEF b
<1>3. HandsOver(S, T, v.start, v.end, v.flags, p.flags, 1)
  BY <1>2, PrevTakesAll
<1>4. Becomes(S, T, -1, 0, d, NoFile) /\ Areas(T)
  <2>1. 0 - 1 = -1
    OBVIOUS
  <2> HIDE DEF T
  <2> QED  BY <1>3, <2>1 DEF HandsOver, Becomes
<1>5. n \in T /\ b \in T /\ n # b
  BY <1>1, <1>2
<1>6. \A u \in T \ {b, n} : u \in S \ {p, n, v}
  OBVIOUS
<1>7. \A u \in T \ {b, n} : u.start \in Nat /\ u.end \in Nat /\ u.start < u.end
                         /\ (u.end <= b.start \/ b.end <= u.start)
                         /\ (u.end <= n.start \/ n.end <= u.start)
  <2> HIDE DEF T
  <2> QED  BY <1>4, <1>5, SingleArea DEF Areas, Apart
<1>8. Clear(a, T \ {b, n}) /\ a.start < a.end
  <2> HIDE DEF T
  <2> QED  BY <1>1, <1>2, <1>7 DEF Clear
<1> DEFINE x == a.end - a.start
           y == b.end - b.start
           w == n.end - n.start
           pages == x - y - w
           data == DataOf(a.flags, x) - DataOf(b.flags, y) - DataOf(n.flags, w)
<1>9. Becomes(T, U, -1, pages, data, NoFile)
  <2> HIDE DEF T
  <2> QED  BY <1>1, <1>2, <1>4, <1>5, <1>8, Joined
<1>10. x \in Int /\ y \in Int /\ w \in Int /\ x - y = w /\ z \in Int
  BY <1>1, <1>2
<1>11. data = 0 /\ pages = 0 /\ d \in Int
  <2> HIDE DEF x, y, w, z
  <2>1. pages = 0
    BY <1>10
  <2>2. /\ DataOf(p.flags, x) - DataOf(p.flags, y) = DataOf(p.flags, w)
        /\ DataOf(p.flags, x) \in Int /\ DataOf(p.flags, y) \in Int
    BY <1>10, DataDiffer
  <2>3. data = 0
    BY <1>2, <2>2
  <2>4. d \in Int
    BY <1>10 DEF DataOf
  <2> QED  BY <2>1, <2>3, <2>4
<1> HIDE DEF T, U, x, y, w, z, pages, data, d
<1>12. Becomes(S, U, (-1) + (-1), 0 + 0, d + 0, NoFile)
  BY <1>4, <1>9, <1>11, ThenBecomes
<1>13. (-1) + (-1) = 0 - 2 /\ 0 + 0 = 0 /\ d + 0 = d
  BY <1>11
<1>14. HandsOver(S, U, v.start, v.end, v.flags, p.flags, 2)
  BY <1>12, <1>13 DEF HandsOver, d, z
<1>15. U = (S \ {p, n, v}) \cup {a}
  <2>1. b \notin S \ {p, n, v}
    <3> SUFFICES ASSUME b \in S \ {p, n, v}  PROVE FALSE
      OBVIOUS
    <3>1. b \in S /\ b # p
      OBVIOUS
    <3>2. b.end <= p.start \/ p.end <= b.start
      BY <3>1 DEF Areas, Apart
    <3> QED  BY <1>1, <1>2, <3>2
  <2> QED  BY <1>5, <2>1 DEF U, T
<1> QED  BY <1>14, <1>15

LEMMA PrevTakesSome ==
  ASSUME NEW S, Areas(S), NEW p \in S, NEW v \in S, p.end = v.start,
         NEW end \in Nat, v.start < end, end < v.end,
         NEW a \in Area, a.start = p.start, a.end = end, a.flags = p.flags, a.file = p.file,
         NEW b \in Area, b.start = end, b.end = v.end, b.flags = v.flags, b.file = v.file
  PROVE  HandsOver(S, (S \ {p, v}) \cup {a, b}, v.start, end, v.flags, p.flags, 0)
<1>1. /\ p \in Area /\ v \in Area /\ p.start \in Nat /\ v.start \in Nat /\ v.end \in Nat
      /\ p.start < v.start /\ v.start < v.end /\ p # v
  BY SingleArea
<1>2. \A u \in S \ {p, v} : u.start \in Nat /\ u.end \in Nat /\ u.start < u.end
                         /\ (u.end <= p.start \/ p.end <= u.start)
                         /\ (u.end <= v.start \/ v.end <= u.start)
  BY SingleArea DEF Areas, Apart
<1>3. Clear(a, S \ {p, v}) /\ Clear(b, S \ {p, v}) /\ a.start < a.end /\ b.start < b.end
      /\ a.end <= b.start
  BY <1>1, <1>2 DEF Clear
<1> DEFINE s == a.end - a.start
           t == b.end - b.start
           x == p.end - p.start
           y == v.end - v.start
           z == end - v.start
           pages == s + t - x - y
           data == DataOf(a.flags, s) + DataOf(b.flags, t) - DataOf(p.flags, x) - DataOf(v.flags, y)
<1>4. Becomes(S, (S \ {p, v}) \cup {a, b}, 0, pages, data, NoFile)
  BY <1>1, <1>3, Shifted
<1>5. /\ s \in Int /\ t \in Int /\ x \in Int /\ y \in Int /\ z \in Int
      /\ s - x = z /\ y - t = z
  BY <1>1
<1> HIDE DEF s, t, x, y, z
<1>6. /\ DataOf(p.flags, s) - DataOf(p.flags, x) = DataOf(p.flags, z)
      /\ DataOf(p.flags, s) \in Int /\ DataOf(p.flags, x) \in Int
  BY <1>5, DataDiffer
<1>7. /\ DataOf(v.flags, y) - DataOf(v.flags, t) = DataOf(v.flags, z)
      /\ DataOf(v.flags, y) \in Int /\ DataOf(v.flags, t) \in Int
  BY ONLY <1>5, DataDiffer
<1>8. data = DataOf(p.flags, z) - DataOf(v.flags, z) /\ pages = 0
  BY <1>5, <1>6, <1>7
<1> HIDE DEF data, pages
<1> QED  BY <1>4, <1>8 DEF HandsOver, z

LEMMA NextTakesSome ==
  ASSUME NEW S, Areas(S), NEW n \in S, NEW v \in S, v.end = n.start,
         NEW addr \in Nat, v.start < addr, addr < v.end,
         NEW a \in Area, a.start = v.start, a.end = addr, a.flags = v.flags, a.file = v.file,
         NEW b \in Area, b.start = addr, b.end = n.end, b.flags = n.flags, b.file = n.file
  PROVE  HandsOver(S, (S \ {v, n}) \cup {a, b}, addr, v.end, v.flags, n.flags, 0)
<1>1. /\ n \in Area /\ v \in Area /\ n.end \in Nat /\ v.start \in Nat /\ v.end \in Nat
      /\ n.start < n.end /\ v.start < v.end /\ v # n
  BY SingleArea
<1>2. \A u \in S \ {v, n} : u.start \in Nat /\ u.end \in Nat /\ u.start < u.end
                         /\ (u.end <= n.start \/ n.end <= u.start)
                         /\ (u.end <= v.start \/ v.end <= u.start)
  BY SingleArea DEF Areas, Apart
<1>3. Clear(a, S \ {v, n}) /\ Clear(b, S \ {v, n}) /\ a.start < a.end /\ b.start < b.end
      /\ a.end <= b.start
  BY <1>1, <1>2 DEF Clear
<1> DEFINE s == a.end - a.start
           t == b.end - b.start
           x == v.end - v.start
           y == n.end - n.start
           z == v.end - addr
           pages == s + t - x - y
           data == DataOf(a.flags, s) + DataOf(b.flags, t) - DataOf(v.flags, x) - DataOf(n.flags, y)
<1>4. Becomes(S, (S \ {v, n}) \cup {a, b}, 0, pages, data, NoFile)
  BY <1>1, <1>3, Shifted
<1>5. /\ s \in Int /\ t \in Int /\ x \in Int /\ y \in Int /\ z \in Int
      /\ t - y = z /\ x - s = z
  BY <1>1
<1> HIDE DEF s, t, x, y, z
<1>6. /\ DataOf(n.flags, t) - DataOf(n.flags, y) = DataOf(n.flags, z)
      /\ DataOf(n.flags, t) \in Int /\ DataOf(n.flags, y) \in Int
  BY <1>5, DataDiffer
<1>7. /\ DataOf(v.flags, x) - DataOf(v.flags, s) = DataOf(v.flags, z)
      /\ DataOf(v.flags, x) \in Int /\ DataOf(v.flags, s) \in Int
  BY ONLY <1>5, DataDiffer
<1>8. data = DataOf(n.flags, z) - DataOf(v.flags, z) /\ pages = 0
  BY <1>5, <1>6, <1>7
<1> HIDE DEF data, pages
<1> QED  BY <1>4, <1>8 DEF HandsOver, z

(* An area gets other flags.                                                *)
LEMMA Reflagged ==
  ASSUME NEW S, Areas(S), NEW v \in S, NEW flags \in Flags,
         NEW T, T = {IF u.start = v.start /\ u.end = v.end THEN [u EXCEPT !.flags = flags] ELSE u :
                       u \in S}
  PROVE  /\ HandsOver(S, T, v.start, v.end, v.flags, flags, 0)
         /\ Overlaid(S, T, Over(v.start, v.end, flags, v.file, v.pgoff, v.anon))
<1> DEFINE a == [v EXCEPT !.flags = flags]
<1>1. v \in Area /\ v.start \in Nat /\ v.end \in Nat /\ v.start < v.end
  BY SingleArea
<1>2. /\ a \in Area /\ a.start = v.start /\ a.end = v.end /\ a.flags = flags /\ a.file = v.file
      /\ a.pgoff = v.pgoff /\ a.anon = v.anon
  BY <1>1, OtherFlags
<1>3. \A u \in S \ {v} : u.start \in Nat /\ u.end \in Nat /\ u.start < u.end
                         /\ (u.end <= v.start \/ v.end <= u.start)
  BY SingleArea DEF Areas, Apart
<1>4. T = (S \ {v}) \cup {a}
  <2>1. \A u \in S : (u.start = v.start /\ u.end = v.end) <=> u = v
    BY <1>1, <1>3
  <2> HIDE DEF a
  <2>2. \A u \in S : (IF u.start = v.start /\ u.end = v.end THEN [u EXCEPT !.flags = flags] ELSE u)
                       = IF u = v THEN a ELSE u
    BY <2>1 DEF a
  <2> QED  BY <2>2
<1> HIDE DEF a
<1>5. Clear(a, S \ {v}) /\ a.start < a.end
  BY <1>1, <1>2, <1>3 DEF Clear
<1> DEFINE x == a.end - a.start
           z == v.end - v.start
           pages == x - z
           data == DataOf(a.flags, x) - DataOf(v.flags, z)
<1>6. Becomes(S, (S \ {v}) \cup {a}, 0, pages, data, NoFile)
  BY <1>2, <1>5, Altered
<1>7. pages = 0 /\ data = DataOf(flags, z) - DataOf(v.flags, z)
  BY <1>1, <1>2
<1> HIDE DEF data, pages
<1>8. 0 - 0 = 0
  OBVIOUS
<1>9. HandsOver(S, T, v.start, v.end, v.flags, flags, 0)
  BY <1>4, <1>6, <1>7, <1>8 DEF HandsOver
<1>10. Overlaid(S, T, Over(v.start, v.end, flags, v.file, v.pgoff, v.anon))
  <2> DEFINE y == Over(v.start, v.end, flags, v.file, v.pgoff, v.anon)
  <2>1. /\ y.start = v.start /\ y.end = v.end /\ y.flags = flags /\ y.file = v.file
        /\ y.pgoff = v.pgoff /\ y.anon = v.anon
    BY OverFields
  <2> HIDE DEF y
  <2>2. Like(a, y) /\ Like(a, v) /\ a.flags = y.flags
    BY <1>2, <2>1 DEF Like
  <2>3. Overlaid(S, (S \ {v}) \cup {a}, y)
    BY <1>2, <2>1, <2>2, OverWhole
  <2> QED  BY <1>4, <2>3 DEF y
<1> QED  BY <1>9, <1>10

-----------------------------------------------------------------------------
(* vma_merge() for pages of an area that get other flags                    *)

(* [addr, end) is in v, whose flags are others.                             *)
Within(S, v, addr, end, flags) ==
  /\ Areas(S) /\ v \in S /\ Span(addr, end) /\ v.start <= addr /\ end <= v.end /\ v.flags # flags

(* Behind its start, v is its own prev, and only next can take the pages.   *)
LEMMA MergeBehind ==
  ASSUME NEW S, NEW v, NEW addr, NEW end, NEW flags, Within(S, v, addr, end, flags),
         v.start < addr, NEW pgoff, pgoff = v.pgoff + (addr - v.start),
         NEW r \in vma_merge(S, {v}, addr, end, flags, v.anon, v.file, pgoff)
  PROVE  /\ HandsOver(S, r.areas, addr, end, v.flags, flags, r.gone)
         /\ Overlaid(S, r.areas, Over(addr, end, flags, v.file, pgoff, v.anon))
<1> DEFINE first == Intersecting(S, v.end, end)
           curr  == {x \in first : \A u \in first : x.start <= u.start}
           next  == IF curr = {} \/ end = The(curr).end THEN vma_lookup(S, end) ELSE {}
           n     == The(next)
           merge_prev == addr = v.end /\ can_vma_merge_after(v, flags, v.anon, v.file, pgoff)
           merge_next == next # {} /\ can_vma_merge_before(n, flags, v.anon, v.file, pgoff + (end - addr))
           both == merge_prev /\ merge_next /\ is_mergeable_anon_vma(v.anon, n.anon, TRUE)
<1>1. /\ Areas(S) /\ v \in S /\ v \in Area /\ addr \in Nat /\ end \in Nat /\ addr < end
      /\ v.start \in Nat /\ v.end \in Nat /\ v.start < v.end /\ end <= v.end /\ v.flags # flags
      /\ v.pgoff \in Int /\ pgoff \in Int
  BY SingleArea, AreaFields DEF Within, Span
<1>2. \A u \in S : u.start \in Nat /\ u.end \in Nat /\ u.start < u.end
                   /\ (u = v \/ u.end <= v.start \/ v.end <= u.start)
  BY <1>1, SingleArea DEF Areas, Apart
<1>3. first = {} /\ curr = {} /\ next = vma_lookup(S, end)
  <2>1. first = {}
    BY <1>1, <1>2 DEF Intersecting
  <2> QED  BY <2>1
<1>4. merge_next => /\ n \in S /\ n \in Area /\ n.start = v.end /\ n.flags = flags /\ end = v.end
                    /\ n.file = v.file /\ n.pgoff = pgoff + (end - addr)
                    /\ (v.anon # NoAnon => n.anon = v.anon)
  <2>1. next # {} => n \in next
    BY TheOne
  <2> HIDE DEF n
  <2>2. next # {} => n \in S /\ n \in Area /\ n.start <= end /\ end < n.end
    BY <1>1, <1>3, <2>1, SingleArea DEF vma_lookup
  <2> HIDE DEF next
  <2>3. merge_next => /\ n.flags = flags /\ n # v /\ n.file = v.file /\ n.pgoff = pgoff + (end - addr)
                      /\ (v.anon # NoAnon => n.anon = v.anon)
    BY <1>1 DEF can_vma_merge_before, is_mergeable_vma, is_mergeable_anon_vma
  <2> QED  BY <1>1, <1>2, <2>2, <2>3
<1>5. merge_next /\ r \in MergeIntoNext(S, v, n, addr)
  <2>1. The({v}) = v /\ {v} # {}
    BY TheOnly
  <2>2. r \in IF v.file = Special THEN {} ELSE
              CASE both -> MergeBoth(S, v, curr, n)
                [] merge_prev /\ ~(merge_next /\ is_mergeable_anon_vma(v.anon, n.anon, TRUE)) ->
                     MergePrev(S, v, curr, end)
                [] merge_next /\ ~merge_prev /\ addr < v.end -> MergeIntoNext(S, v, n, addr)
                [] merge_next /\ ~merge_prev /\ addr >= v.end ->
                     MergeNext(S, curr, n, addr, end - addr)
                [] OTHER -> {}
    BY <2>1, Zenon DEF vma_merge
  <2>3. addr # v.end /\ ~(addr >= v.end)
    BY <1>1
  <2>4. ~merge_prev /\ ~both
    BY <2>3
  <2> HIDE DEF curr, n, both, merge_prev, merge_next
  <2> QED  BY <2>2, <2>3, <2>4
<1> DEFINE off == n.pgoff - (v.end - addr)
           a   == [v EXCEPT !.end = addr]
           q   == dup_anon_vma(n, v)
           b   == [q EXCEPT !.start = addr, !.pgoff = @ - (v.end - addr)]
<1>6. r = [areas |-> (S \ {v, n}) \cup {a, b}, gone |-> 0]
  <2>1. r \in {[areas |-> (S \ {v, n}) \cup {a, b}, gone |-> 0]}
    BY <1>5, Zenon DEF MergeIntoNext, Merged
  <2> QED  BY <2>1
<1> HIDE DEF n, merge_next
<1>7. /\ n \in S /\ n \in Area /\ n.start = v.end /\ n.flags = flags /\ end = v.end
      /\ n.file = v.file /\ n.pgoff = pgoff + (end - addr) /\ (v.anon # NoAnon => n.anon = v.anon)
  BY <1>4, <1>5
<1>8. /\ a \in Area /\ a.start = v.start /\ a.end = addr /\ a.flags = v.flags /\ a.file = v.file
      /\ a.pgoff = v.pgoff /\ a.anon = v.anon
  BY <1>1, OtherEnd
<1> HIDE DEF a
<1>9. /\ q \in Area /\ q.start = n.start /\ q.end = n.end /\ q.flags = n.flags /\ q.file = n.file
      /\ q.pgoff = n.pgoff /\ q.anon = IF n.anon = NoAnon THEN v.anon ELSE n.anon
  BY <1>1, <1>7, DupKeeps
<1> HIDE DEF q
<1>10. /\ b \in Area /\ b.start = addr /\ b.end = n.end /\ b.flags = n.flags /\ b.file = n.file
       /\ b.pgoff = n.pgoff - (v.end - addr) /\ b.anon = q.anon
  <2>1. off \in Int /\ off = n.pgoff - (v.end - addr)
    BY <1>1, <1>7, AreaFields
  <2>2. b = [q EXCEPT !.start = addr, !.pgoff = off]
    BY <1>9
  <2> HIDE DEF off, b
  <2>3. b = Started(q, addr, off)
    BY <2>2 DEF Started
  <2>4. /\ b \in Area /\ b.start = addr /\ b.end = q.end /\ b.flags = q.flags /\ b.file = q.file
        /\ b.pgoff = off /\ b.anon = q.anon
    <3>1. q \in Area /\ addr \in Nat
      BY <1>1, <1>9
    <3> QED  BY ONLY <2>1, <2>3, <3>1, OtherStart
  <2> QED  BY <1>9, <2>1, <2>4
<1> HIDE DEF b
<1>11. v.start < addr /\ addr < v.end
  BY <1>1
<1>12. HandsOver(S, (S \ {v, n}) \cup {a, b}, addr, v.end, v.flags, n.flags, 0)
  BY <1>1, <1>7, <1>8, <1>10, <1>11, NextTakesSome
<1>13. Overlaid(S, (S \ {v, n}) \cup {a, b}, Over(addr, end, flags, v.file, pgoff, v.anon))
  <2> DEFINE x == Over(addr, end, flags, v.file, pgoff, v.anon)
  <2>1. /\ x.start = addr /\ x.end = end /\ x.flags = flags /\ x.file = v.file /\ x.pgoff = pgoff
        /\ x.anon = v.anon
    BY OverFields
  <2> HIDE DEF x
  <2>2. n.pgoff \in Int /\ n.start \in Nat
    BY <1>7, AreaFields
  <2>3. Like(a, v) /\ a.flags = v.flags
    BY <1>8 DEF Like
  <2>4. b.pgoff - b.start = v.pgoff - v.start
    BY <1>1, <1>7, <1>10, <2>2
  <2>5. b.pgoff - b.start = n.pgoff - n.start
    BY <1>1, <1>7, <1>10, <2>2
  <2>6. b.pgoff - b.start = x.pgoff - x.start
    BY <1>1, <1>7, <1>10, <2>1, <2>2
  <2>7. Like(b, n) /\ Like(b, v) /\ Like(b, x) /\ b.flags = n.flags /\ b.flags = x.flags
    BY <1>7, <1>9, <1>10, <2>1, <2>4, <2>5, <2>6 DEF Like
  <2>8. x.start \in Nat /\ x.end \in Nat /\ x.start < x.end /\ a.end = b.start
    BY <1>1, <1>8, <1>10, <2>1
  <2>9. /\ n.start = v.end /\ x.end = v.end /\ v.start < x.start /\ a.start = v.start
        /\ b.start = x.start /\ b.end = n.end
    BY <1>1, <1>7, <1>8, <1>10, <2>1
  <2>10. Overlaid(S, (S \ {v, n}) \cup {a, b}, x)
    BY <1>1, <1>7, <1>8, <1>10, <2>3, <2>7, <2>8, <2>9, OverPart
  <2> QED  BY <2>10 DEF x
<1> QED  BY <1>6, <1>7, <1>12, <1>13

(* At its start, v is curr between its neighbours.                          *)
LEMMA MergeAtStart ==
  ASSUME NEW S, NEW v, NEW addr, NEW end, NEW flags, Within(S, v, addr, end, flags),
         v.start = addr, NEW pgoff, pgoff = v.pgoff,
         NEW r \in vma_merge(S, vma_prev(S, addr), addr, end, flags, v.anon, v.file, pgoff)
  PROVE  /\ HandsOver(S, r.areas, addr, end, v.flags, flags, r.gone)
         /\ Overlaid(S, r.areas, Over(addr, end, flags, v.file, pgoff, v.anon))
<1> DEFINE prev  == vma_prev(S, addr)
           p     == The(prev)
           after == IF prev = {} THEN 0 ELSE p.end
           first == Intersecting(S, after, end)
           curr  == {h \in first : \A u \in first : h.start <= u.start}
           next  == IF curr = {} \/ end = The(curr).end THEN vma_lookup(S, end) ELSE {}
           n     == The(next)
           merge_prev == prev # {} /\ addr = p.end /\ can_vma_merge_after(p, flags, v.anon, v.file, pgoff)
           merge_next == next # {} /\ can_vma_merge_before(n, flags, v.anon, v.file, pgoff + (end - addr))
           x == Over(addr, end, flags, v.file, pgoff, v.anon)
           both == merge_prev /\ merge_next /\ is_mergeable_anon_vma(p.anon, n.anon, TRUE)
<1>1. /\ Areas(S) /\ v \in S /\ v \in Area /\ addr \in Nat /\ end \in Nat /\ addr < end
      /\ v.start \in Nat /\ v.end \in Nat /\ v.start < v.end /\ end <= v.end /\ v.flags # flags
      /\ v.pgoff \in Int
  BY SingleArea, AreaFields DEF Within, Span
<1>over. /\ x.start = addr /\ x.end = end /\ x.flags = flags /\ x.file = v.file
      /\ x.pgoff = v.pgoff /\ x.anon = v.anon
  BY OverFields
<1> HIDE DEF x
<1>2. \A u \in S : u.start \in Nat /\ u.end \in Nat /\ u.start < u.end
                   /\ (u = v \/ u.end <= v.start \/ v.end <= u.start)
  BY <1>1, SingleArea DEF Areas, Apart
<1>3. prev # {} => p \in S /\ p \in Area /\ p.start \in Nat /\ p.end \in Nat /\ p.end <= addr
  <2>1. prev # {} => p \in prev
    BY TheOne
  <2> QED  BY <1>1, <2>1, SingleArea DEF vma_prev
<1>4. after \in Nat /\ after <= addr
  BY <1>1, <1>3
<1>5. curr = {v} /\ The(curr) = v
  <2> HIDE DEF p
  <2>1. v \in first
    BY <1>1, <1>4 DEF Intersecting
  <2>2. ASSUME NEW u \in first  PROVE v.start <= u.start
    <3>1. u \in S /\ u.start < end /\ u.end > after
      BY DEF Intersecting
    <3>2. CASE u.end <= addr
      <4>1. PICK w \in prev : u.end <= w.end
        BY <1>1, <3>1, <3>2, PrevExists
      <4>2. w = p
        BY <1>1, <4>1, SingleArea, TheOne DEF p
      <4> QED  BY <1>2, <1>3, <3>1, <4>1, <4>2
    <3>3. CASE ~(u.end <= addr)
      BY <1>1, <1>2, <3>1, <3>3
    <3> QED  BY <3>2, <3>3
  <2>3. \A h \in first : h.start = v.start => h = v
    BY <1>1, <1>2 DEF Intersecting
  <2>4. \A h \in first : h.start \in Nat
    BY <1>2 DEF Intersecting
  <2> HIDE DEF first
  <2>5. v \in curr
    BY <2>1, <2>2
  <2>6. \A h \in curr : h = v
    BY <1>1, <2>1, <2>2, <2>3, <2>4
  <2>7. curr = {v}
    BY <2>5, <2>6
  <2> QED  BY <2>7, TheOnly
<1>6. next = IF end = v.end THEN vma_lookup(S, end) ELSE {}
  <2> HIDE DEF curr
  <2> QED  BY <1>5
<1>7. merge_prev => /\ p \in S /\ p \in Area /\ p.end = v.start /\ p.flags = flags
                    /\ p.file = v.file /\ p # v /\ p.pgoff \in Int
                    /\ p.pgoff + (p.end - p.start) = v.pgoff
                    /\ (v.anon # NoAnon => p.anon = v.anon)
  <2> HIDE DEF p, prev
  <2>1. merge_prev => p.pgoff \in Int
    BY <1>3, AreaFields
  <2>2. merge_prev => /\ p \in S /\ p \in Area /\ p.end = v.start /\ p.flags = flags
                      /\ p.file = v.file /\ p # v
    BY <1>1, <1>3 DEF can_vma_merge_after, is_mergeable_vma
  <2>3. merge_prev => p.pgoff + (p.end - p.start) = v.pgoff
    BY DEF can_vma_merge_after, vma_pages
  <2>4. merge_prev => (v.anon # NoAnon => p.anon = v.anon)
    BY DEF can_vma_merge_after, is_mergeable_anon_vma
  <2> HIDE DEF merge_prev
  <2> QED  BY <2>1, <2>2, <2>3, <2>4
<1>8. merge_next => /\ n \in S /\ n \in Area /\ n.start = v.end /\ n.flags = flags /\ end = v.end
                    /\ n.file = v.file /\ v.file \notin Closers /\ n # v
                    /\ n.pgoff = v.pgoff + (end - addr) /\ (v.anon # NoAnon => n.anon = v.anon)
  <2>1. next # {} => n \in next
    BY TheOne
  <2> HIDE DEF n
  <2>2. next # {} => n \in S /\ n \in Area /\ n.start <= end /\ end < n.end /\ end = v.end
    BY <1>1, <1>6, <2>1, SingleArea DEF vma_lookup
  <2> HIDE DEF next
  <2>3. merge_next => /\ n.flags = flags /\ n # v /\ n.file = v.file /\ v.file \notin Closers
                      /\ n.pgoff = v.pgoff + (end - addr) /\ (v.anon # NoAnon => n.anon = v.anon)
    BY <1>1 DEF can_vma_merge_before, is_mergeable_vma, is_mergeable_anon_vma
  <2> QED  BY <1>1, <1>2, <2>2, <2>3
<1>9. \/ both /\ r \in MergeBoth(S, p, curr, n)
      \/ merge_prev /\ r \in MergePrev(S, p, curr, end)
      \/ merge_next /\ prev # {} /\ addr < p.end
      \/ merge_next /\ r \in MergeNext(S, curr, n, addr, end - addr)
  <2>1. r \in IF v.file = Special THEN {} ELSE
              CASE both -> MergeBoth(S, p, curr, n)
                [] merge_prev /\ ~(merge_next /\ is_mergeable_anon_vma(p.anon, n.anon, TRUE)) ->
                     MergePrev(S, p, curr, end)
                [] merge_next /\ ~merge_prev /\ prev # {} /\ addr < p.end ->
                     MergeIntoNext(S, p, n, addr)
                [] merge_next /\ ~merge_prev /\ (prev = {} \/ addr >= p.end) ->
                     MergeNext(S, curr, n, addr, end - addr)
                [] OTHER -> {}
    BY Zenon DEF vma_merge
  <2> HIDE DEF curr, n, both, merge_prev, merge_next, p, prev
  <2> QED  BY <2>1
<1>10. CASE both /\ r \in MergeBoth(S, p, curr, n)
  <2> DEFINE q == dup_anon_vma(p, n)
             t == dup_anon_vma(q, v)
             a == [t EXCEPT !.end = n.end]
  <2>1. r = [areas |-> (S \ {p, n, v}) \cup {a}, gone |-> 2]
    <3>1. curr # {}
      BY <1>5
    <3> HIDE DEF curr, p, n
    <3>2. r \in {[areas |-> (S \ ({p, n} \cup curr)) \cup {a}, gone |-> 1 + Cardinality(curr)]}
      BY <1>5, <1>10, <3>1, Zenon DEF MergeBoth, Merged
    <3>3. Cardinality(curr) = 1
      BY <1>5, FS_Singleton
    <3>4. {p, n} \cup curr = {p, n, v}
      BY <1>5
    <3> HIDE DEF a
    <3> QED  BY <3>2, <3>3, <3>4
  <2> HIDE DEF p, n, merge_prev, merge_next, prev
  <2>2. /\ q \in Area /\ q.start = p.start /\ q.end = p.end /\ q.flags = p.flags /\ q.file = p.file
        /\ q.pgoff = p.pgoff /\ q.anon = IF p.anon = NoAnon THEN n.anon ELSE p.anon
    BY <1>7, <1>8, <1>10, DupKeeps
  <2> HIDE DEF q
  <2>3. /\ t \in Area /\ t.start = p.start /\ t.end = p.end /\ t.flags = p.flags /\ t.file = p.file
        /\ t.pgoff = p.pgoff /\ t.anon = IF q.anon = NoAnon THEN v.anon ELSE q.anon
    BY <1>1, <2>2, DupKeeps
  <2>4. n.end \in Nat
    BY <1>8, <1>10, AreaFields
  <2> HIDE DEF t
  <2>5. /\ a \in Area /\ a.start = p.start /\ a.end = n.end /\ a.flags = p.flags /\ a.file = p.file
        /\ a.pgoff = p.pgoff /\ a.anon = t.anon
    BY <2>3, <2>4, OtherEnd
  <2> HIDE DEF a
  <2>6. /\ p \in S /\ n \in S /\ v \in S /\ p.end = v.start /\ v.end = n.start /\ p.file = v.file
        /\ n.file = v.file /\ v.file \notin Closers /\ p.flags = n.flags
    BY <1>1, <1>7, <1>8, <1>10
  <2>7. HandsOver(S, (S \ {p, n, v}) \cup {a}, v.start, v.end, v.flags, p.flags, 2)
    BY ONLY <1>1, <2>5, <2>6, BothTakeAll
  <2>8. Overlaid(S, (S \ {p, n, v}) \cup {a}, x)
    <3>1. p.anon # NoAnon /\ n.anon # NoAnon => p.anon = n.anon
      BY <1>10 DEF is_mergeable_anon_vma
    <3>2. /\ p.anon # NoAnon => a.anon = p.anon
          /\ n.anon # NoAnon => a.anon = n.anon
          /\ v.anon # NoAnon => a.anon = v.anon
      BY <1>7, <1>8, <1>10, <2>2, <2>3, <2>5, <3>1
    <3>3. /\ p.start \in Nat /\ p.pgoff \in Int /\ p.pgoff + (p.end - p.start) = v.pgoff /\ end = v.end
          /\ n.pgoff = v.pgoff + (end - addr)
      BY <1>3, <1>7, <1>8, <1>10, AreaFields
    <3>4. /\ a.pgoff - a.start = p.pgoff - p.start /\ a.pgoff - a.start = v.pgoff - v.start
          /\ a.pgoff - a.start = n.pgoff - n.start /\ a.pgoff - a.start = x.pgoff - x.start
      BY <1>1, <1>over, <2>5, <2>6, <3>3
    <3>5. Like(a, p) /\ Like(a, n) /\ Like(a, v) /\ Like(a, x)
      BY <1>over, <2>5, <2>6, <3>2, <3>4 DEF Like
    <3>6. /\ x.start = v.start /\ x.end = v.end /\ a.flags = x.flags /\ a.flags = p.flags
          /\ a.flags = n.flags /\ n.start = v.end
      BY <1>7, <1>10, <1>over, <2>5, <2>6, <3>3
    <3> QED  BY <1>1, <2>5, <2>6, <3>5, <3>6, OverWhole
  <2> QED  BY <1>7, <1>8, <1>10, <2>1, <2>7, <2>8 DEF x
<1>11. CASE merge_prev /\ r \in MergePrev(S, p, curr, end)
  <2> DEFINE q == dup_anon_vma(p, v)
             a == [q EXCEPT !.end = end]
             b == [v EXCEPT !.start = end, !.pgoff = @ + (end - v.start)]
  <2>1. \/ end = v.end /\ v.file \notin Closers /\ r = [areas |-> (S \ {p, v}) \cup {a}, gone |-> 1]
        \/ end < v.end /\ r = [areas |-> (S \ {p, v}) \cup {a, b}, gone |-> 0]
    <3>1. curr # {}
      BY <1>5
    <3> HIDE DEF curr, p, n
    <3>2. r \in CASE curr = {} -> Merged(S, {p}, {[p EXCEPT !.end = end]}, 0)
                  [] curr # {} /\ v.end = end ->
                       IF v.file \in Closers THEN {} ELSE Merged(S, {p, v}, {a}, 1)
                  [] OTHER -> Merged(S, {p, v}, {a, b}, 0)
      BY <1>5, <1>11, Zenon DEF MergePrev
    <3> HIDE DEF a, b
    <3>3. \/ end = v.end /\ v.file \notin Closers /\ r \in Merged(S, {p, v}, {a}, 1)
          \/ end # v.end /\ r \in Merged(S, {p, v}, {a, b}, 0)
      BY <3>1, <3>2
    <3> QED  BY <1>1, <3>3 DEF Merged
  <2> HIDE DEF p, n, merge_prev, merge_next, prev
  <2>2. /\ q \in Area /\ q.start = p.start /\ q.end = p.end /\ q.flags = p.flags /\ q.file = p.file
        /\ q.pgoff = p.pgoff /\ q.anon = IF p.anon = NoAnon THEN v.anon ELSE p.anon
    BY <1>1, <1>7, <1>11, DupKeeps
  <2> HIDE DEF q
  <2>3. /\ a \in Area /\ a.start = p.start /\ a.end = end /\ a.flags = p.flags /\ a.file = p.file
        /\ a.pgoff = p.pgoff /\ a.anon = q.anon
    BY <1>1, <2>2, OtherEnd
  <2> HIDE DEF a
  <2>4. p \in S /\ v \in S /\ p.end = v.start /\ p.file = v.file /\ p.flags = flags
    BY <1>1, <1>7, <1>11
  <2>like. Like(a, p) /\ Like(a, v) /\ Like(a, x) /\ a.flags = x.flags
    <3>1. /\ p.start \in Nat /\ p.pgoff \in Int /\ p.pgoff + (p.end - p.start) = v.pgoff
          /\ (v.anon # NoAnon => p.anon = v.anon)
      BY <1>3, <1>7, <1>11, AreaFields
    <3>2. /\ a.pgoff - a.start = p.pgoff - p.start /\ a.pgoff - a.start = v.pgoff - v.start
          /\ a.pgoff - a.start = x.pgoff - x.start
      BY <1>1, <1>over, <2>3, <2>4, <3>1
    <3> QED  BY <1>over, <2>2, <2>3, <2>4, <3>1, <3>2 DEF Like
  <2>5. CASE end = v.end /\ v.file \notin Closers /\ r = [areas |-> (S \ {p, v}) \cup {a}, gone |-> 1]
    <3>1. a.end = v.end /\ p.file \notin Closers
      BY <2>3, <2>4, <2>5
    <3>2. HandsOver(S, (S \ {p, v}) \cup {a}, v.start, v.end, v.flags, p.flags, 1)
      BY ONLY <1>1, <2>3, <2>4, <3>1, PrevTakesAll
    <3>3. Overlaid(S, (S \ {p, v}) \cup {a}, x)
      <4>1. x.start = v.start /\ x.end = v.end
        BY <1>1, <1>over, <2>5
      <4> QED  BY <1>1, <2>3, <2>4, <2>like, <3>1, <4>1, OverWhole
    <3> QED  BY <2>4, <2>5, <3>2, <3>3 DEF x
  <2>6. CASE end < v.end /\ r = [areas |-> (S \ {p, v}) \cup {a, b}, gone |-> 0]
    <3>1. b = Right(v, end)
      BY DEF Right
    <3> HIDE DEF b
    <3>2. /\ b \in Area /\ b.start = end /\ b.end = v.end /\ b.flags = v.flags /\ b.file = v.file
          /\ b.pgoff = v.pgoff + (end - v.start) /\ b.anon = v.anon
      BY <1>1, <3>1, LeftAndRight
    <3>3. v.start < end
      BY <1>1
    <3>4. HandsOver(S, (S \ {p, v}) \cup {a, b}, v.start, end, v.flags, p.flags, 0)
      BY ONLY <1>1, <2>3, <2>4, <2>6, <3>2, <3>3, PrevTakesSome
    <3>5. Overlaid(S, (S \ {p, v}) \cup {a, b}, x)
      <4>1. Like(b, v)
        BY <1>1, <3>2 DEF Like
      <4>2. /\ x.start \in Nat /\ x.end \in Nat /\ x.start < x.end /\ a.end = b.start
            /\ x.start = v.start /\ x.end < v.end /\ a.end = x.end
        BY <1>1, <1>over, <2>3, <2>6, <3>2
      <4> QED  BY <1>1, <2>3, <2>4, <2>like, <3>2, <4>1, <4>2, OverPart
    <3> QED  BY <2>4, <2>6, <3>4, <3>5 DEF x
  <2> QED  BY <2>1, <2>5, <2>6
<1>12. CASE merge_next /\ prev # {} /\ addr < p.end
  BY <1>1, <1>3, <1>12
<1>13. CASE merge_next /\ r \in MergeNext(S, curr, n, addr, end - addr)
  <2> DEFINE q   == dup_anon_vma(n, v)
             off == v.pgoff
             a   == [q EXCEPT !.start = addr, !.pgoff = off]
  <2>1. r = [areas |-> (S \ {n, v}) \cup {a}, gone |-> 1]
    <3>1. curr # {}
      BY <1>5
    <3> HIDE DEF curr, p, n
    <3>2. r \in {[areas |-> (S \ {n, v}) \cup {a}, gone |-> 1]}
      BY <1>5, <1>13, <3>1, Zenon DEF MergeNext, Merged
    <3> QED  BY <3>2
  <2> HIDE DEF p, n, merge_prev, merge_next, prev
  <2>2. /\ q \in Area /\ q.start = n.start /\ q.end = n.end /\ q.flags = n.flags /\ q.file = n.file
        /\ q.anon = IF n.anon = NoAnon THEN v.anon ELSE n.anon
    BY <1>1, <1>8, <1>13, DupKeeps
  <2> HIDE DEF q
  <2>3. a = Started(q, addr, off) /\ off \in Int /\ off = v.pgoff
    BY <1>1, AreaFields DEF Started
  <2> HIDE DEF a, off
  <2>4. /\ a \in Area /\ a.start = addr /\ a.end = q.end /\ a.flags = q.flags /\ a.file = q.file
        /\ a.pgoff = off /\ a.anon = q.anon
    <3>1. q \in Area /\ addr \in Nat
      BY <1>1, <2>2
    <3> QED  BY ONLY <2>3, <3>1, OtherStart
  <2>5. /\ n \in S /\ v \in S /\ v.end = n.start /\ n.file = v.file /\ n.file \notin Closers
        /\ n.flags = flags /\ end = v.end
    BY <1>1, <1>8, <1>13
  <2>6. a \in Area /\ a.start = v.start /\ a.end = n.end /\ a.flags = n.flags /\ a.file = n.file
    BY <2>2, <2>4
  <2>7. HandsOver(S, (S \ {n, v}) \cup {a}, v.start, v.end, v.flags, n.flags, 1)
    BY ONLY <1>1, <2>5, <2>6, NextTakesAll
  <2>8. Overlaid(S, (S \ {n, v}) \cup {a}, x)
    <3>1. n.pgoff = v.pgoff + (end - addr) /\ (v.anon # NoAnon => n.anon = v.anon)
      BY <1>8, <1>13
    <3>2. /\ a.pgoff - a.start = n.pgoff - n.start /\ a.pgoff - a.start = v.pgoff - v.start
          /\ a.pgoff - a.start = x.pgoff - x.start
      BY <1>1, <1>over, <2>3, <2>4, <2>5, <3>1
    <3>3. Like(a, n) /\ Like(a, v) /\ Like(a, x)
      BY <1>over, <2>2, <2>4, <2>5, <2>6, <3>1, <3>2 DEF Like
    <3>4. x.start = v.start /\ x.end = v.end /\ a.flags = x.flags
      BY <1>1, <1>over, <2>5, <2>6
    <3> QED  BY <1>1, <2>5, <2>6, <3>3, <3>4, OverWhole
  <2> QED  BY <2>1, <2>5, <2>7, <2>8 DEF x
<1> HIDE DEF p, n, merge_prev, merge_next, both, prev
<1> QED  BY <1>9, <1>10, <1>11, <1>12, <1>13

-----------------------------------------------------------------------------
(* mprotect()                                                               *)

LEMMA DataMoves ==
  ASSUME NEW old \in {"r", "rw"}, NEW flags \in {"r", "rw"}, flags # old, NEW pages \in Int
  PROVE  /\ DataOf(flags, pages) - DataOf(old, pages) = IF flags = "rw" THEN pages ELSE 0 - pages
         /\ DataOf(flags, pages) - DataOf(old, pages) \in Int
BY DEF DataOf

(* The pages of data are counted before the areas change.                   *)
LEMMA DataKeeps ==
  ASSUME NEW m, Kept(m, 0, 0), NEW data \in Int, NEW e, e = m.data_vm + data,
         NEW w, w = [m EXCEPT !.data_vm = e]
  PROVE  Kept(w, 0, 0 - data) /\ w.areas = m.areas /\ w.anon_page = m.anon_page
<1>1. Space(m) /\ m.data_vm \in Int /\ Areas(m.areas)
  BY DEF Kept
<1>2. /\ Space(w) /\ w.areas = m.areas /\ w.map_count = m.map_count /\ w.users = m.users
      /\ w.total_vm = m.total_vm /\ w.data_vm = e
  BY ONLY <1>1, w = [m EXCEPT !.data_vm = e] DEF Space
<1>3. w.data_vm \in Int /\ w.data_vm + (0 - data) = m.data_vm /\ m.data_vm + 0 = m.data_vm
  BY <1>1, <1>2
<1> QED  BY <1>2, <1>3 DEF Kept

LEMMA HandsOverKeeps ==
  ASSUME NEW m, NEW data \in Int, Kept(m, 0, 0 - data), NEW T, NEW addr, NEW end, NEW old,
         NEW flags, NEW gone, HandsOver(m.areas, T, addr, end, old, flags, gone),
         data = DataOf(flags, end - addr) - DataOf(old, end - addr),
         NEW w, Regrouped(m, w, T, gone)
  PROVE  Kept(w, 0, 0)
<1>1. gone \in Int /\ Becomes(m.areas, T, 0 - gone, 0, data, NoFile)
  BY DEF HandsOver
<1>2. Areas(m.areas) /\ m.map_count = SumOf(One, m.areas)
  BY DEF Kept
<1>3. m.map_count \in Int
  BY <1>2, SumsOfAreas
<1>4. w.map_count = m.map_count + (0 - gone)
  BY <1>1, <1>3 DEF Regrouped
<1>5. w.users = Used(m.users, NoFile, 1)
  BY FilesDiffer DEF Regrouped, Used
<1>6. Counted(m, w, 0 - gone, 0, data, NoFile)
  BY <1>1, <1>4, <1>5 DEF Counted, Regrouped
<1> DEFINE k == 0 - gone
           d == 0 - data
<1>7. k \in Int /\ d \in Int /\ d + data = 0 /\ 0 + 0 = 0
  BY <1>1
<1> HIDE DEF k, d
<1>8. Kept(w, 0 + 0, d + data)
  BY <1>6, <1>7, KeptBy DEF k, d
<1> QED  BY <1>7, <1>8

(* split_vma() splits, finds a border there already, or fails.              *)
LEMMA SplitVmaKeeps ==
  ASSUME NEW m, Kept(m, 0, 0), NEW addr \in Nat, NEW o \in split_vma(m, addr)
  PROVE  /\ Kept(o.mm, 0, 0) /\ o.mm.data_vm = m.data_vm
         /\ Lays(m, o.mm, Nowhere) /\ (o.ends = "ok" \/ o.ends = "failed")
         /\ Ok(o) => \/ /\ o.mm.areas = m.areas
                        /\ \A u \in m.areas : ~(u.start < addr /\ addr < u.end)
                     \/ \E u \in m.areas :
                          /\ u.start < addr /\ addr < u.end
                          /\ o.mm.areas = (m.areas \ {u}) \cup {Left(u, addr), Right(u, addr)}
<1> DEFINE borders == {v.start : v \in m.areas} \cup {v.end : v \in m.areas}
<1>1. Areas(m.areas) /\ Lays(m, m, Nowhere)
  BY OverNothing DEF Kept, Lays
<1>2. \/ addr \in borders /\ o = Succeeds(m)
      \/ o = Fails(m)
      \/ o = Succeeds(SplitAt(m, addr))
  BY Zenon DEF split_vma
<1>3. CASE addr \in borders /\ o = Succeeds(m)
  <2>1. PICK x \in m.areas : addr = x.start \/ addr = x.end
    BY <1>3
  <2>2. ASSUME NEW u \in m.areas  PROVE ~(u.start < addr /\ addr < u.end)
    <3>1. /\ u.start \in Nat /\ u.end \in Nat /\ x.start \in Nat /\ x.end \in Nat
          /\ u.start < u.end /\ x.start < x.end
      BY <1>1, SingleArea
    <3>2. u = x \/ u.end <= x.start \/ x.end <= u.start
      BY <1>1 DEF Areas, Apart
    <3> QED  BY <2>1, <3>1, <3>2
  <2>3. o.mm = m /\ o.ends = "ok"
    BY <1>3, Outcomes
  <2> QED  BY <1>1, <2>2, <2>3
<1>4. CASE o = Fails(m)
  BY <1>1, <1>4, Outcomes
<1>5. CASE o = Succeeds(SplitAt(m, addr))
  <2>1. o.mm = SplitAt(m, addr) /\ o.ends = "ok"
    BY <1>5, Outcomes
  <2> DEFINE w == SplitAt(m, addr)
  <2>2. /\ Kept(w, 0, 0) /\ w.data_vm = m.data_vm
        /\ \/ w = m /\ \A v \in m.areas : ~(v.start < addr /\ addr < v.end)
           \/ \E v \in m.areas :
                /\ v.start < addr /\ addr < v.end
                /\ w.areas = (m.areas \ {v}) \cup {Left(v, addr), Right(v, addr)}
                /\ w.map_count = m.map_count + 1
    <3>1. 0 \in Int
      OBVIOUS
    <3> QED  BY <3>1, SplitAtKeeps, Zenon
  <2>3. Lays(m, w, Nowhere)
    BY SplitLays
  <2> HIDE DEF w
  <2> QED  BY <2>1, <2>2, <2>3 DEF w
<1> QED  BY <1>2, <1>3, <1>4, <1>5

(* Then there is an area from addr on, or up to addr.                       *)
LEMMA SplitStart ==
  ASSUME NEW m, Kept(m, 0, 0), NEW addr \in Nat, NEW o \in split_vma(m, addr), Ok(o),
         NEW v \in m.areas, v.start <= addr, addr < v.end
  PROVE  \E x \in o.mm.areas : x.start = addr /\ x.end = v.end /\ x.flags = v.flags
<1>1. Areas(m.areas) /\ v \in Area /\ v.start \in Nat /\ v.end \in Nat
  BY SingleArea DEF Kept
<1>2. CASE o.mm.areas = m.areas /\ \A u \in m.areas : ~(u.start < addr /\ addr < u.end)
  BY <1>1, <1>2
<1>3. ASSUME NEW u \in m.areas, u.start < addr, addr < u.end,
             o.mm.areas = (m.areas \ {u}) \cup {Left(u, addr), Right(u, addr)}
      PROVE  \E x \in o.mm.areas : x.start = addr /\ x.end = v.end /\ x.flags = v.flags
  <2>1. u \in Area /\ u.start \in Nat /\ u.end \in Nat /\ (u = v \/ u.end <= v.start \/ v.end <= u.start)
    BY <1>1, SingleArea DEF Areas, Apart
  <2>2. u = v
    BY <1>1, <1>3, <2>1
  <2>3. LET x == Right(v, addr) IN x.start = addr /\ x.end = v.end /\ x.flags = v.flags
    BY <1>1, LeftAndRight
  <2> QED  BY <1>3, <2>2, <2>3
<1> QED  BY <1>2, <1>3, SplitVmaKeeps

LEMMA SplitEnd ==
  ASSUME NEW m, Kept(m, 0, 0), NEW addr \in Nat, NEW o \in split_vma(m, addr), Ok(o),
         NEW v \in m.areas, v.start < addr, addr <= v.end
  PROVE  \E x \in o.mm.areas : x.start = v.start /\ x.end = addr /\ x.flags = v.flags
<1>1. Areas(m.areas) /\ v \in Area /\ v.start \in Nat /\ v.end \in Nat
  BY SingleArea DEF Kept
<1>2. CASE o.mm.areas = m.areas /\ \A u \in m.areas : ~(u.start < addr /\ addr < u.end)
  BY <1>1, <1>2
<1>3. ASSUME NEW u \in m.areas, u.start < addr, addr < u.end,
             o.mm.areas = (m.areas \ {u}) \cup {Left(u, addr), Right(u, addr)}
      PROVE  \E x \in o.mm.areas : x.start = v.start /\ x.end = addr /\ x.flags = v.flags
  <2>1. u \in Area /\ u.start \in Nat /\ u.end \in Nat /\ (u = v \/ u.end <= v.start \/ v.end <= u.start)
    BY <1>1, SingleArea DEF Areas, Apart
  <2>2. u = v
    BY <1>1, <1>3, <2>1
  <2>3. LET x == Left(v, addr) IN x.start = v.start /\ x.end = addr /\ x.flags = v.flags
    BY <1>1, LeftAndRight
  <2> QED  BY <1>3, <2>2, <2>3
<1> QED  BY <1>2, <1>3, SplitVmaKeeps

LEMMA SetFlagsKeeps ==
  ASSUME NEW m, NEW data \in Int, Kept(m, 0, 0 - data), NEW x \in m.areas, NEW flags \in Flags,
         data = DataOf(flags, x.end - x.start) - DataOf(x.flags, x.end - x.start)
  PROVE  /\ Kept(SetFlags(m, x.start, x.end, flags), 0, 0)
         /\ Lays(m, SetFlags(m, x.start, x.end, flags),
                 Over(x.start, x.end, flags, x.file, x.pgoff, x.anon))
<1> DEFINE T == {IF u.start = x.start /\ u.end = x.end THEN [u EXCEPT !.flags = flags] ELSE u :
                   u \in m.areas}
           w == SetFlags(m, x.start, x.end, flags)
<1>1. w = [m EXCEPT !.areas = T]
  BY DEF SetFlags
<1> DEFINE y == Over(x.start, x.end, flags, x.file, x.pgoff, x.anon)
<1>2. HandsOver(m.areas, T, x.start, x.end, x.flags, flags, 0) /\ Overlaid(m.areas, T, y)
  <2>1. Areas(m.areas)
    BY DEF Kept
  <2> DEFINE S == m.areas
  <2>2. T = {IF u.start = x.start /\ u.end = x.end THEN [u EXCEPT !.flags = flags] ELSE u : u \in S}
    OBVIOUS
  <2> HIDE DEF T
  <2>3. x \in S /\ Areas(S)
    BY <2>1
  <2> HIDE DEF S
  <2>4. HandsOver(S, T, x.start, x.end, x.flags, flags, 0) /\ Overlaid(S, T, y)
    BY <2>2, <2>3, Reflagged
  <2> QED  BY <2>4 DEF S
<1>3. Space(m) /\ m.map_count \in Int
  BY SumsOfAreas DEF Kept
<1> HIDE DEF T, w, y
<1>4. /\ Space(w) /\ w.areas = T /\ w.map_count = m.map_count /\ w.users = m.users
      /\ w.total_vm = m.total_vm /\ w.data_vm = m.data_vm /\ w.anon_page = m.anon_page
  BY ONLY <1>1, <1>3 DEF Space
<1>5. Regrouped(m, w, T, 0)
  BY <1>3, <1>4 DEF Regrouped
<1>6. Kept(w, 0, 0)
  BY <1>2, <1>5, HandsOverKeeps
<1>7. Lays(m, w, y)
  BY <1>2, <1>4 DEF Lays
<1> QED  BY <1>6, <1>7 DEF w, y

ModifyOK(m, c) ==
  /\ Span(c.start, c.end) /\ c.flags \in {"r", "rw"}
  /\ \E v \in m.areas : v.start <= c.start /\ c.end <= v.end /\ v.flags \in {"r", "rw"} \ {c.flags}

(* mprotect: the pages stay where they are, with other flags.               *)
Protected(map, start, end, flags) ==
  [p \in Page |-> IF start <= p /\ p < end THEN [map[p] EXCEPT !.flags = flags] ELSE map[p]]

Protects(m, c, o) ==
  o.ends = "ok" /\ Good(o.mm) /\ MapOf(o.mm) = Protected(MapOf(m), c.start, c.end, c.flags)

LEMMA LaidOverItself ==
  ASSUME NEW m, Areas(m.areas), NEW v \in m.areas, NEW start \in Nat, NEW end \in Nat,
         v.start <= start, end <= v.end, NEW flags, NEW x,
         x = Over(start, end, flags, v.file, v.pgoff + (start - v.start), v.anon)
  PROVE  /\ With(MapOf(m), x) = Protected(MapOf(m), start, end, flags)
         /\ x.start \in Nat /\ x.pgoff \in Int /\ (v.pgoff >= 0 => x.pgoff \in Nat)
<1>1. v.start \in Nat /\ v.end \in Nat /\ v.pgoff \in Int
  BY SingleArea, AreaFields DEF Areas
<1>2. /\ x.start = start /\ x.end = end /\ x.flags = flags /\ x.file = v.file
      /\ x.pgoff = v.pgoff + (start - v.start)
  BY OverFields
<1> DEFINE M == MapOf(m)
<1>3. ASSUME NEW p \in Page, start <= p, p < end
      PROVE  [flags |-> x.flags, file |-> x.file, off |-> x.pgoff + p - x.start] =
               [M[p] EXCEPT !.flags = flags]
  <2>1. p \in Nat
    BY PagesAreNumbers
  <2>2. Holds(v, p)
    BY <1>1, <1>3, <2>1 DEF Holds
  <2>3. M[p] = [flags |-> v.flags, file |-> v.file, off |-> v.pgoff + p - v.start]
    BY <2>1, <2>2, ContentOfHeld DEF MapOf
  <2>4. x.pgoff + p - x.start = v.pgoff + p - v.start
    BY <1>1, <1>2, <2>1
  <2> HIDE DEF M
  <2> QED  BY <1>2, <2>3, <2>4
<1>4. \A p \in Page : Holds(x, p) <=> start <= p /\ p < end
  BY <1>2 DEF Holds
<1>5. With(M, x) = Protected(M, start, end, flags)
  <2> HIDE DEF M
  <2> QED  BY <1>3, <1>4 DEF With, Protected
<1> QED  BY <1>1, <1>2, <1>5

LEMMA ModifyIs ==
  ASSUME NEW m, Good(m), NEW c, ModifyOK(m, c), NEW o \in vma_modify(m, c)
  PROVE  FailsIdly(m, o) \/ Protects(m, c, o)
<1> DEFINE S     == m.areas
           v     == The(vma_lookup(S, c.start))
           prev  == IF v.start < c.start THEN {v} ELSE vma_prev(S, c.start)
           pgoff == v.pgoff + (c.start - v.start)
           by    == IF c.flags = "rw" THEN c.end - c.start ELSE c.start - c.end
           dvm   == m.data_vm + by
           moved == [m EXCEPT !.data_vm = dvm]
           len   == c.end - c.start
           data  == DataOf(c.flags, len) - DataOf(v.flags, len)
           x     == Over(c.start, c.end, c.flags, v.file, pgoff, v.anon)
           joins == vma_merge(S, prev, c.start, c.end, c.flags, v.anon, v.file, pgoff)
           Alone(u) == IF ~Ok(u) THEN {u} ELSE
                       {IF ~Ok(w) THEN w
                        ELSE Succeeds(SetFlags([w.mm EXCEPT !.data_vm = moved.data_vm],
                                               c.start, c.end, c.flags)) :
                          w \in split_vma(u.mm, c.end)}
<1>1. /\ Areas(S) /\ Space(m) /\ m.data_vm \in Int
      /\ c.start \in Nat /\ c.end \in Nat /\ c.start < c.end /\ Span(c.start, c.end)
      /\ c.flags \in {"r", "rw"} /\ c.flags \in Flags /\ Kept(m, 0, 0)
  BY DEF Good, Kept, ModifyOK, Span, Flags
<1>2. /\ v \in S /\ v.start <= c.start /\ c.end <= v.end /\ v.flags \in {"r", "rw"} \ {c.flags}
      /\ v.start \in Nat /\ v.end \in Nat
  <2>1. PICK h \in S : h.start <= c.start /\ c.end <= h.end /\ h.flags \in {"r", "rw"} \ {c.flags}
    BY DEF ModifyOK
  <2>2. h.start \in Nat /\ h.end \in Nat
    BY <1>1, SingleArea
  <2>3. h \in vma_lookup(S, c.start)
    BY <1>1, <2>1, <2>2 DEF vma_lookup
  <2>4. v = h
    BY <1>1, <2>3, SingleArea, TheOne
  <2> QED  BY <2>1, <2>2, <2>4
<1>3. Within(S, v, c.start, c.end, c.flags)
  BY <1>1, <1>2 DEF Within
<1>4. data = by /\ data \in Int /\ len \in Int
  <2>1. len \in Int /\ c.start - c.end = 0 - len
    BY <1>1
  <2> HIDE DEF v, len
  <2>2. data = (IF c.flags = "rw" THEN len ELSE 0 - len) /\ data \in Int
    BY <1>1, <1>2, <2>1, DataMoves
  <2> QED  BY <2>1, <2>2 DEF len
<1>5. o \in {Succeeds(WithMerge(moved, r)) : r \in joins} \cup UNION {Alone(u) : u \in split_vma(m, c.start)}
  BY Zenon DEF vma_modify
<1>over. /\ With(MapOf(m), x) = Protected(MapOf(m), c.start, c.end, c.flags)
         /\ x.start \in Nat /\ x.pgoff \in Nat
  <2>1. v.pgoff >= 0
    BY <1>2 DEF Good, Found
  <2>2. x = Over(c.start, c.end, c.flags, v.file, v.pgoff + (c.start - v.start), v.anon)
    OBVIOUS
  <2>3. v \in m.areas /\ Areas(m.areas)
    BY <1>1, <1>2
  <2> HIDE DEF v, x
  <2> QED  BY <1>1, <1>2, <2>1, <2>2, <2>3, LaidOverItself
<1> HIDE DEF v, data, by, joins, Alone, x
<1>6. Kept(moved, 0, 0 - data) /\ moved.areas = S /\ moved.anon_page = m.anon_page
  <2>1. dvm = m.data_vm + data
    BY <1>4
  <2> HIDE DEF dvm
  <2>2. moved = [m EXCEPT !.data_vm = dvm]
    OBVIOUS
  <2> HIDE DEF moved
  <2> QED  BY <1>1, <1>4, <2>1, <2>2, DataKeeps
<1>7. moved.data_vm = dvm
  <2> HIDE DEF dvm
  <2> QED  BY <1>1 DEF Space
<1>8. ASSUME NEW r \in joins, o = Succeeds(WithMerge(moved, r))
      PROVE  Protects(m, c, o)
  <2>1. HandsOver(S, r.areas, c.start, c.end, v.flags, c.flags, r.gone) /\ Overlaid(S, r.areas, x)
    <3>1. CASE v.start < c.start
      <4>1. prev = {v}
        BY <3>1
      <4> HIDE DEF prev
      <4>2. r \in vma_merge(S, {v}, c.start, c.end, c.flags, v.anon, v.file, pgoff)
        BY <1>8, <4>1 DEF joins
      <4>3. pgoff = v.pgoff + (c.start - v.start)
        OBVIOUS
      <4> HIDE DEF S, pgoff
      <4> QED  BY <1>3, <3>1, <4>2, <4>3, MergeBehind DEF x
    <3>2. CASE ~(v.start < c.start)
      <4>1. prev = vma_prev(S, c.start) /\ v.start = c.start
        BY <1>1, <1>2, <3>2
      <4> HIDE DEF prev
      <4>2. r \in vma_merge(S, vma_prev(S, c.start), c.start, c.end, c.flags, v.anon, v.file, pgoff)
        BY <1>8, <4>1 DEF joins
      <4>3. pgoff = v.pgoff
        BY <1>1, <1>2, <4>1, AreaFields DEF Areas
      <4> HIDE DEF S, pgoff
      <4> QED  BY <1>3, <4>1, <4>2, <4>3, MergeAtStart DEF x
    <3> QED  BY <3>1, <3>2
  <2> DEFINE w == WithMerge(moved, r)
             T == r.areas
             k == moved.map_count - r.gone
  <2>2. w = [moved EXCEPT !.areas = T, !.map_count = k]
    BY DEF WithMerge
  <2> HIDE DEF moved
  <2>3. Space(moved)
    BY <1>6 DEF Kept
  <2> HIDE DEF w, T, k
  <2>4. /\ Space(w) /\ w.areas = T /\ w.map_count = k /\ w.users = moved.users
        /\ w.total_vm = moved.total_vm /\ w.data_vm = moved.data_vm
        /\ w.anon_page = moved.anon_page
    BY ONLY <2>2, <2>3 DEF Space
  <2>5. Regrouped(moved, w, T, r.gone)
    BY <2>4 DEF Regrouped, k
  <2>6. HandsOver(moved.areas, T, c.start, c.end, v.flags, c.flags, r.gone)
    BY <1>6, <2>1 DEF T
  <2>7. data = DataOf(c.flags, c.end - c.start) - DataOf(v.flags, c.end - c.start)
    BY DEF data
  <2>8. Kept(w, 0, 0)
    BY ONLY <1>4, <1>6, <2>5, <2>6, <2>7, HandsOverKeeps
  <2>9. Lays(m, w, x)
    BY <1>6, <2>1, <2>4 DEF Lays, T
  <2>10. Found(w) /\ MapOf(w) = With(MapOf(m), x)
    <3>1. Areas(w.areas)
      BY <2>8 DEF Kept
    <3> QED  BY <1>1, <1>over, <2>9, <3>1, LaysFound, LaysMap DEF Good
  <2> QED  BY <1>8, <1>over, <2>8, <2>10, Outcomes DEF w, Protects, Good
<1>9. ASSUME NEW u \in split_vma(m, c.start), o \in Alone(u)
      PROVE  FailsIdly(m, o) \/ Protects(m, c, o)
  <2>1. /\ Kept(u.mm, 0, 0) /\ u.mm.data_vm = m.data_vm /\ (u.ends = "ok" \/ u.ends = "failed")
        /\ Good(u.mm) /\ MapOf(u.mm) = MapOf(m)
    <3>1. /\ Kept(u.mm, 0, 0) /\ u.mm.data_vm = m.data_vm /\ (u.ends = "ok" \/ u.ends = "failed")
          /\ Lays(m, u.mm, Nowhere)
      BY <1>1, SplitVmaKeeps
    <3>2. Areas(u.mm.areas)
      BY <3>1 DEF Kept
    <3> QED  BY <1>1, <3>1, <3>2, LaysNothing DEF Good
  <2>2. CASE ~Ok(u)
    <3>1. o = u /\ o.ends = "failed"
      BY <1>9, <2>1, <2>2 DEF Alone, Ok
    <3> QED  BY <2>1, <3>1 DEF FailsIdly
  <2>3. CASE Ok(u)
    <3>1. PICK w \in split_vma(u.mm, c.end) :
            o = IF ~Ok(w) THEN w
                ELSE Succeeds(SetFlags([w.mm EXCEPT !.data_vm = moved.data_vm],
                                       c.start, c.end, c.flags))
      BY <1>9, <2>3, Zenon DEF Alone
    <3> DEFINE um == u.mm
    <3> HIDE DEF um
    <3>2. /\ Kept(um, 0, 0) /\ um.data_vm = m.data_vm /\ w \in split_vma(um, c.end)
          /\ Good(um) /\ MapOf(um) = MapOf(m)
      BY <2>1, <3>1 DEF um
    <3>3. /\ Kept(w.mm, 0, 0) /\ w.mm.data_vm = um.data_vm /\ (w.ends = "ok" \/ w.ends = "failed")
          /\ Good(w.mm) /\ MapOf(w.mm) = MapOf(m)
      <4>1. /\ Kept(w.mm, 0, 0) /\ w.mm.data_vm = um.data_vm /\ (w.ends = "ok" \/ w.ends = "failed")
            /\ Lays(um, w.mm, Nowhere)
        BY <1>1, <3>2, SplitVmaKeeps
      <4>2. Areas(w.mm.areas) /\ Areas(um.areas)
        BY <3>2, <4>1 DEF Kept
      <4> QED  BY <3>2, <4>1, <4>2, LaysNothing DEF Good
    <3>4. CASE ~Ok(w)
      <4>1. o = w /\ o.ends = "failed"
        BY <3>1, <3>3, <3>4 DEF Ok
      <4> QED  BY <3>3, <4>1 DEF FailsIdly
    <3>5. CASE Ok(w)
      <4>1. PICK h \in um.areas : h.start = c.start /\ h.end = v.end /\ h.flags = v.flags
        <5>1. v \in m.areas /\ v.start <= c.start /\ c.start < v.end
          BY <1>1, <1>2
        <5> QED  BY <1>1, <2>3, <5>1, SplitStart DEF um
      <4>2. PICK y \in w.mm.areas : y.start = c.start /\ y.end = c.end /\ y.flags = v.flags
        <5>1. h.start < c.end /\ c.end <= h.end
          BY <1>1, <1>2, <4>1
        <5>2. \E y \in w.mm.areas : y.start = h.start /\ y.end = c.end /\ y.flags = h.flags
          BY <1>1, <3>2, <3>5, <5>1, SplitEnd
        <5> QED  BY <4>1, <5>2
      <4> DEFINE wm == w.mm
                 z  == [wm EXCEPT !.data_vm = dvm]
                 q  == SetFlags(z, c.start, c.end, c.flags)
                 over == Over(y.start, y.end, c.flags, y.file, y.pgoff, y.anon)
      <4>3. /\ Kept(wm, 0, 0) /\ dvm = wm.data_vm + data /\ Good(wm) /\ MapOf(wm) = MapOf(m)
            /\ y \in wm.areas /\ Areas(wm.areas)
        BY <1>4, <3>2, <3>3, <4>2 DEF Kept
      <4>5. o = Succeeds(q)
        BY <1>7, <3>1, <3>5
      <4> HIDE DEF wm, dvm
      <4>4. Kept(z, 0, 0 - data) /\ z.areas = wm.areas /\ z.anon_page = wm.anon_page
        BY <1>4, <4>3, DataKeeps
      <4> HIDE DEF z
      <4>6. y \in z.areas /\ data = DataOf(c.flags, y.end - y.start) - DataOf(y.flags, y.end - y.start)
        BY <4>2, <4>3, <4>4 DEF data
      <4>7. Kept(q, 0, 0) /\ Lays(z, q, over)
        BY <1>1, <1>4, <4>2, <4>4, <4>6, SetFlagsKeeps
      <4> HIDE DEF q, over
      <4>8. Lays(wm, q, over) /\ Areas(q.areas)
        BY <4>4, <4>7 DEF Lays, Kept
      <4>9. /\ With(MapOf(wm), over) = Protected(MapOf(m), c.start, c.end, c.flags)
            /\ over.start \in Nat /\ over.pgoff \in Nat
        <5>1. over = Over(c.start, c.end, c.flags, y.file, y.pgoff + (c.start - y.start), y.anon)
          <6>1. y.pgoff + (c.start - y.start) = y.pgoff
            BY <1>1, <4>2, <4>3, AreaFields DEF Areas
          <6> QED  BY <4>2, <6>1 DEF over
        <5>2. y.pgoff >= 0 /\ y.start <= c.start /\ c.end <= y.end
          BY <1>1, <4>2, <4>3 DEF Good, Found
        <5> QED  BY <1>1, <4>3, <5>1, <5>2, LaidOverItself
      <4>10. Found(q) /\ MapOf(q) = With(MapOf(wm), over)
        BY <4>3, <4>8, <4>9, LaysFound, LaysMap DEF Good
      <4> QED  BY <4>5, <4>7, <4>9, <4>10, Outcomes DEF Protects, Good
    <3> QED  BY <3>4, <3>5
  <2> QED  BY <2>2, <2>3
<1> QED  BY <1>5, <1>8, <1>9

-----------------------------------------------------------------------------
(* The inductive invariant: what is counted is there, what was written can  *)
(* be found, and the call that holds the mmap_lock still finds what it was  *)
(* checked against.                                                         *)

Asked(m, c) ==
  /\ c.op = "mmap" => MmapOK(c)
  /\ c.op \in {"munmap", "brk", "special"} => Span(c.start, c.end)
  /\ c.op = "brk" => c.flags = "rw" /\ c.file = NoFile /\ c.pgoff = c.start
  /\ c.op = "special" => c.flags \in Flags /\ c.file = Special /\ c.pgoff = 0
  /\ c.op = "mremap" => MremapOK(m, c)
  /\ c.op = "move" => MoveOK(m, c)
  /\ c.op = "mprotect" => ModifyOK(m, c)
  /\ c.op = "exit" => c.start = 0 /\ c.end = NPages

CallOK(m, c) ==
  \/ \E op \in {"none", "ok", "failed"} : c = [NoCall EXCEPT !.op = op]
  \/ c \in Calls /\ Asked(m, c)

Inv == Good(mm) /\ CallOK(mm, call)

(* The call that takes effect is one that was asked for, ...                *)
LEMMA EffectTakes ==
  ASSUME Inv, NEW op, op \notin {"none", "ok", "failed"}, NEW outcomes, Effect(op, outcomes)
  PROVE  /\ call \in Calls /\ Asked(mm, call) /\ call.op = op
         /\ \E o \in outcomes : mm' = o.mm /\ call' = [NoCall EXCEPT !.op = o.ends]
<1>1. call.op = op
  BY DEF Effect
<1>2. \A end : [NoCall EXCEPT !.op = end].op = end
  BY DEF NoCall
<1>3. call \in Calls /\ Asked(mm, call)
  BY <1>1, <1>2 DEF Inv, CallOK
<1> QED  BY <1>1, <1>3 DEF Effect

(* ... and it ends in no assertion.                                         *)
LEMMA Ended ==
  ASSUME NEW o, mm' = o.mm, call' = [NoCall EXCEPT !.op = o.ends], Good(o.mm),
         o.ends \in {"ok", "failed"}
  PROVE  Inv'
BY DEF Inv, CallOK

-----------------------------------------------------------------------------
(* The steps of the map from pages to what they are mapped to               *)

LEMMA MapsAre ==
  /\ [p \in Page |-> Content(p)] = MapOf(mm)
  /\ [p \in Page |-> Content(p)]' = MapOf(mm')
<1>1. [p \in Page |-> Content(p)] = MapOf(mm)
  BY DEF Content, ContentIn, MapOf
<1>2. [p \in Page |-> Content(p)]' = MapOf(mm')
  BY DEF Content, ContentIn, MapOf
<1> QED  BY <1>1, <1>2

LEMMA CoveredIs ==
  ASSUME call \in Calls, NEW p \in Page
  PROVE  /\ p \in Abstract!Covered <=> call.start <= p /\ p < call.end
         /\ p \in Nat /\ call.start \in Nat /\ call.end \in Nat /\ call.pgoff \in Nat
<1>1. p \in Nat /\ call.start \in Nat /\ call.end \in Nat /\ call.pgoff \in Nat
  BY SpaceAssumption, PagesAreNumbers DEF Calls
<1> QED  BY <1>1 DEF Abstract!Covered

LEMMA PagesAreThose == Abstract!Page = Page
BY DEF Abstract!Page, Page

LEMMA EmptiedIs ==
  ASSUME call \in Calls
  PROVE  Abstract!Emptied = Without(MapOf(mm), call.start, call.end)
<1> DEFINE M == MapOf(mm)
<1>1. Abstract!Emptied = [p \in Page |-> IF p \in Abstract!Covered THEN Unmapped ELSE M[p]]
  BY MapsAre, PagesAreThose DEF Abstract!Emptied
<1> HIDE DEF M
<1>2. Abstract!Emptied = Without(M, call.start, call.end)
  BY <1>1, CoveredIs DEF Without
<1> QED  BY <1>2 DEF M

LEMMA MapStep ==
  ASSUME call \in Calls, call.op \in {"mmap", "brk", "mremap", "special"},
         call' = [NoCall EXCEPT !.op = "ok"], NEW anon,
         MapOf(mm') = With(MapOf(mm), Over(call.start, call.end, call.flags, call.file, call.pgoff, anon))
  PROVE  Abstract!Next
<1> DEFINE x == Over(call.start, call.end, call.flags, call.file, call.pgoff, anon)
           M == MapOf(mm)
<1>1. /\ x.start = call.start /\ x.end = call.end /\ x.flags = call.flags /\ x.file = call.file
      /\ x.pgoff = call.pgoff
  BY OverFields
<1>2. MapOf(mm') = With(M, x)
  OBVIOUS
<1> HIDE DEF x, M
<1>3. With(M, x) = [p \in Page |-> IF p \in Abstract!Covered THEN Abstract!Content(p) ELSE M[p]]
  <2>1. \A p \in Page : Holds(x, p) <=> p \in Abstract!Covered
    BY <1>1, CoveredIs DEF Holds
  <2> QED  BY <1>1, <2>1 DEF With, Abstract!Content
<1>4. [p \in Page |-> Content(p)]' =
        [p \in Abstract!Page |-> IF p \in Abstract!Covered THEN Abstract!Content(p)
                                 ELSE [q \in Page |-> Content(q)][p]]
  BY <1>2, <1>3, MapsAre, PagesAreThose DEF M
<1>5. Abstract!Map
  BY <1>4 DEF Abstract!Map, Abstract!Maps, Abstract!Answer
<1> QED  BY <1>5 DEF Abstract!Next

LEMMA EmptyStep ==
  ASSUME call \in Calls, MapOf(mm') = Without(MapOf(mm), call.start, call.end), NEW end,
         call' = [NoCall EXCEPT !.op = end],
         \/ call.op \in {"mmap", "brk"} /\ end = "failed"
         \/ call.op \in {"munmap", "exit"} /\ end = "ok"
  PROVE  Abstract!Next
<1>1. [p \in Page |-> Content(p)]' = Abstract!Emptied
  BY MapsAre, EmptiedIs
<1>2. Abstract!MapFails \/ Abstract!Unmap
  BY <1>1 DEF Abstract!MapFails, Abstract!Unmap, Abstract!Answer
<1> QED  BY <1>2 DEF Abstract!Next

LEMMA FailStep ==
  ASSUME call \in Calls, call.op # "exit", NEW o, FailsIdly(mm, o), mm' = o.mm,
         call' = [NoCall EXCEPT !.op = o.ends]
  PROVE  Abstract!Next
<1>1. [p \in Page |-> Content(p)]' = [p \in Page |-> Content(p)]
  BY MapsAre DEF FailsIdly
<1>2. Abstract!Fail
  BY <1>1 DEF Abstract!Fail, Abstract!Answer, FailsIdly
<1> QED  BY <1>2 DEF Abstract!Next

LEMMA ProtectStep ==
  ASSUME call \in Calls, call.op = "mprotect", call' = [NoCall EXCEPT !.op = "ok"],
         MapOf(mm') = Protected(MapOf(mm), call.start, call.end, call.flags)
  PROVE  Abstract!Next
<1> DEFINE M == MapOf(mm)
<1>1. MapOf(mm') = Protected(M, call.start, call.end, call.flags)
  OBVIOUS
<1> HIDE DEF M
<1>2. Protected(M, call.start, call.end, call.flags) =
        [p \in Page |-> IF p \in Abstract!Covered THEN [M[p] EXCEPT !.flags = call.flags] ELSE M[p]]
  BY CoveredIs DEF Protected
<1>3. Abstract!Protect
  BY <1>1, <1>2, MapsAre, PagesAreThose DEF Abstract!Protect, Abstract!Answer, M
<1> QED  BY <1>3 DEF Abstract!Next

LEMMA MoveStep ==
  ASSUME call \in Calls, call.op = "move", call' = [NoCall EXCEPT !.op = "ok"],
         NEW old \in {MapOf(mm), Without(MapOf(mm), call.start, call.end)},
         NEW fresh \in IF call.file = NoFile THEN BOOLEAN ELSE {FALSE},
         MapOf(mm') = MapMoved(MapOf(mm), old, call, fresh)
  PROVE  Abstract!Next
<1> DEFINE M == MapOf(mm)
           length == call.end - call.start
           target == call.to..(call.to + length - 1)
           From(p) == M[call.start + (p - call.to)]
<1>1. MapOf(mm') = MapMoved(M, old, call, fresh) /\ old \in {M, Abstract!Emptied}
  BY EmptiedIs
<1>2. \A p \in Page : p \in target <=> call.to <= p /\ p < call.to + (call.end - call.start)
  BY CoveredIs, SpaceAssumption DEF Calls, Page
<1> HIDE DEF M, target
<1>3. MapMoved(M, old, call, fresh) =
        [p \in Page |-> CASE p \in target /\ ~fresh -> From(p)
                          [] p \in target /\ fresh  -> [From(p) EXCEPT !.off = p]
                          [] OTHER                  -> old[p]]
  BY <1>2 DEF MapMoved
<1> HIDE DEF From
<1>4. M = [p \in Page |-> Content(p)]
  BY MapsAre DEF M
<1>5. [p \in Page |-> Content(p)]' =
        [p \in Page |-> CASE p \in target /\ ~fresh -> From(p)
                          [] p \in target /\ fresh  -> [From(p) EXCEPT !.off = p]
                          [] OTHER                  -> old[p]]
  BY <1>1, <1>3, MapsAre
<1>6. old \in {[p \in Page |-> Content(p)], Abstract!Emptied}
  BY <1>1, <1>4
<1>7. Abstract!Move
  BY <1>4, <1>5, <1>6, PagesAreThose, Zenon DEF Abstract!Move, Abstract!Answer, target, From
<1> QED  BY <1>7 DEF Abstract!Next

-----------------------------------------------------------------------------
(* Every step keeps the invariant, and is one of the map or changes nothing *)
(* of it.                                                                   *)

Acts == Inv' /\ (Abstract!Next \/ UNCHANGED <<[p \in Page |-> Content(p)], call>>)

LEMMA FaultIs ==
  ASSUME Good(mm), NEW p \in Page, Fault(p)
  PROVE  Good(mm') /\ MapOf(mm') = MapOf(mm)
<1> DEFINE S      == mm.areas
           v      == The(vma_lookup(S, p))
           shared == find_mergeable_anon_vma(S, v)
           unused == Anons \ {u.anon : u \in S}
           Choice == CASE v.anon # NoAnon                  -> {v.anon}
                       [] v.anon = NoAnon /\ shared # {} -> shared
                       [] v.anon = NoAnon /\ shared = {} ->
                            {x \in unused : \A y \in unused : x <= y}
<1>1. PICK a \in Choice :
        mm' = [mm EXCEPT !.areas = (@ \ {v}) \cup {[v EXCEPT !.anon = a]},
                         !.anon_page[p] = [anon |-> a, index |-> v.pgoff + p - v.start]]
  BY Zenon DEF Fault
<1>2. vma_lookup(S, p) # {}
  BY Zenon DEF Fault
<1>3. Areas(S) /\ Space(mm) /\ Kept(mm, 0, 0) /\ Found(mm)
  BY DEF Good, Kept
<1>4. v \in S /\ v \in Area /\ v.start < v.end /\ v.anon \in Nat
  <2>1. v \in S
    BY <1>2, TheOne DEF vma_lookup
  <2>2. v \in Area
    BY <1>3, <2>1 DEF Areas
  <2> HIDE DEF v
  <2> QED  BY <1>3, <2>1, <2>2, SingleArea, AreaFields
<1>5. \A x \in shared : x \in Nat /\ x # NoAnon
  <2> HIDE DEF v, S
  <2>1. ASSUME NEW x \in shared
        PROVE  x # NoAnon /\ \E old \in S : \E y, z : x = reusable_anon_vma(old, y, z)
    BY Zenon DEF find_mergeable_anon_vma, vma_lookup, vma_prev
  <2>2. \A old \in S : \A y, z : reusable_anon_vma(old, y, z) \in Nat
    BY <1>3, AreaFields DEF reusable_anon_vma, Areas, NoAnon
  <2> QED  BY <2>1, <2>2
<1>6. \A x \in unused : x \in Nat /\ x # NoAnon
  BY SpaceAssumption DEF Anons, NoAnon
<1>7. a \in Nat /\ a # NoAnon /\ (v.anon # NoAnon => a = v.anon)
  <2>1. a \in Choice
    OBVIOUS
  <2> HIDE DEF v, shared, unused
  <2> QED  BY <1>4, <1>5, <1>6, <2>1
<1> DEFINE b == [v EXCEPT !.anon = a]
           T == (S \ {v}) \cup {b}
           pages == [mm.anon_page EXCEPT ![p] = [anon |-> a, index |-> v.pgoff + p - v.start]]
           w == [mm EXCEPT !.areas = T, !.anon_page = pages]
<1>8. mm' = w
  BY <1>1, Zenon
<1> HIDE DEF v, Choice
<1>9. /\ b \in Area /\ b.start = v.start /\ b.end = v.end /\ b.flags = v.flags /\ b.file = v.file
      /\ b.pgoff = v.pgoff /\ b.anon = a
  BY <1>4, <1>7, OtherAnon
<1>10. Becomes(S, T, 0, 0, 0, NoFile)
  <2> HIDE DEF b
  <2>1. b.start < b.end /\ Clear(b, S \ {v})
    BY <1>3, <1>4, <1>9, SingleArea DEF Clear, Areas, Apart
  <2> DEFINE pg == (b.end - b.start) - (v.end - v.start)
             da == DataOf(b.flags, b.end - b.start) - DataOf(v.flags, v.end - v.start)
  <2> HIDE DEF S
  <2>2. Becomes(S, (S \ {v}) \cup {b}, 0, pg, da, NoFile)
    BY <1>3, <1>4, <1>9, <2>1, Altered
  <2>3. v.end - v.start \in Int
    BY <1>4, AreaFields
  <2>4. pg = 0 /\ da = 0
    BY <1>9, <2>3, DataDiffer DEF DataOf
  <2> HIDE DEF pg, da
  <2> QED  BY <2>2, <2>4
<1>11. Overlaid(S, T, Nowhere) /\ Areas(T)
  <2>1. Like(b, v)
    BY <1>7, <1>9 DEF Like
  <2> HIDE DEF b, S
  <2> QED  BY <1>3, <1>4, <1>9, <1>10, <2>1, OverNothing DEF Becomes
<1>12. \A q \in Page : ContentIn(T, q) = ContentIn(S, q)
  <2> HIDE DEF T, S
  <2> QED  BY <1>3, <1>11, LaysContent, NowhereFields, PagesAreNumbers
<1>13. p \in Nat /\ Holds(v, p)
  <2>1. v \in vma_lookup(S, p)
    BY <1>2, TheOne DEF v
  <2> HIDE DEF S
  <2> QED  BY <2>1, PagesAreNumbers DEF vma_lookup, Holds
<1>14. pages = [q \in Page |-> pages[q]] /\ FoundIn(T, pages) /\ \A u \in T : u.pgoff >= 0
  <2>1. mm.anon_page = [q \in Page |-> mm.anon_page[q]] /\ FoundIn(S, mm.anon_page)
        /\ \A u \in S : u.pgoff >= 0
    BY <1>3 DEF Found
  <2>2. /\ pages = [q \in Page |-> pages[q]]
        /\ pages[p] = [anon |-> a, index |-> v.pgoff + p - v.start]
        /\ \A q \in Page : q # p => pages[q] = mm.anon_page[q]
    BY <2>1
  <2>3. ASSUME NEW q \in Page, pages[q] # NoPage
        PROVE  /\ pages[q].anon # NoAnon
               /\ \E u \in T : Holds(u, q) /\ pages[q] = [anon |-> u.anon, index |-> u.pgoff + q - u.start]
    <3> HIDE DEF S, pages, b
    <3>1. CASE q = p
      <4>1. b \in T /\ Holds(b, p)
        BY <1>9, <1>13 DEF Holds
      <4> QED  BY <1>7, <1>9, <2>2, <3>1, <4>1
    <3>2. CASE q # p
      <4>1. pages[q] = mm.anon_page[q] /\ pages[q].anon # NoAnon
        BY <2>1, <2>2, <2>3, <3>2 DEF FoundIn
      <4>2. PICK u \in S : /\ Holds(u, q)
                           /\ pages[q] = [anon |-> u.anon, index |-> u.pgoff + q - u.start]
        BY <2>1, <2>3, <4>1 DEF FoundIn
      <4>3. CASE u # v
        BY <4>1, <4>2, <4>3
      <4>4. CASE u = v
        <5>1. b.anon = u.anon
          BY <1>7, <1>9, <4>1, <4>2, <4>4
        <5>2. b \in T /\ Holds(b, q)
          BY <1>9, <4>2, <4>4 DEF Holds
        <5> QED  BY <1>9, <4>1, <4>2, <4>4, <5>1, <5>2
      <4> QED  BY <4>3, <4>4
    <3> QED  BY <3>1, <3>2
  <2>4. \A u \in T : u.pgoff >= 0
    BY <1>4, <1>9, <2>1
  <2> QED  BY <2>2, <2>3, <2>4 DEF FoundIn
<1> HIDE DEF T, pages
<1> DEFINE m == mm
<1>15. w = [m EXCEPT !.areas = T, !.anon_page = pages] /\ Space(m)
  BY <1>3
<1> HIDE DEF m, w
<1>16. /\ Space(w) /\ w.areas = T /\ w.map_count = m.map_count /\ w.users = m.users
       /\ w.total_vm = m.total_vm /\ w.data_vm = m.data_vm
  BY ONLY <1>15 DEF Space
<1>17. /\ Space(w) /\ w.areas = T /\ w.map_count = mm.map_count /\ w.users = mm.users
       /\ w.total_vm = mm.total_vm /\ w.data_vm = mm.data_vm
  BY <1>16 DEF m
<1>18. Counted(mm, w, 0, 0, 0, NoFile)
  <2>1. mm.map_count \in Int
    BY <1>3, SumsOfAreas DEF Kept
  <2> QED  BY <1>10, <1>17, <2>1, FilesDiffer DEF Counted, Used
<1>19. Kept(w, 0 + 0, 0 + 0) /\ 0 + 0 = 0
  BY <1>3, <1>18, KeptBy
<1>20. w.anon_page = pages
  BY <1>15 DEF Space
<1>21. MapOf(w) = MapOf(mm)
  BY <1>17, <1>12 DEF MapOf
<1>22. Found(w)
  BY <1>17, <1>14, <1>20 DEF Found
<1> QED  BY <1>8, <1>19, <1>21, <1>22 DEF Good


LEMMA TakeIs ==
  ASSUME Inv, NEW c \in Calls, Take(c), Asked(mm, c)
  PROVE  Acts
<1>1. [p \in Page |-> Content(p)]' = [p \in Page |-> Content(p)]
  BY MapsAre DEF Take
<1>2. Abstract!Invoke
  BY <1>1 DEF Take, Abstract!Invoke
<1>3. Inv'
  BY DEF Inv, Take, CallOK
<1> QED  BY <1>2, <1>3 DEF Acts, Abstract!Next

LEMMA RequestIs ==
  ASSUME Inv, NEW op, NEW start, NEW end, NEW flags, NEW file, NEW pgoff,
         Request(op, start, end, flags, file, pgoff), start \in Page, end \in 1..NPages, start < end,
         op \in {"mmap", "munmap", "brk", "mprotect", "mremap", "special"},
         flags \in Flags, file \in Mapped, pgoff \in 0..MaxOffset,
         op = "brk" => flags = "rw" /\ file = NoFile /\ pgoff = start,
         op = "special" => file = Special /\ pgoff = 0,
         op = "mremap" => /\ Intersecting(mm.areas, start, end) = {}
                          /\ \E v \in mm.areas : v.end = start /\ v.flags = flags /\ v.file = file,
         op = "mprotect" => /\ flags \in {"r", "rw"}
                            /\ \E v \in mm.areas : /\ v.start <= start /\ end <= v.end
                                                   /\ v.flags \in {"r", "rw"} \ {flags}
  PROVE  Acts
<1> DEFINE c == [op |-> op, start |-> start, end |-> end, to |-> 0, flags |-> flags, file |-> file,
                 pgoff |-> pgoff]
<1>1. Take(c)
  BY DEF Request
<1>2. /\ c.op = op /\ c.start = start /\ c.end = end /\ c.flags = flags /\ c.file = file
      /\ c.pgoff = pgoff
  OBVIOUS
<1>3. Span(start, end) /\ pgoff \in Nat
  BY SpaceAssumption DEF Span, Page
<1>4. c \in Calls
  <2>1. start \in 0..NPages /\ end \in 0..NPages /\ 0 \in Page
    BY SpaceAssumption DEF Page
  <2> QED  BY <2>1 DEF Calls, Flags
<1> HIDE DEF c
<1>5. Asked(mm, c)
  <2>1. CASE op = "mmap"
    BY <1>2, <1>3, <2>1 DEF Asked, MmapOK
  <2>2. CASE op \in {"munmap", "brk", "special"}
    BY <1>2, <1>3, <2>2 DEF Asked
  <2>3. CASE op = "mremap"
    BY <1>2, <1>3, <2>3 DEF Asked, MremapOK, Free
  <2>4. CASE op = "mprotect"
    BY <1>2, <1>3, <2>4 DEF Asked, ModifyOK
  <2> QED  BY <2>1, <2>2, <2>3, <2>4
<1> QED  BY <1>1, <1>4, <1>5, TakeIs

LEMMA CallsAre ==
  ASSUME Inv, NEW start \in Page, NEW end \in 1..NPages, start < end,
         \/ CallMmap(start, end) \/ CallMunmap(start, end) \/ CallBrk(start, end)
         \/ CallMprotect(start, end) \/ CallMremap(start, end) \/ CallMove(start, end)
         \/ CallRemapFilePages(start, end) \/ CallSpecial(start, end)
  PROVE  Acts
<1>1. /\ Areas(mm.areas) /\ \A v \in mm.areas : v \in Area /\ v.pgoff >= 0
  BY DEF Inv, Good, Kept, Found, Areas
<1>2. /\ start \in 0..MaxOffset /\ Offsets \subseteq 0..MaxOffset /\ 0 \in 0..MaxOffset
      /\ \A k \in Kinds : k.flags \in Flags /\ k.file \in Mapped
      /\ "r" \in Flags /\ "rw" \in Flags /\ NoFile \in Mapped /\ Special \in Mapped
  BY SpaceAssumption DEF Page, Flags, Mapped
<1>3. CASE CallMmap(start, end)
  <2>1. PICK k \in Kinds, off \in Offsets \cup {start} :
          Request("mmap", start, end, k.flags, k.file, off)
    BY <1>3 DEF CallMmap
  <2>2. k.flags \in Flags /\ k.file \in Mapped /\ off \in 0..MaxOffset
    BY <1>2
  <2> QED  BY <2>1, <2>2, RequestIs
<1>4. CASE CallMunmap(start, end)
  BY <1>2, <1>4, RequestIs DEF CallMunmap
<1>5. CASE CallBrk(start, end)
  BY <1>2, <1>5, RequestIs DEF CallBrk
<1>6. CASE CallMprotect(start, end)
  <2>1. PICK v \in mm.areas, flags \in {"r", "rw"} :
          /\ v.start <= start /\ end <= v.end /\ v.flags \in {"r", "rw"} \ {flags}
          /\ Request("mprotect", start, end, flags, NoFile, 0)
    BY <1>6 DEF CallMprotect
  <2> QED  BY <1>2, <2>1, RequestIs
<1>7. CASE CallMremap(start, end)
  <2>1. PICK v \in mm.areas :
          /\ v.end = start /\ Intersecting(mm.areas, start, end) = {}
          /\ v.pgoff + (end - v.start) <= MaxOffset
          /\ Request("mremap", start, end, v.flags, v.file, v.pgoff + vma_pages(v))
    BY <1>7 DEF CallMremap
  <2>2. v.flags \in Flags /\ v.file \in Mapped /\ v.pgoff + vma_pages(v) \in 0..MaxOffset
    <3>1. /\ v.start \in Nat /\ v.end \in Nat /\ v.start < v.end /\ v.pgoff \in Nat
          /\ v.flags \in Flags /\ v.file \in Mapped
      BY <1>1, SingleArea, AreaFields
    <3> QED  BY <2>1, <3>1, SpaceAssumption DEF vma_pages
  <2> QED  BY <2>1, <2>2, RequestIs
<1>8. CASE CallMove(start, end)
  <2>1. PICK v \in mm.areas, to \in Page :
          /\ v.start <= start /\ end <= v.end
          /\ Intersecting(mm.areas, to, to + (end - start)) = {}
          /\ Take([NoCall EXCEPT !.op = "move", !.start = start, !.end = end, !.to = to,
                                 !.flags = v.flags, !.file = v.file])
    BY <1>8, Zenon DEF CallMove
  <2> DEFINE c == [NoCall EXCEPT !.op = "move", !.start = start, !.end = end, !.to = to,
                                 !.flags = v.flags, !.file = v.file]
  <2>2. c.op = "move" /\ c.start = start /\ c.end = end /\ c.to = to /\ c.file = v.file
    BY DEF NoCall
  <2>3. c \in Calls
    <3>1. start \in 0..NPages /\ end \in 0..NPages /\ v.flags \in Flags /\ v.file \in Mapped
      BY <1>1, AreaFields, SpaceAssumption DEF Page
    <3> QED  BY <1>2, <3>1 DEF Calls, NoCall, Flags
  <2> HIDE DEF c
  <2>4. /\ Span(start, end) /\ Span(to, to + (end - start)) /\ end <= NPages
    BY SpaceAssumption DEF Span, Page
  <2>5. MoveOK(mm, c)
    BY <2>1, <2>2, <2>4 DEF MoveOK, Free
  <2>6. Asked(mm, c)
    BY <2>2, <2>5 DEF Asked
  <2> QED  BY <2>1, <2>3, <2>6, TakeIs DEF c
<1>9. CASE CallRemapFilePages(start, end)
  <2>1. PICK v \in vma_lookup(mm.areas, start), off \in Offsets :
          Request("mmap", start, end, v.flags, v.file, off)
    BY <1>9 DEF CallRemapFilePages
  <2>2. v.flags \in Flags /\ v.file \in Mapped /\ off \in 0..MaxOffset
    BY <1>1, <1>2, AreaFields DEF vma_lookup
  <2> QED  BY <2>1, <2>2, RequestIs
<1>10. CASE CallSpecial(start, end)
  BY <1>2, <1>10, RequestIs DEF CallSpecial
<1> QED  BY <1>3, <1>4, <1>5, <1>6, <1>7, <1>8, <1>9, <1>10

LEMMA OverIs ==
  ASSUME call \in Calls, call.op \in {"mmap", "brk"}, NEW o, mm' = o.mm,
         call' = [NoCall EXCEPT !.op = o.ends],
         MapsOver(mm, Over(call.start, call.end, call.flags, call.file, call.pgoff, NoAnon), o)
  PROVE  Acts
<1> DEFINE x == Over(call.start, call.end, call.flags, call.file, call.pgoff, NoAnon)
<1>1. MapsOver(mm, x, o) /\ x.start = call.start /\ x.end = call.end
  BY OverFields
<1> HIDE DEF x
<1>2. Inv'
  BY <1>1, Ended DEF MapsOver, FailsIdly, Maps
<1>3. CASE FailsIdly(mm, o)
  BY <1>2, <1>3, FailStep DEF Acts
<1>4. CASE Maps(mm, x, o)
  BY <1>2, <1>4, MapStep DEF Acts, Maps, x
<1>5. CASE o.ends = "failed" /\ MapOf(o.mm) = Without(MapOf(mm), x.start, x.end)
  BY <1>1, <1>2, <1>5, EmptyStep DEF Acts
<1> QED  BY <1>1, <1>3, <1>4, <1>5 DEF MapsOver

LEMMA EffectsAre ==
  ASSUME Inv, Mmap \/ Munmap \/ Brk \/ Mprotect \/ Mremap \/ Move \/ Install \/ Exit
  PROVE  Acts
<1>1. Good(mm)
  BY DEF Inv
<1>2. CASE Mmap
  <2>1. PICK o \in mmap_region(mm, call) :
          /\ mm' = o.mm /\ call' = [NoCall EXCEPT !.op = o.ends]
          /\ call \in Calls /\ MmapOK(call) /\ call.op = "mmap"
    BY <1>2, EffectTakes DEF Mmap, Asked
  <2> DEFINE x == Over(call.start, call.end, call.flags, call.file, call.pgoff, NoAnon)
  <2>2. MapsOver(mm, x, o) /\ x.start = call.start /\ x.end = call.end
    BY <1>1, <2>1, MmapIs, OverFields
  <2> QED  BY <2>1, <2>2, OverIs DEF x
<1>3. CASE Munmap
  <2>1. PICK o \in do_vmi_munmap(mm, call.start, call.end) :
          /\ mm' = o.mm /\ call' = [NoCall EXCEPT !.op = o.ends]
          /\ call \in Calls /\ Span(call.start, call.end) /\ call.op = "munmap"
    BY <1>3, EffectTakes DEF Munmap, Asked
  <2>2. Unmaps(mm, call.start, call.end, o)
    BY <1>1, <2>1, MunmapIs
  <2>3. Inv'
    BY <2>1, <2>2, Ended DEF Unmaps
  <2>4. CASE o.ends = "ok"
    BY <2>1, <2>2, <2>3, <2>4, EmptyStep DEF Acts, Unmaps
  <2>5. CASE o.ends = "failed"
    BY <2>1, <2>2, <2>3, <2>5, FailStep DEF Acts, Unmaps, FailsIdly
  <2> QED  BY <2>2, <2>4, <2>5 DEF Unmaps
<1>4. CASE Brk
  <2>1. PICK o \in vm_brk_flags(mm, call) :
          /\ mm' = o.mm /\ call' = [NoCall EXCEPT !.op = o.ends]
          /\ call \in Calls /\ Span(call.start, call.end) /\ call.op = "brk"
          /\ call.flags = "rw" /\ call.file = NoFile /\ call.pgoff = call.start
    BY <1>4, EffectTakes DEF Brk, Asked
  <2>2. MapsOver(mm, Over(call.start, call.end, call.flags, call.file, call.pgoff, NoAnon), o)
    BY <1>1, <2>1, BrkIs
  <2> QED  BY <2>1, <2>2, OverIs
<1>5. CASE Mprotect
  <2>1. PICK o \in vma_modify(mm, call) :
          /\ mm' = o.mm /\ call' = [NoCall EXCEPT !.op = o.ends]
          /\ call \in Calls /\ ModifyOK(mm, call) /\ call.op = "mprotect"
    BY <1>5, EffectTakes DEF Mprotect, Asked
  <2>2. FailsIdly(mm, o) \/ Protects(mm, call, o)
    BY <1>1, <2>1, ModifyIs
  <2>3. Inv'
    BY <2>1, <2>2, Ended DEF FailsIdly, Protects
  <2> QED  BY <2>1, <2>2, <2>3, FailStep, ProtectStep DEF Acts, Protects
<1>6. CASE Mremap
  <2>1. PICK o \in vma_merge_extend(mm, call) :
          /\ mm' = o.mm /\ call' = [NoCall EXCEPT !.op = o.ends]
          /\ call \in Calls /\ MremapOK(mm, call) /\ call.op = "mremap"
    BY <1>6, EffectTakes DEF Mremap, Asked
  <2>2. PICK anon :
          \/ FailsIdly(mm, o)
          \/ Maps(mm, Over(call.start, call.end, call.flags, call.file, call.pgoff, anon), o)
    BY <1>1, <2>1, MremapIs
  <2>3. Inv'
    BY <2>1, <2>2, Ended DEF FailsIdly, Maps
  <2> QED  BY <2>1, <2>2, <2>3, FailStep, MapStep DEF Acts, Maps
<1>7. CASE Move
  <2>1. PICK o \in move_vma(mm, call) :
          /\ mm' = o.mm /\ call' = [NoCall EXCEPT !.op = o.ends]
          /\ call \in Calls /\ MoveOK(mm, call) /\ call.op = "move"
    BY <1>7, EffectTakes DEF Move, Asked
  <2>2. FailsIdly(mm, o) \/ Moves(mm, call, o)
    BY <1>1, <2>1, MoveIs
  <2>3. Inv'
    BY <2>1, <2>2, Ended DEF FailsIdly, Moves
  <2> QED  BY <2>1, <2>2, <2>3, FailStep, MoveStep DEF Acts, Moves
<1>8. CASE Install
  <2>1. PICK o \in install_special_mapping(mm, call) :
          /\ mm' = o.mm /\ call' = [NoCall EXCEPT !.op = o.ends]
          /\ call \in Calls /\ Span(call.start, call.end) /\ call.op = "special"
          /\ call.flags \in Flags /\ call.file = Special /\ call.pgoff = 0
    BY <1>8, EffectTakes DEF Install, Asked
  <2>2. \/ FailsIdly(mm, o)
        \/ Maps(mm, Over(call.start, call.end, call.flags, call.file, call.pgoff, NoAnon), o)
    BY <1>1, <2>1, InstallIs
  <2>3. Inv'
    BY <2>1, <2>2, Ended DEF FailsIdly, Maps
  <2> QED  BY <2>1, <2>2, <2>3, FailStep, MapStep DEF Acts, Maps
<1>9. CASE Exit
  <2>1. PICK o \in exit_mmap(mm) :
          /\ mm' = o.mm /\ call' = [NoCall EXCEPT !.op = o.ends]
          /\ call \in Calls /\ call.start = 0 /\ call.end = NPages /\ call.op = "exit"
    BY <1>9, EffectTakes DEF Exit, Asked
  <2>2. o.ends = "ok" /\ Good(o.mm) /\ MapOf(o.mm) = Without(MapOf(mm), 0, NPages)
    BY <1>1, <2>1, ExitIs
  <2>3. Inv'
    BY <2>1, <2>2, Ended
  <2> QED  BY <2>1, <2>2, <2>3, EmptyStep DEF Acts
<1> QED  BY <1>2, <1>3, <1>4, <1>5, <1>6, <1>7, <1>8, <1>9

LEMMA NextIs == Inv /\ [Next]_vars => Acts
<1> SUFFICES ASSUME Inv, [Next]_vars  PROVE Acts
  OBVIOUS
<1> DEFINE map == [p \in Page |-> Content(p)]
<1>1. ASSUME UNCHANGED <<mm, call>>  PROVE Acts
  <2>1. map' = map
    BY <1>1, MapsAre
  <2>2. Inv'
    BY <1>1 DEF Inv
  <2> QED  BY <1>1, <2>1, <2>2 DEF Acts
<1>2. CASE UNCHANGED vars
  BY <1>1, <1>2 DEF vars
<1>3. ASSUME NEW start \in Page, NEW end \in 1..NPages, start < end,
             \/ CallMmap(start, end) \/ CallMunmap(start, end) \/ CallBrk(start, end)
             \/ CallMprotect(start, end) \/ CallMremap(start, end) \/ CallMove(start, end)
             \/ CallRemapFilePages(start, end) \/ CallSpecial(start, end)
      PROVE  Acts
  BY <1>3, CallsAre
<1>4. CASE CallExit
  <2> DEFINE c == [op |-> "exit", start |-> 0, end |-> NPages, to |-> 0, flags |-> "r",
                   file |-> NoFile, pgoff |-> 0]
  <2>1. Take(c)
    BY <1>4 DEF CallExit, Request
  <2>2. c \in Calls /\ Asked(mm, c)
    BY FilesDiffer, SpaceAssumption DEF Calls, Asked, Page
  <2> QED  BY <2>1, <2>2, TakeIs
<1>5. CASE Mmap \/ Munmap \/ Brk \/ Mprotect \/ Mremap \/ Move \/ Install \/ Exit
  BY <1>5, EffectsAre
<1>6. CASE Return
  <2>1. map' = map /\ mm' = mm
    BY <1>6, MapsAre DEF Return
  <2>2. Abstract!Return
    BY <1>6, <2>1 DEF Return, Abstract!Return
  <2>3. NoCall = [NoCall EXCEPT !.op = "none"]
    BY DEF NoCall
  <2>4. Inv'
    BY <1>6, <2>1, <2>3 DEF Inv, CallOK, Return
  <2> QED  BY <2>2, <2>4 DEF Acts, Abstract!Next
<1>7. CASE Sysctl
  BY <1>1, <1>7 DEF Sysctl
<1>8. ASSUME NEW p \in Page, Fault(p)  PROVE Acts
  <2>1. call' = call /\ call = NoCall
    BY <1>8, Zenon DEF Fault
  <2>2. Good(mm') /\ MapOf(mm') = MapOf(mm)
    BY <1>8, FaultIs DEF Inv
  <2>3. map' = map
    BY <2>2, MapsAre
  <2>4. NoCall = [NoCall EXCEPT !.op = "none"]
    BY DEF NoCall
  <2>5. Inv'
    BY <2>1, <2>2, <2>4 DEF Inv, CallOK
  <2> QED  BY <2>1, <2>3, <2>5 DEF Acts
<1> QED
  BY <1>2, <1>3, <1>4, <1>5, <1>6, <1>7, <1>8 DEF Next

LEMMA InitIs == Init => Inv /\ Abstract!Init
<1> SUFFICES ASSUME Init PROVE Inv /\ Abstract!Init
  OBVIOUS
<1>1. /\ mm.areas = {} /\ mm.map_count = 0 /\ mm.total_vm = 0 /\ mm.data_vm = 0
      /\ mm.users = [f \in Closers |-> 0] /\ Space(mm)
      /\ mm.anon_page = [p \in Page |-> NoPage]
  BY DEF Init, Space
<1>2. Areas({})
  BY FewAreFinite DEF Areas, Apart
<1>3. \A g : SumOf(g, {}) = 0
  BY SumOfNone
<1>4. Kept(mm, 0, 0)
  <2>1. mm.users \in [Closers -> Int] /\ \A f \in Closers : mm.users[f] = 0
    BY <1>1
  <2>2. /\ SumOf(One, mm.areas) = 0 /\ SumOf(Pages, mm.areas) = 0 /\ SumOf(Data, mm.areas) = 0
        /\ \A f \in Closers : SumOf(UsedBy(f), mm.areas) = 0
    BY <1>1, <1>3
  <2>3. Areas(mm.areas) /\ Space(mm)
    BY <1>1, <1>2
  <2>4. mm.map_count = 0 /\ mm.total_vm \in Int /\ mm.data_vm \in Int
        /\ mm.total_vm + 0 = 0 /\ mm.data_vm + 0 = 0
    BY <1>1
  <2> QED  BY <2>1, <2>2, <2>3, <2>4 DEF Kept
<1>5. Found(mm)
  BY <1>1 DEF Found, FoundIn
<1>6. call = NoCall /\ NoCall = [NoCall EXCEPT !.op = "none"]
  BY DEF Init, NoCall
<1>7. [p \in Page |-> Content(p)] = [p \in Page |-> Unmapped]
  BY <1>1 DEF Content, vma_lookup
<1>8. Abstract!Init
  BY <1>6, <1>7, PagesAreThose DEF Abstract!Init
<1> QED  BY <1>4, <1>5, <1>6, <1>8 DEF Inv, Good, CallOK

LEMMA InvHolds == Spec => []Inv
BY InitIs, NextIs, PTL DEF Spec, Acts

-----------------------------------------------------------------------------
(* How many areas there can be                                              *)

LEMMA Few ==
  ASSUME NEW G, IsFiniteSet(G)
  PROVE  /\ Cardinality(G) \in Nat
         /\ G # {} => Cardinality(G) >= 1
         /\ \A x, y \in G : x # y => Cardinality(G) >= 2
<1>1. Cardinality(G) \in Nat /\ (Cardinality(G) = 0 <=> G = {})
  BY FS_CardinalityType, FS_EmptySet
<1>2. ASSUME NEW x \in G, NEW y \in G, x # y  PROVE Cardinality(G) >= 2
  <2>1. /\ IsFiniteSet(G \ {x}) /\ Cardinality(G \ {x}) = Cardinality(G) - 1
    BY FS_RemoveElement
  <2>2. Cardinality(G \ {x}) \in Nat /\ Cardinality(G \ {x}) # 0
    <3>1. y \in G \ {x}
      BY <1>2
    <3> QED  BY <2>1, <3>1, FS_CardinalityType, FS_EmptySet
  <2> QED  BY <1>1, <2>1, <2>2
<1> QED  BY <1>1, <1>2

(* munmap() leaves one area more only where it cuts a hole into one, below  *)
(* the limit.                                                               *)
LEMMA MunmapCounts ==
  ASSUME NEW m, Kept(m, 0, 0), sysctl_max_map_count \in Int, NEW start, NEW end, Span(start, end),
         NEW u \in do_vmi_munmap(m, start, end)
  PROVE  /\ u.mm.map_count \in Int /\ m.map_count \in Int /\ u.mm.map_count <= m.map_count + 2
         /\ Ok(u) => \/ u.mm.map_count <= m.map_count
                     \/ u.mm.map_count <= m.map_count + 1 /\ m.map_count < sysctl_max_map_count
<1> DEFINE split_start == SplitAt(m, start)
           split_both  == SplitAt(split_start, end)
           gone == Intersecting(split_both.areas, start, end)
           rest == Remove(split_both, gone)
           hole == PunchesHole(m, start, end)
<1>1. start \in Nat /\ end \in Nat /\ start < end /\ m.map_count \in Int
  BY SumsOfAreas DEF Span, Kept
<1>2. \/ u = Succeeds(m)
      \/ u = Succeeds(rest) /\ ~(hole /\ m.map_count >= sysctl_max_map_count)
      \/ u \in {Fails(m), Fails(split_start), Fails(split_both)}
  <2>1. u \in IF Intersecting(m.areas, start, end) = {} THEN {Succeeds(m)}
              ELSE IF \/ hole /\ m.map_count >= sysctl_max_map_count
                      \/ ~may_split(m, start)
                   THEN {Fails(m)}
              ELSE IF ~may_split(m, end) THEN {Fails(m), Fails(split_start)}
              ELSE {Fails(m), Fails(split_start), Fails(split_both), Succeeds(rest)}
    BY Zenon DEF do_vmi_munmap
  <2> HIDE DEF split_start, split_both, rest, hole
  <2> QED  BY <2>1
<1>3. /\ Kept(split_start, 0, 0)
      /\ \/ split_start = m /\ \A v \in m.areas : ~(v.start < start /\ start < v.end)
         \/ \E v \in m.areas :
              /\ v.start < start /\ start < v.end
              /\ split_start.areas = (m.areas \ {v}) \cup {Left(v, start), Right(v, start)}
              /\ split_start.map_count = m.map_count + 1
  <2>1. 0 \in Int /\ start \in Nat
    BY <1>1
  <2> QED  BY <2>1, SplitAtKeeps, Zenon
<1> HIDE DEF split_start
<1>4. /\ Kept(split_both, 0, 0)
      /\ \/ split_both = split_start
         \/ \E w \in split_start.areas :
              /\ w.start < end /\ end < w.end
              /\ split_both.areas = (split_start.areas \ {w}) \cup {Left(w, end), Right(w, end)}
              /\ split_both.map_count = split_start.map_count + 1
  <2>1. 0 \in Int /\ end \in Nat /\ Kept(split_start, 0, 0)
    BY <1>1, <1>3
  <2> QED  BY <2>1, SplitAtKeeps, Zenon
<1> HIDE DEF split_both
<1>5. CASE u = Succeeds(m)
  BY <1>1, <1>5, Outcomes
<1>6. CASE u = Succeeds(rest) /\ ~(hole /\ m.map_count >= sysctl_max_map_count)
  <2>1. /\ \A v \in m.areas : v \in Area /\ v.start \in Nat /\ v.end \in Nat
        /\ \A v \in split_start.areas : v \in Area /\ v.start \in Nat /\ v.end \in Nat
        /\ Areas(split_start.areas) /\ Space(split_both) /\ IsFiniteSet(split_both.areas)
    BY <1>3, <1>4, AreaFields DEF Kept, Areas
  <2>2. /\ IsFiniteSet(gone) /\ Cardinality(gone) \in Nat
        /\ gone # {} => Cardinality(gone) >= 1
        /\ \A x, y \in gone : x # y => Cardinality(gone) >= 2
    <3>1. gone \subseteq split_both.areas
      BY DEF Intersecting
    <3>2. IsFiniteSet(gone)
      BY <2>1, <3>1, FS_Subset
    <3> QED  BY <3>2, Few
  <2>3. rest.map_count = split_both.map_count - Cardinality(gone)
    BY <2>1 DEF Remove, Space
  <2>4. u.mm = rest
    BY <1>6, Outcomes
  <2>5. ASSUME NEW v \in m.areas, v.start < start, start < v.end,
               split_start.areas = (m.areas \ {v}) \cup {Left(v, start), Right(v, start)}
        PROVE  /\ Right(v, start) \in split_start.areas /\ Right(v, start).start = start
               /\ Right(v, start).end = v.end
    BY <1>1, <2>1, <2>5, LeftAndRight
  <2>6. ASSUME NEW w \in split_start.areas, w.start < end, end < w.end,
               split_both.areas = (split_start.areas \ {w}) \cup {Left(w, end), Right(w, end)}
        PROVE  /\ Left(w, end) \in gone /\ Left(w, end).start = w.start
               /\ \A r \in split_start.areas : r # w /\ r.start = start /\ start < r.end => r \in gone
    <3>1. Left(w, end).start = w.start /\ Left(w, end).end = end
      BY <1>1, <2>1, <2>6, LeftAndRight
    <3>2. Left(w, end) \in gone
      BY <1>1, <2>1, <2>6, <3>1 DEF Intersecting
    <3> QED  BY <1>1, <2>1, <2>6, <3>1, <3>2 DEF Intersecting
  <2> HIDE DEF gone, rest, hole
  <2>7. CASE split_start = m /\ split_both = split_start
    BY <1>1, <2>2, <2>3, <2>4, <2>7
  <2>8. ASSUME split_start = m, NEW w \in split_start.areas, w.start < end, end < w.end,
                split_both.areas = (split_start.areas \ {w}) \cup {Left(w, end), Right(w, end)},
                split_both.map_count = split_start.map_count + 1
         PROVE  rest.map_count \in Int /\ rest.map_count <= m.map_count
    BY <1>1, <2>2, <2>3, <2>6, <2>8
  <2>9. ASSUME NEW v \in m.areas, v.start < start, start < v.end,
                split_start.areas = (m.areas \ {v}) \cup {Left(v, start), Right(v, start)},
                split_start.map_count = m.map_count + 1, split_both = split_start
         PROVE  rest.map_count \in Int /\ rest.map_count <= m.map_count
    <3>1. Right(v, start) \in gone
      BY <1>1, <2>1, <2>5, <2>9 DEF gone, Intersecting
    <3> QED  BY <1>1, <2>2, <2>3, <2>9, <3>1
  <2>10. ASSUME NEW v \in m.areas, v.start < start, start < v.end,
                split_start.areas = (m.areas \ {v}) \cup {Left(v, start), Right(v, start)},
                split_start.map_count = m.map_count + 1,
                NEW w \in split_start.areas, w.start < end, end < w.end,
                split_both.areas = (split_start.areas \ {w}) \cup {Left(w, end), Right(w, end)},
                split_both.map_count = split_start.map_count + 1
         PROVE  /\ rest.map_count \in Int
                /\ \/ rest.map_count <= m.map_count
                   \/ rest.map_count <= m.map_count + 1 /\ m.map_count < sysctl_max_map_count
    <3> DEFINE r == Right(v, start)
               l == Left(w, end)
    <3>1. r \in split_start.areas /\ r.start = start /\ r.end = v.end
      BY <2>5, <2>10
    <3>2. /\ l \in gone /\ l.start = w.start
          /\ r # w => r \in gone
      BY <1>1, <2>6, <2>10, <3>1
    <3>3. CASE r = w
      <4>1. hole
        BY <2>10, <3>1, <3>3 DEF hole, PunchesHole
      <4>2. rest.map_count \in Int /\ rest.map_count <= m.map_count + 1
        BY <1>1, <2>2, <2>3, <2>10, <3>2
      <4> QED  BY <1>1, <1>6, <4>1, <4>2
    <3>4. CASE r # w
      <4>1. r # l
        <5>1. SUFFICES ASSUME r = l PROVE FALSE
          OBVIOUS
        <5>2. Holds(r, start) /\ Holds(w, start)
          BY <1>1, <2>1, <2>10, <3>1, <3>2, <5>1 DEF Holds
        <5> HIDE DEF r, l
        <5> QED  BY <1>1, <2>1, <2>10, <3>1, <3>4, <5>2, HeldByOne
      <4> QED  BY <1>1, <2>2, <2>3, <2>10, <3>2, <3>4, <4>1
    <3> QED  BY <3>3, <3>4
  <2> QED  BY <1>1, <1>3, <1>4, <2>4, <2>7, <2>8, <2>9, <2>10
<1>7. CASE u \in {Fails(m), Fails(split_start), Fails(split_both)}
  BY <1>1, <1>7, <1>3, <1>4, Outcomes
<1> QED  BY <1>2, <1>5, <1>6, <1>7

LEMMA InsertCounts ==
  ASSUME NEW m, Space(m), NEW v
  PROVE  vma_link(m, v).map_count = m.map_count + 1
<1> DEFINE T == m.areas \cup {v}
           u == Used(m.users, v.file, 1)
<1>1. vma_link(m, v) = [m EXCEPT !.areas = T, !.map_count = m.map_count + 1, !.users = u]
  BY DEF vma_link
<1> HIDE DEF T, u
<1> QED  BY ONLY <1>1, Space(m) DEF Space

LEMMA AccountCounts ==
  ASSUME NEW m, Space(m), NEW flags, NEW pages
  PROVE  Account(m, flags, pages).map_count = m.map_count
BY DEF Account, Space

(* A merge makes no area. *)
LEMMA MergeCounts ==
  ASSUME NEW S, IsFiniteSet(S), NEW prev, NEW addr, NEW end, NEW flags, NEW anon, NEW file,
         NEW pgoff, NEW r \in vma_merge(S, prev, addr, end, flags, anon, file, pgoff)
  PROVE  r.gone \in Nat
<1> DEFINE p     == The(prev)
           after == IF prev = {} THEN 0 ELSE p.end
           first == Intersecting(S, after, end)
           curr  == {v \in first : \A u \in first : v.start <= u.start}
           next  == IF curr = {} \/ end = The(curr).end THEN vma_lookup(S, end) ELSE {}
           n     == The(next)
           merge_prev == prev # {} /\ addr = p.end /\ can_vma_merge_after(p, flags, anon, file, pgoff)
           merge_next == next # {} /\ can_vma_merge_before(n, flags, anon, file, pgoff + (end - addr))
           both == merge_prev /\ merge_next /\ is_mergeable_anon_vma(p.anon, n.anon, TRUE)
<1>1. \/ r \in MergeBoth(S, p, curr, n)
      \/ r \in MergePrev(S, p, curr, end)
      \/ r \in MergeIntoNext(S, p, n, addr)
      \/ r \in MergeNext(S, curr, n, addr, end - addr)
  <2>1. r \in IF file = Special THEN {} ELSE
              CASE both -> MergeBoth(S, p, curr, n)
                [] merge_prev /\ ~(merge_next /\ is_mergeable_anon_vma(p.anon, n.anon, TRUE)) ->
                     MergePrev(S, p, curr, end)
                [] merge_next /\ ~merge_prev /\ prev # {} /\ addr < p.end ->
                     MergeIntoNext(S, p, n, addr)
                [] merge_next /\ ~merge_prev /\ (prev = {} \/ addr >= p.end) ->
                     MergeNext(S, curr, n, addr, end - addr)
                [] OTHER -> {}
    BY Zenon DEF vma_merge
  <2> HIDE DEF curr, n, both, merge_prev, merge_next, p
  <2> QED  BY <2>1
<1>2. Cardinality(curr) \in Nat
  <2>1. curr \subseteq S
    BY DEF Intersecting
  <2> HIDE DEF curr
  <2> QED  BY <2>1, FS_Subset, FS_CardinalityType
<1> HIDE DEF curr, n, p
<1>3. \A old, new, gone : \A x \in Merged(S, old, new, gone) : x.gone = gone
  BY DEF Merged
<1>4. r \in MergeBoth(S, p, curr, n) => r.gone = 1 + Cardinality(curr)
  BY <1>3 DEF MergeBoth
<1>5. r \in MergePrev(S, p, curr, end) => r.gone \in {0, 1}
  <2>1. ASSUME r \in MergePrev(S, p, curr, end)
        PROVE  \E old, new : \E gone \in {0, 1} : r \in Merged(S, old, new, gone)
    BY <2>1 DEF MergePrev
  <2> QED  BY <1>3, <2>1
<1>6. r \in MergeIntoNext(S, p, n, addr) => r.gone = 0
  BY <1>3 DEF MergeIntoNext
<1>7. r \in MergeNext(S, curr, n, addr, end - addr) => r.gone \in {0, 1}
  BY <1>3 DEF MergeNext
<1> QED  BY <1>1, <1>2, <1>4, <1>5, <1>6, <1>7

LEMMA WithMergeCounts ==
  ASSUME NEW m, Space(m), m.map_count \in Int, NEW r, r.gone \in Nat
  PROVE  WithMerge(m, r).map_count \in Int /\ WithMerge(m, r).map_count <= m.map_count
<1>1. WithMerge(m, r).map_count = m.map_count - r.gone
  BY DEF WithMerge, Space
<1> QED  BY <1>1

LEMMA MapFreeCounts ==
  ASSUME NEW m, Kept(m, 0, 0), NEW addr, NEW end, NEW flags, NEW file, NEW pgoff,
         NEW w \in MapFree(m, addr, end, flags, file, pgoff)
  PROVE  w.map_count \in Int /\ w.map_count <= m.map_count + 1
<1>1. m.map_count \in Int /\ Space(m) /\ IsFiniteSet(m.areas)
  BY SumsOfAreas DEF Kept, Areas
<1>2. CASE w = Insert(m, addr, end, flags, file, pgoff)
  BY <1>1, <1>2, InsertCounts DEF Insert
<1>3. ASSUME NEW v, NEW start, NEW stop, NEW off, NEW next, next \subseteq m.areas,
             w = vma_expand(m, v, start, stop, off, next)
      PROVE  w.map_count \in Int /\ w.map_count <= m.map_count + 1
  <2> DEFINE over == {u \in next : u # v /\ u.end = stop}
             d == IF over = {} THEN v ELSE dup_anon_vma(v, The(over))
             T == (m.areas \ ({v} \cup over)) \cup {[d EXCEPT !.start = start, !.end = stop, !.pgoff = off]}
             k == m.map_count - Cardinality(over)
  <2>1. w = [m EXCEPT !.areas = T, !.map_count = k]
    BY <1>3 DEF vma_expand
  <2>2. Cardinality(over) \in Nat
    <3>1. over \subseteq m.areas
      BY <1>3
    <3> HIDE DEF over
    <3> QED  BY <1>1, <3>1, FS_Subset, FS_CardinalityType
  <2> HIDE DEF over, T
  <2>3. w.map_count = k
    BY ONLY <1>1, <2>1 DEF Space
  <2> QED  BY <1>1, <2>2, <2>3
<1>4. \/ w = Insert(m, addr, end, flags, file, pgoff)
      \/ \E v, start, stop, off, next :
           next \subseteq m.areas /\ w = vma_expand(m, v, start, stop, off, next)
  <2> DEFINE next  == {v \in vma_lookup(m.areas, end) :
                         can_vma_merge_before(v, flags, NoAnon, file, pgoff + (end - addr))}
             anon  == IF next = {} THEN NoAnon ELSE The(next).anon
             prev  == {v \in vma_prev(m.areas, addr) :
                         v.end = addr /\ can_vma_merge_after(v, flags, anon, file, pgoff)}
             v     == The(IF prev = {} THEN next ELSE prev)
             start == IF prev = {} THEN addr ELSE v.start
             stop  == IF next = {} THEN end ELSE The(next).end
             off   == IF prev = {} THEN v.pgoff - (end - addr) ELSE v.pgoff
  <2>1. w \in {Insert(m, addr, end, flags, file, pgoff)} \cup
              IF prev \cup next = {} THEN {} ELSE {vma_expand(m, v, start, stop, off, next)}
    BY Zenon DEF MapFree
  <2>2. next \subseteq m.areas
    BY DEF vma_lookup
  <2> HIDE DEF next, prev, v, start, stop, off
  <2> QED  BY <2>1, <2>2
<1> QED  BY <1>2, <1>3, <1>4

LEMMA BrkCounts ==
  ASSUME NEW m, Kept(m, 0, 0), NEW start, NEW end
  PROVE  /\ do_brk_flags(m, start, end).map_count \in Int
         /\ do_brk_flags(m, start, end).map_count <= m.map_count + 1
<1>1. m.map_count \in Int /\ Space(m)
  BY SumsOfAreas DEF Kept
<1> DEFINE heap == {v \in vma_prev(m.areas, start) :
                      v.end = start /\ can_vma_merge_after(v, "rw", NoAnon, NoFile, start)}
           T == (m.areas \ heap) \cup {[The(heap) EXCEPT !.end = end]}
<1>2. \/ do_brk_flags(m, start, end) = Insert(m, start, end, "rw", NoFile, start)
      \/ do_brk_flags(m, start, end) = [m EXCEPT !.areas = T]
  BY Zenon DEF do_brk_flags
<1>3. Insert(m, start, end, "rw", NoFile, start).map_count = m.map_count + 1
  BY <1>1, InsertCounts DEF Insert
<1>4. [m EXCEPT !.areas = T].map_count = m.map_count
  <2> HIDE DEF T
  <2> QED  BY ONLY <1>1 DEF Space
<1>5. ASSUME NEW w, w.map_count = m.map_count \/ w.map_count = m.map_count + 1
      PROVE  w.map_count \in Int /\ w.map_count <= m.map_count + 1
  BY <1>1, <1>5
<1> HIDE DEF T
<1> QED  BY <1>2, <1>3, <1>4, <1>5

LEMMA SpaceOfMerge ==
  ASSUME NEW m, Space(m), NEW r
  PROVE  Space(WithMerge(m, r))
<1> DEFINE T == r.areas
           k == m.map_count - r.gone
<1>1. WithMerge(m, r) = [m EXCEPT !.areas = T, !.map_count = k]
  BY DEF WithMerge
<1> HIDE DEF T, k
<1> QED  BY ONLY <1>1, Space(m) DEF Space

(* What a call that succeeds leaves of the limit                            *)
Limited(m, o) ==
  \/ o.ends = "failed" \/ o.mm.map_count <= m.map_count
  \/ o.mm.map_count <= sysctl_max_map_count + 1

LEMMA MmapCounts ==
  ASSUME NEW m, Good(m), sysctl_max_map_count \in Int, NEW c, MmapOK(c), NEW o \in mmap_region(m, c)
  PROVE  Limited(m, o)
<1>1. Span(c.start, c.end) /\ c.flags \in Flags /\ c.file \in Mapped /\ c.pgoff \in Int
  BY DEF MmapOK
<1>2. CASE o = Fails(m)
  BY <1>2, Outcomes DEF Limited
<1>3. ASSUME NEW u \in do_vmi_munmap(m, c.start, c.end), o \in Placed(u, c),
             m.map_count <= sysctl_max_map_count
      PROVE  Limited(m, o)
  <2>1. Unmaps(m, c.start, c.end, u) /\ Kept(m, 0, 0)
    BY <1>1, MunmapIs DEF Good
  <2>2. /\ u.mm.map_count \in Int /\ m.map_count \in Int
        /\ Ok(u) => \/ u.mm.map_count <= m.map_count
                    \/ u.mm.map_count <= m.map_count + 1 /\ m.map_count < sysctl_max_map_count
    BY <1>1, <2>1, MunmapCounts
  <2>3. \/ ~Ok(u) /\ o = u
        \/ o = Fails(u.mm)
        \/ Ok(u) /\ \E w \in MapFree(u.mm, c.start, c.end, c.flags, c.file, c.pgoff) :
                      o = Succeeds(Account(w, c.flags, c.end - c.start))
    BY <1>3, Zenon DEF Placed
  <2>4. CASE ~Ok(u) /\ o = u
    BY <2>1, <2>4 DEF Limited, Unmaps, Ok
  <2>5. CASE o = Fails(u.mm)
    BY <2>5, Outcomes DEF Limited
  <2>6. ASSUME Ok(u), NEW w \in MapFree(u.mm, c.start, c.end, c.flags, c.file, c.pgoff),
               o = Succeeds(Account(w, c.flags, c.end - c.start))
        PROVE  Limited(m, o)
    <3>1. Kept(u.mm, 0, 0) /\ Free(u.mm.areas, c.start, c.end)
      BY <2>1, <2>6 DEF Unmaps, Good, Ok
    <3>2. w.map_count \in Int /\ w.map_count <= u.mm.map_count + 1
      BY <2>6, <3>1, MapFreeCounts
    <3>3. Space(w)
      BY <1>1, <2>6, <3>1, MapFreeKeeps DEF KeptButFor, Kept
    <3>4. o.mm.map_count = w.map_count
      BY <2>6, <3>3, AccountCounts, Outcomes
    <3> QED  BY <1>3, <2>2, <2>6, <3>2, <3>4 DEF Limited
  <2> QED  BY <2>3, <2>4, <2>5, <2>6
<1>4. \/ o = Fails(m)
      \/ /\ m.map_count <= sysctl_max_map_count
         /\ \E u \in do_vmi_munmap(m, c.start, c.end) : o \in Placed(u, c)
  <2>1. o \in {Fails(m)} \cup IF m.map_count > sysctl_max_map_count THEN {} ELSE
                              UNION {Placed(u, c) : u \in do_vmi_munmap(m, c.start, c.end)}
    BY Zenon DEF mmap_region
  <2>2. m.map_count \in Int
    BY SumsOfAreas DEF Good, Kept
  <2>3. \/ o = Fails(m)
        \/ /\ ~(m.map_count > sysctl_max_map_count)
           /\ \E u \in do_vmi_munmap(m, c.start, c.end) : o \in Placed(u, c)
    BY <2>1
  <2>4. m.map_count > sysctl_max_map_count \/ m.map_count <= sysctl_max_map_count
    BY <2>2
  <2> QED  BY <2>3, <2>4
<1> QED  BY <1>2, <1>3, <1>4

LEMMA VmBrkCounts ==
  ASSUME NEW m, Good(m), sysctl_max_map_count \in Int, NEW c, Span(c.start, c.end),
         NEW o \in vm_brk_flags(m, c)
  PROVE  Limited(m, o)
<1>1. PICK u \in do_vmi_munmap(m, c.start, c.end) :
        \/ o = Fails(u.mm)
        \/ /\ Ok(u) /\ ~(u.mm.map_count > sysctl_max_map_count)
           /\ o = Succeeds(Account(do_brk_flags(u.mm, c.start, c.end), "rw", c.end - c.start))
  BY DEF vm_brk_flags
<1>2. Unmaps(m, c.start, c.end, u) /\ Kept(m, 0, 0)
  BY MunmapIs DEF Good
<1>3. CASE o = Fails(u.mm)
  BY <1>3, Outcomes DEF Limited
<1>4. CASE /\ Ok(u) /\ ~(u.mm.map_count > sysctl_max_map_count)
           /\ o = Succeeds(Account(do_brk_flags(u.mm, c.start, c.end), "rw", c.end - c.start))
  <2> DEFINE w == do_brk_flags(u.mm, c.start, c.end)
  <2>1. Kept(u.mm, 0, 0) /\ Free(u.mm.areas, c.start, c.end)
    BY <1>2, <1>4 DEF Unmaps, Good, Ok
  <2>2. w.map_count \in Int /\ w.map_count <= u.mm.map_count + 1
    BY <2>1, BrkCounts
  <2>3. Space(w)
    BY <2>1, BrkKeeps DEF KeptButFor, Kept
  <2> HIDE DEF w
  <2>4. o.mm.map_count = w.map_count
    BY <1>4, <2>3, AccountCounts, Outcomes DEF w
  <2>5. u.mm.map_count \in Int
    BY <1>2, MunmapCounts
  <2> QED  BY <1>4, <2>2, <2>4, <2>5 DEF Limited
<1> QED  BY <1>1, <1>3, <1>4

LEMMA MremapCounts ==
  ASSUME NEW m, Good(m), NEW c, NEW o \in vma_merge_extend(m, c)
  PROVE  Limited(m, o)
<1>1. m.map_count \in Int /\ Space(m) /\ IsFiniteSet(m.areas)
  BY SumsOfAreas DEF Good, Kept, Areas
<1>2. \/ o = Fails(m)
      \/ \E prev, flags, anon, file :
         \E r \in vma_merge(m.areas, prev, c.start, c.end, flags, anon, file, c.pgoff) :
           o = Succeeds(Account(WithMerge(m, r), c.flags, c.end - c.start))
  BY DEF vma_merge_extend
<1>3. ASSUME NEW prev, NEW flags, NEW anon, NEW file,
             NEW r \in vma_merge(m.areas, prev, c.start, c.end, flags, anon, file, c.pgoff),
             o = Succeeds(Account(WithMerge(m, r), c.flags, c.end - c.start))
      PROVE  Limited(m, o)
  <2> DEFINE w == WithMerge(m, r)
  <2>1. w.map_count <= m.map_count
    BY <1>1, MergeCounts, WithMergeCounts
  <2>2. Space(w)
    BY <1>1, SpaceOfMerge
  <2> HIDE DEF w
  <2> QED  BY <1>3, <2>1, <2>2, AccountCounts, Outcomes DEF Limited, w
<1> QED  BY <1>2, <1>3, Outcomes DEF Limited

LEMMA SplitVmaCounts ==
  ASSUME NEW m, Kept(m, 0, 0), sysctl_max_map_count \in Int, NEW addr \in Nat,
         NEW o \in split_vma(m, addr)
  PROVE  /\ o.mm.map_count \in Int /\ m.map_count \in Int
         /\ \/ o.mm.map_count = m.map_count
            \/ o.mm.map_count = m.map_count + 1 /\ m.map_count < sysctl_max_map_count
<1>1. m.map_count \in Int
  BY SumsOfAreas DEF Kept
<1>2. \/ o = Succeeds(m)
      \/ o = Fails(m)
      \/ o = Succeeds(SplitAt(m, addr)) /\ ~(m.map_count >= sysctl_max_map_count)
  BY Zenon DEF split_vma
<1>3. SplitAt(m, addr).map_count \in {m.map_count, m.map_count + 1}
  <2> DEFINE w == SplitAt(m, addr)
  <2>1. \/ w = m /\ \A v \in m.areas : ~(v.start < addr /\ addr < v.end)
        \/ \E v \in m.areas :
             /\ v.start < addr /\ addr < v.end
             /\ w.areas = (m.areas \ {v}) \cup {Left(v, addr), Right(v, addr)}
             /\ w.map_count = m.map_count + 1
    <3>1. 0 \in Int
      OBVIOUS
    <3> QED  BY <3>1, SplitAtKeeps, Zenon
  <2> HIDE DEF w
  <2> QED  BY <2>1 DEF w
<1> QED  BY <1>1, <1>2, <1>3, Outcomes

LEMMA ModifyCounts ==
  ASSUME NEW m, Good(m), sysctl_max_map_count \in Int, NEW c, ModifyOK(m, c),
         NEW o \in vma_modify(m, c)
  PROVE  Limited(m, o)
<1> DEFINE v     == The(vma_lookup(m.areas, c.start))
           prev  == IF v.start < c.start THEN {v} ELSE vma_prev(m.areas, c.start)
           pgoff == v.pgoff + (c.start - v.start)
           by    == IF c.flags = "rw" THEN c.end - c.start ELSE c.start - c.end
           moved == [m EXCEPT !.data_vm = @ + by]
           joins == vma_merge(m.areas, prev, c.start, c.end, c.flags, v.anon, v.file, pgoff)
           Alone(u) == IF ~Ok(u) THEN {u} ELSE
                       {IF ~Ok(w) THEN w
                        ELSE Succeeds(SetFlags([w.mm EXCEPT !.data_vm = moved.data_vm],
                                               c.start, c.end, c.flags)) :
                          w \in split_vma(u.mm, c.end)}
<1>1. /\ m.map_count \in Int /\ Space(m) /\ IsFiniteSet(m.areas) /\ Kept(m, 0, 0)
      /\ c.start \in Nat /\ c.end \in Nat
  BY SumsOfAreas DEF Good, Kept, Areas, ModifyOK, Span
<1>2. moved.map_count = m.map_count /\ Space(moved)
  <2> DEFINE d == m.data_vm + by
  <2>1. moved = [m EXCEPT !.data_vm = d]
    OBVIOUS
  <2> HIDE DEF d, moved
  <2> QED  BY ONLY <1>1, <2>1 DEF Space
<1>3. \/ \E r \in joins : o = Succeeds(WithMerge(moved, r))
      \/ \E u \in split_vma(m, c.start) : o \in Alone(u)
  <2>1. o \in {Succeeds(WithMerge(moved, r)) : r \in joins} \cup UNION {Alone(u) : u \in split_vma(m, c.start)}
    BY Zenon DEF vma_modify
  <2> HIDE DEF moved, joins, Alone
  <2> QED  BY <2>1
<1>4. ASSUME NEW r \in joins, o = Succeeds(WithMerge(moved, r))  PROVE Limited(m, o)
  <2>1. r.gone \in Nat
    BY <1>1, MergeCounts
  <2> HIDE DEF moved
  <2> QED  BY <1>1, <1>2, <1>4, <2>1, WithMergeCounts, Outcomes DEF Limited
<1>5. ASSUME NEW u \in split_vma(m, c.start), o \in Alone(u)  PROVE Limited(m, o)
  <2> DEFINE dvm == moved.data_vm
  <2>1. /\ u.mm.map_count \in Int
        /\ \/ u.mm.map_count = m.map_count
           \/ u.mm.map_count = m.map_count + 1 /\ m.map_count < sysctl_max_map_count
        /\ Kept(u.mm, 0, 0) /\ (u.ends = "ok" \/ u.ends = "failed")
    BY <1>1, SplitVmaCounts, SplitVmaKeeps
  <2>2. \/ ~Ok(u) /\ o = u
        \/ \E w \in split_vma(u.mm, c.end) :
             \/ ~Ok(w) /\ o = w
             \/ Ok(w) /\ o = Succeeds(SetFlags([w.mm EXCEPT !.data_vm = dvm], c.start, c.end, c.flags))
    BY <1>5, Zenon
  <2> HIDE DEF dvm, moved, Alone
  <2>3. CASE ~Ok(u) /\ o = u
    BY <2>1, <2>3 DEF Limited, Ok
  <2>4. ASSUME NEW w \in split_vma(u.mm, c.end)
        PROVE  /\ w.mm.map_count \in Int /\ Space(w.mm) /\ (w.ends = "ok" \/ w.ends = "failed")
               /\ \/ w.mm.map_count <= m.map_count
                  \/ w.mm.map_count <= sysctl_max_map_count
    <3>1. /\ w.mm.map_count \in Int
          /\ \/ w.mm.map_count = u.mm.map_count
             \/ w.mm.map_count = u.mm.map_count + 1 /\ u.mm.map_count < sysctl_max_map_count
          /\ Kept(w.mm, 0, 0) /\ (w.ends = "ok" \/ w.ends = "failed")
      BY <1>1, <2>1, SplitVmaCounts, SplitVmaKeeps
    <3> QED  BY <1>1, <2>1, <3>1 DEF Kept
  <2>5. ASSUME NEW w \in split_vma(u.mm, c.end), ~Ok(w), o = w  PROVE Limited(m, o)
    BY <2>4, <2>5 DEF Limited, Ok
  <2>6. ASSUME NEW w \in split_vma(u.mm, c.end),
               o = Succeeds(SetFlags([w.mm EXCEPT !.data_vm = dvm], c.start, c.end, c.flags))
        PROVE  Limited(m, o)
    <3> DEFINE wm == w.mm
               T == {IF x.start = c.start /\ x.end = c.end THEN [x EXCEPT !.flags = c.flags] ELSE x :
                       x \in wm.areas}
               q == SetFlags([wm EXCEPT !.data_vm = dvm], c.start, c.end, c.flags)
    <3>1. Space(wm) /\ o.mm = q
      BY <2>4, <2>6, Outcomes
    <3> HIDE DEF wm
    <3>2. q = [[wm EXCEPT !.data_vm = dvm] EXCEPT !.areas = T]
      BY <3>1 DEF SetFlags, Space
    <3> HIDE DEF T, q
    <3>3. q.map_count = wm.map_count
      BY ONLY <3>1, <3>2 DEF Space
    <3> QED  BY <1>1, <2>4, <3>1, <3>3 DEF Limited, wm
  <2> QED  BY <2>2, <2>3, <2>5, <2>6
<1> QED  BY <1>3, <1>4, <1>5

LEMMA MoveCounts ==
  ASSUME NEW m, Good(m), sysctl_max_map_count \in Int, NEW c, MoveOK(m, c), NEW o \in move_vma(m, c)
  PROVE  Limited(m, o)
<1> DEFINE v   == The(vma_lookup(m.areas, c.start))
           len == c.end - c.start
           until == c.to + len
<1>1. /\ m.map_count \in Int /\ Space(m) /\ IsFiniteSet(m.areas) /\ Kept(m, 0, 0)
      /\ Areas(m.areas) /\ c.start \in Nat /\ c.end \in Nat /\ c.start < c.end /\ Span(c.start, c.end)
      /\ len \in Int /\ Free(m.areas, c.to, until) /\ Span(c.to, until)
  BY SumsOfAreas DEF Good, Kept, Areas, MoveOK, Span, Free
<1>2. \/ o = Fails(m)
      \/ /\ ~(m.map_count + 2 >= sysctl_max_map_count - 3)
         /\ \E u \in copy_vma(m, v, c.start, c.to, len) :
              \/ ~Ok(u) /\ o = u
              \/ /\ Ok(u)
                 /\ \E w \in do_vmi_munmap(Account(MovedTo(u.mm, c), v.flags, len), c.start, c.end) :
                      o = Succeeds(w.mm)
  <2> HIDE DEF v
  <2> QED  BY Zenon DEF move_vma, v, MovedTo, MovedPages
<1>3. v \in m.areas /\ v.start <= c.start /\ c.start < v.end
  <2>1. PICK h \in m.areas : h.start <= c.start /\ c.end <= h.end
    BY DEF MoveOK
  <2>2. h.start \in Nat /\ h.end \in Nat
    BY <1>1, SingleArea
  <2>3. h \in vma_lookup(m.areas, c.start)
    BY <1>1, <2>1, <2>2 DEF vma_lookup
  <2> QED  BY <2>3, TheOne DEF vma_lookup
<1>4. ASSUME NEW u \in copy_vma(m, v, c.start, c.to, len)
      PROVE  /\ \/ u = Fails(m)
                \/ u.ends = "ok" /\ KeptButFor(u.mm, c.to, until, v.flags)
             /\ u.mm.map_count \in Int /\ u.mm.map_count <= m.map_count + 1
  <2> HIDE DEF v, len
  <2>1. \/ u = Fails(m)
        \/ u.ends = "ok" /\ KeptButFor(u.mm, c.to, until, v.flags)
    BY <1>1, <1>3, CopyIs
  <2>2. \/ u.mm = m
        \/ \E a : u.mm = vma_link(m, a)
        \/ \E prev, flags, anon, file, pgoff :
           \E r \in vma_merge(m.areas, prev, c.to, until, flags, anon, file, pgoff) :
             u.mm = WithMerge(m, r)
    BY Outcomes DEF copy_vma
  <2>3. ASSUME NEW a  PROVE vma_link(m, a).map_count = m.map_count + 1
    BY <1>1, InsertCounts
  <2>4. ASSUME NEW prev, NEW flags, NEW anon, NEW file, NEW pgoff,
               NEW r \in vma_merge(m.areas, prev, c.to, until, flags, anon, file, pgoff)
        PROVE  WithMerge(m, r).map_count \in Int /\ WithMerge(m, r).map_count <= m.map_count
    BY <1>1, MergeCounts, WithMergeCounts
  <2>5. u.mm.map_count \in Int /\ u.mm.map_count <= m.map_count + 1
    BY <1>1, <2>2, <2>3, <2>4
  <2> QED  BY <2>1, <2>5
<1> HIDE DEF v, len
<1>5. CASE o = Fails(m)
  BY <1>5, Outcomes DEF Limited
<1>6. ASSUME NEW u \in copy_vma(m, v, c.start, c.to, len), ~Ok(u), o = u  PROVE Limited(m, o)
  BY <1>4, <1>6, Outcomes DEF Limited, Ok
<1>7. ASSUME ~(m.map_count + 2 >= sysctl_max_map_count - 3),
             NEW u \in copy_vma(m, v, c.start, c.to, len), Ok(u),
             NEW w \in do_vmi_munmap(Account(MovedTo(u.mm, c), v.flags, len), c.start, c.end),
             o = Succeeds(w.mm)
      PROVE  Limited(m, o)
  <2> DEFINE s == MovedTo(u.mm, c)
             n == Account(s, v.flags, len)
  <2>1. KeptButFor(u.mm, c.to, until, v.flags)
    BY <1>4, <1>7, Outcomes DEF Ok
  <2>2. KeptButFor(s, c.to, until, v.flags) /\ Space(u.mm) /\ Space(s)
    BY <2>1, MovedKeeps DEF KeptButFor, Kept
  <2>3. s.map_count = u.mm.map_count
    <3> DEFINE um == u.mm
               pages == MovedPages(um.anon_page, c)
    <3>1. s = [um EXCEPT !.anon_page = pages] /\ Space(um)
      BY <2>2 DEF MovedTo
    <3> HIDE DEF s, um, pages
    <3>2. s.map_count = um.map_count
      BY ONLY <3>1 DEF Space
    <3> QED  BY <3>2 DEF um
  <2> HIDE DEF s
  <2>4. n.map_count = u.mm.map_count
    BY <2>2, <2>3, AccountCounts
  <2>5. Kept(n, 0, 0)
    <3>1. len = until - c.to
      BY <1>1 DEF Free, Span
    <3> HIDE DEF until
    <3>2. Kept(Account(s, v.flags, until - c.to), 0, 0)
      BY <1>1, <2>2, AccountCloses
    <3> QED  BY <3>1, <3>2
  <2>6. w \in do_vmi_munmap(n, c.start, c.end)
    BY DEF s
  <2> HIDE DEF n
  <2>7. w.mm.map_count \in Int /\ w.mm.map_count <= n.map_count + 2
    BY <1>1, <2>5, <2>6, MunmapCounts
  <2>8. o.mm = w.mm
    BY <1>7, Outcomes
  <2> QED  BY <1>1, <1>4, <1>7, <2>4, <2>7, <2>8 DEF Limited
<1> QED  BY <1>2, <1>5, <1>6, <1>7

LEMMA ExitCounts ==
  ASSUME NEW m, Good(m), NEW o \in exit_mmap(m)
  PROVE  Limited(m, o)
<1>1. /\ Areas(m.areas) /\ m.map_count = SumOf(One, m.areas) /\ Space(m) /\ m.map_count \in Int
      /\ IsFiniteSet(m.areas)
  BY SumsOfAreas DEF Good, Kept, Areas
<1>2. Cardinality(m.areas) = m.map_count /\ Cardinality(m.areas) \in Nat
  BY <1>1, CountedByMeasures, FS_CardinalityType
<1>3. o = Succeeds(Remove(m, m.areas))
  BY <1>2 DEF exit_mmap
<1>4. Remove(m, m.areas).map_count = m.map_count - Cardinality(m.areas)
  BY <1>1 DEF Remove, Space
<1> QED  BY <1>1, <1>2, <1>3, <1>4, Outcomes DEF Limited

LimitOK == sysctl_max_map_count \in Nat

LEMMA LimitStays == LimitOK /\ [Next]_vars => LimitOK'
<1> SUFFICES ASSUME LimitOK, [Next]_vars  PROVE LimitOK'
  OBVIOUS
<1>1. CASE Sysctl
  BY <1>1, SpaceAssumption DEF Sysctl, LimitOK
<1>2. CASE UNCHANGED sysctl_max_map_count
  BY <1>2 DEF LimitOK
<1>3. ASSUME NEW start \in Page, NEW end \in 1..NPages,
             \/ CallMmap(start, end) \/ CallMunmap(start, end) \/ CallBrk(start, end)
             \/ CallMprotect(start, end) \/ CallMremap(start, end) \/ CallMove(start, end)
             \/ CallRemapFilePages(start, end) \/ CallSpecial(start, end)
      PROVE  UNCHANGED <<mm, sysctl_max_map_count>>
  BY <1>3 DEF CallMmap, CallMunmap, CallBrk, CallMprotect, CallMremap, CallMove,
              CallRemapFilePages, CallSpecial, Request, Take
<1>4. CASE Mmap \/ Munmap \/ Brk \/ Mprotect \/ Mremap \/ Move \/ Install \/ Exit \/ Return
  BY <1>2, <1>4 DEF Mmap, Munmap, Brk, Mprotect, Mremap, Move, Install, Exit, Return, Effect
<1>5. ASSUME NEW p \in Page, Fault(p)  PROVE UNCHANGED sysctl_max_map_count
  BY <1>5, Zenon DEF Fault
<1> QED
  BY <1>1, <1>2, <1>3, <1>4, <1>5 DEF Next, vars, CallExit, Request, Take

CountIsLimited ==
  mm'.map_count > mm.map_count /\ call'.op # "failed" /\ call.op # "special" =>
    mm'.map_count <= sysctl_max_map_count + 1

(* A call that leaves more areas than there were was under the limit.       *)
LEMMA EffectCounts ==
  ASSUME Inv, LimitOK, Mmap \/ Munmap \/ Brk \/ Mprotect \/ Mremap \/ Move \/ Exit
  PROVE  CountIsLimited
<1>1. /\ Good(mm) /\ sysctl_max_map_count \in Int
      /\ mm.map_count \in Int /\ mm'.map_count \in Int
  <2>1. Inv'
    BY EffectsAre DEF Acts
  <2>2. Good(mm) /\ Good(mm')
    BY <2>1 DEF Inv
  <2>3. \A m : Good(m) => m.map_count \in Int
    BY SumsOfAreas DEF Good, Kept
  <2> QED  BY <2>2, <2>3 DEF LimitOK
<1>2. ASSUME NEW o, mm' = o.mm, call' = [NoCall EXCEPT !.op = o.ends], Limited(mm, o)
      PROVE  CountIsLimited
  <2>1. call'.op = o.ends
    BY <1>2 DEF NoCall
  <2> QED  BY <1>1, <1>2, <2>1 DEF CountIsLimited, Limited
<1>3. CASE Mmap
  <2>1. PICK o \in mmap_region(mm, call) : mm' = o.mm /\ call' = [NoCall EXCEPT !.op = o.ends]
    BY <1>3 DEF Mmap, Effect
  <2>2. MmapOK(call)
    BY <1>3, EffectTakes DEF Mmap, Asked
  <2> QED  BY <1>1, <1>2, <2>1, <2>2, MmapCounts
<1>4. CASE Brk
  <2>1. PICK o \in vm_brk_flags(mm, call) : mm' = o.mm /\ call' = [NoCall EXCEPT !.op = o.ends]
    BY <1>4 DEF Brk, Effect
  <2>2. Span(call.start, call.end)
    BY <1>4, EffectTakes DEF Brk, Asked
  <2> QED  BY <1>1, <1>2, <2>1, <2>2, VmBrkCounts
<1>5. CASE Mprotect
  <2>1. PICK o \in vma_modify(mm, call) : mm' = o.mm /\ call' = [NoCall EXCEPT !.op = o.ends]
    BY <1>5 DEF Mprotect, Effect
  <2>2. ModifyOK(mm, call)
    BY <1>5, EffectTakes DEF Mprotect, Asked
  <2> QED  BY <1>1, <1>2, <2>1, <2>2, ModifyCounts
<1>6. CASE Mremap
  <2>1. PICK o \in vma_merge_extend(mm, call) : mm' = o.mm /\ call' = [NoCall EXCEPT !.op = o.ends]
    BY <1>6 DEF Mremap, Effect
  <2> QED  BY <1>1, <1>2, <2>1, MremapCounts
<1>7. CASE Move
  <2>1. PICK o \in move_vma(mm, call) : mm' = o.mm /\ call' = [NoCall EXCEPT !.op = o.ends]
    BY <1>7 DEF Move, Effect
  <2>2. MoveOK(mm, call)
    BY <1>7, EffectTakes DEF Move, Asked
  <2> QED  BY <1>1, <1>2, <2>1, <2>2, MoveCounts
<1>8. CASE Exit
  <2>1. PICK o \in exit_mmap(mm) : mm' = o.mm /\ call' = [NoCall EXCEPT !.op = o.ends]
    BY <1>8 DEF Exit, Effect
  <2> QED  BY <1>1, <1>2, <2>1, ExitCounts
<1>9. CASE Munmap
  <2>1. PICK o \in do_vmi_munmap(mm, call.start, call.end) :
          mm' = o.mm /\ call' = [NoCall EXCEPT !.op = o.ends]
    BY <1>9 DEF Munmap, Effect
  <2>2. Span(call.start, call.end)
    BY <1>9, EffectTakes DEF Munmap, Asked
  <2>3. Unmaps(mm, call.start, call.end, o) /\ Kept(mm, 0, 0)
    BY <1>1, <2>2, MunmapIs DEF Good
  <2>4. /\ o.mm.map_count \in Int
        /\ Ok(o) => \/ o.mm.map_count <= mm.map_count
                    \/ o.mm.map_count <= mm.map_count + 1 /\ mm.map_count < sysctl_max_map_count
    BY <1>1, <2>2, <2>3, MunmapCounts
  <2>5. Limited(mm, o)
    BY <1>1, <2>3, <2>4 DEF Limited, Unmaps, Ok
  <2> QED  BY <1>2, <2>1, <2>5
<1> QED  BY <1>3, <1>4, <1>5, <1>6, <1>7, <1>8, <1>9

-----------------------------------------------------------------------------
(* The theorems                                                             *)

(* No page is ever in two areas: mmap_region(), do_vmi_munmap() with its    *)
(* splits, vma_modify(), vma_merge_extend(), copy_vma() and page faults     *)
(* keep the areas apart, wherever an allocation fails.                      *)
THEOREM AreasStayApart == Spec => []AreasAreDisjoint
<1>1. Inv => AreasAreDisjoint
  BY DEF Inv, Good, Kept, Areas, Apart, AreasAreDisjoint
<1> QED  BY <1>1, InvHolds, PTL

(* map_count, total_vm and data_vm, which every path of mmap.c keeps by its *)
(* own increments, are always what counting the areas would give: exit_mmap *)
(* never finds another number of them, and the memory limits compare the    *)
(* pages there are.                                                         *)
THEOREM CountsStayRight == Spec => []CountsMatchAreas
<1>1. Inv => CountsMatchAreas
  <2> SUFFICES ASSUME Inv  PROVE CountsMatchAreas
    OBVIOUS
  <2>1. Areas(mm.areas)
    BY DEF Inv, Good, Kept
  <2>2. /\ Cardinality(mm.areas) = SumOf(One, mm.areas)
        /\ MapThenSumSet(vma_pages, mm.areas) = SumOf(Pages, mm.areas)
        /\ MapThenSumSet(DataPages, mm.areas) = SumOf(Data, mm.areas)
    BY <2>1, CountedByMeasures, PagesAreSums, DataAreSums
  <2>3. /\ mm.map_count = SumOf(One, mm.areas) /\ mm.total_vm = SumOf(Pages, mm.areas)
        /\ mm.data_vm = SumOf(Data, mm.areas)
    BY DEF Inv, Good, Kept
  <2> QED  BY <2>2, <2>3 DEF CountsMatchAreas
<1> QED  BY <1>1, InvHolds, PTL

(* A file with a vm_ops->close() is open once for each of its areas: every  *)
(* split, copy and new mapping opens it, every area that goes is closed,    *)
(* and no merge makes one of its areas vanish.                              *)
THEOREM OpensAreClosed == Spec => []OpensMatchCloses
<1>1. Inv => OpensMatchCloses
  BY CountedByMeasures DEF Inv, Good, Kept, OpensMatchCloses
<1> QED  BY <1>1, InvHolds, PTL

(* A page that was written to is found through the area that maps it, also  *)
(* after areas were split, merged and moved: a merge takes over the         *)
(* anon_vma of the area it swallows, and offsets are kept.                  *)
THEOREM WrittenPagesAreFound == Spec => []AnonPagesAreFound
<1>1. Inv => AnonPagesAreFound
  <2> SUFFICES ASSUME Inv, NEW p \in Page, mm.anon_page[p] # NoPage
               PROVE  \E v \in mm.areas : /\ p \in PagesOf(v)
                                          /\ mm.anon_page[p] = [anon |-> v.anon, index |-> v.pgoff + p - v.start]
    BY DEF AnonPagesAreFound
  <2>1. PICK v \in mm.areas :
          Holds(v, p) /\ mm.anon_page[p] = [anon |-> v.anon, index |-> v.pgoff + p - v.start]
    BY DEF Inv, Good, Found, FoundIn
  <2>2. v.start \in Nat /\ v.end \in Nat /\ p \in Nat
    BY SingleArea, PagesAreNumbers DEF Inv, Good, Kept
  <2> QED  BY <2>1, <2>2 DEF Holds, PagesOf
<1> QED  BY <1>1, InvHolds, PTL

(* The calls on areas act on the map from pages to their content as         *)
(* PageMap says. *)
THEOREM AreasActAsMap == Spec => ActsAsPageMap
<1>1. Inv /\ [Next]_vars => [Abstract!Next]_<<[p \in Page |-> Content(p)], call>>
  BY NextIs DEF Acts
<1> QED  BY <1>1, InitIs, InvHolds, PTL DEF Spec, ActsAsPageMap, Abstract!Spec

(* What adds an area adds it under the limit, or adds the one area mmap()   *)
(* and brk() allow beyond it: every split tests the limit, munmap() before  *)
(* it cuts a hole, and mremap() leaves room for the areas it may need.      *)
THEOREM AreasAreLimited == Spec => MapCountIsLimited
<1>1. Init => LimitOK
  BY SpaceAssumption DEF Init, LimitOK
<1>2. Inv /\ LimitOK /\ [Next]_vars => [CountIsLimited]_vars
  <2> SUFFICES ASSUME Inv, LimitOK, [Next]_vars  PROVE CountIsLimited \/ UNCHANGED vars
    OBVIOUS
  <2>1. mm.map_count \in Int
    BY SumsOfAreas DEF Inv, Good, Kept
  <2>2. ASSUME mm'.map_count = mm.map_count  PROVE CountIsLimited
    BY <2>1, <2>2 DEF CountIsLimited
  <2>3. ASSUME NEW start \in Page, NEW end \in 1..NPages,
               \/ CallMmap(start, end) \/ CallMunmap(start, end) \/ CallBrk(start, end)
               \/ CallMprotect(start, end) \/ CallMremap(start, end) \/ CallMove(start, end)
               \/ CallRemapFilePages(start, end) \/ CallSpecial(start, end)
        PROVE  UNCHANGED mm
    BY <2>3 DEF CallMmap, CallMunmap, CallBrk, CallMprotect, CallMremap, CallMove,
                CallRemapFilePages, CallSpecial, Request, Take
  <2>4. CASE CallExit \/ Return \/ Sysctl
    BY <2>2, <2>4 DEF CallExit, Request, Take, Return, Sysctl
  <2>5. CASE Mmap \/ Munmap \/ Brk \/ Mprotect \/ Mremap \/ Move \/ Exit
    BY <2>5, EffectCounts
  <2>6. CASE Install
    BY <2>6 DEF Install, Effect, CountIsLimited
  <2>7. ASSUME NEW p \in Page, Fault(p)  PROVE mm'.map_count = mm.map_count
    <3>1. \E T, pages : mm' = [mm EXCEPT !.areas = T, !.anon_page = pages]
      BY <2>7, Zenon DEF Fault
    <3> QED  BY <3>1 DEF Inv, Good, Kept, Space
  <2> QED  BY <2>2, <2>3, <2>4, <2>5, <2>6, <2>7 DEF Next
<1> QED  BY <1>1, <1>2, InvHolds, LimitStays, PTL DEF Spec, MapCountIsLimited, CountIsLimited
=============================================================================
