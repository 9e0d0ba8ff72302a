---------------------------- MODULE Sums_proofs ----------------------------
(***************************************************************************)
(* Lemmas about least and greatest numbers and about sums over finite sets, *)
(* for the counters that are kept by increments.  A sum of the community    *)
(* modules adds the elements in an order that CHOOSE picks; it is shown to  *)
(* be the sum in every order, by way of the smallest set of which it would  *)
(* not be.                                                                  *)
(***************************************************************************)
EXTENDS Integers, FiniteSetsExt, FiniteSetTheorems, WellFoundedInduction, TLAPS

-----------------------------------------------------------------------------
(* Least and greatest elements *)

LEMMA LeastNat ==
  ASSUME NEW S, S \subseteq Nat, S # {}
  PROVE  \E m \in S : \A n \in S : m <= n
<1> DEFINE R == {e \in Nat \X Nat : e[1] < e[2]}
<1>1. IsWellFoundedOn(R, Nat)
  BY NatLessThanWellFounded DEF OpToRel
<1>2. \E m \in S : \A n \in S : ~(<<n, m>> \in R)
  <2> HIDE DEF R
  <2> QED  BY <1>1, WFMin
<1>3. ASSUME NEW m \in Nat, NEW n \in Nat, n < m
      PROVE  <<n, m>> \in R
  <2> DEFINE e == <<n, m>>
  <2>1. e \in Nat \X Nat /\ e[1] = n /\ e[2] = m
    OBVIOUS
  <2> HIDE DEF e
  <2>2. e \in R
    BY <1>3, <2>1
  <2> QED  BY <2>2 DEF e
<1> HIDE DEF R
<1>4. PICK m \in S : \A n \in S : ~(<<n, m>> \in R)
  BY <1>2
<1>5. ASSUME NEW n \in S  PROVE m <= n
  <2>1. m \in Nat /\ n \in Nat /\ ~(n < m)
    BY <1>3, <1>4
  <2> QED  BY <2>1
<1> QED  BY <1>4, <1>5

LEMMA GreatestNat ==
  ASSUME NEW S, S \subseteq Nat, S # {}, NEW bound \in Nat, \A n \in S : n <= bound
  PROVE  \E m \in S : \A n \in S : n <= m
<1> DEFINE T == {bound - n : n \in S}
<1>1. T \subseteq Nat /\ T # {}
  <2>1. \A n \in S : bound - n \in Nat
    OBVIOUS
  <2> QED  BY <2>1
<1> HIDE DEF T
<1>2. PICK k \in T : \A j \in T : k <= j
  BY <1>1, LeastNat
<1>3. PICK m \in S : k = bound - m
  BY DEF T
<1>4. \A n \in S : bound - n \in T
  BY DEF T
<1> QED  BY <1>2, <1>3, <1>4

(* Of the finite sets of some kind, one is a smallest.                      *)
LEMMA SmallestSet ==
  ASSUME NEW C, C # {}, \A s \in C : IsFiniteSet(s)
  PROVE  \E s \in C : \A u \in C : ~(u \subseteq s /\ u # s)
<1> DEFINE T == {Cardinality(s) : s \in C}
<1>1. \A s \in C : Cardinality(s) \in Nat
  BY FS_CardinalityType
<1>2. PICK n \in T : \A k \in T : n <= k
  <2>1. T \subseteq Nat /\ T # {}
    BY <1>1
  <2> HIDE DEF T
  <2> QED  BY <2>1, LeastNat
<1>3. PICK s \in C : n = Cardinality(s)
  OBVIOUS
<1>4. ASSUME NEW u \in C, u \subseteq s, u # s  PROVE FALSE
  <2>1. Cardinality(u) <= Cardinality(s) /\ Cardinality(u) # Cardinality(s)
    BY <1>4, FS_Subset
  <2>2. Cardinality(s) <= Cardinality(u)
    BY <1>2, <1>3
  <2> QED  BY <1>1, <2>1, <2>2
<1> QED  BY <1>4

-----------------------------------------------------------------------------
(* Sums.  h is the sum of g over every subset of S.                         *)

IsSum(h, g, S) ==
  /\ h \in [SUBSET S -> Int] /\ h[{}] = 0
  /\ \A s \in SUBSET S : \A x \in s : h[s] = g[x] + h[s \ {x}]

(* What a fold computes that takes the elements as CHOOSE gives them.       *)
IsFold(h, g, S) ==
  \A s \in SUBSET S :
    h[s] = IF s = {} THEN 0 ELSE g[CHOOSE x \in s : TRUE] + h[s \ {CHOOSE x \in s : TRUE}]

SumOf(g, S) == (CHOOSE h : IsSum(h, g, S))[S]

LEMMA SumOfOneMore ==
  ASSUME NEW g, NEW s, NEW x, x \notin s, \A y \in s \cup {x} : g[y] \in Int,
         NEW h, IsSum(h, g, s)
  PROVE  \E f : IsSum(f, g, s \cup {x})
<1> DEFINE T == s \cup {x}
           f == [t \in SUBSET T |-> IF x \in t THEN g[x] + h[t \ {x}] ELSE h[t]]
<1>1. \A t \in SUBSET T : t \ {x} \in SUBSET s /\ (x \notin t => t \in SUBSET s)
  OBVIOUS
<1>2. h \in [SUBSET s -> Int] /\ h[{}] = 0 /\ {} \in SUBSET T
  BY DEF IsSum
<1>3. f \in [SUBSET T -> Int]
  BY <1>1, <1>2
<1>4. f[{}] = 0
  BY <1>2
<1>5. ASSUME NEW t \in SUBSET T, NEW y \in t
      PROVE  f[t] = g[y] + f[t \ {y}]
  <2>1. t \ {y} \in SUBSET T
    OBVIOUS
  <2>2. CASE y = x
    <3>1. f[t] = g[x] + h[t \ {x}] /\ f[t \ {x}] = h[t \ {x}]
      BY <2>1, <2>2
    <3> QED  BY <2>2, <3>1
  <2>3. CASE y # x /\ x \notin t
    <3>1. f[t] = h[t] /\ f[t \ {y}] = h[t \ {y}] /\ t \in SUBSET s
      BY <1>1, <2>1, <2>3
    <3> QED  BY <3>1 DEF IsSum
  <2>4. CASE y # x /\ x \in t
    <3>1. f[t] = g[x] + h[t \ {x}] /\ f[t \ {y}] = g[x] + h[(t \ {y}) \ {x}]
      BY <2>1, <2>4
    <3>2. t \ {x} \in SUBSET s /\ y \in t \ {x} /\ (t \ {x}) \ {y} \in SUBSET s
      BY <1>1, <2>4
    <3>3. h[t \ {x}] = g[y] + h[(t \ {x}) \ {y}]
      BY <3>2 DEF IsSum
    <3>4. (t \ {x}) \ {y} = (t \ {y}) \ {x}
      OBVIOUS
    <3>5. h[t \ {x}] \in Int /\ h[(t \ {x}) \ {y}] \in Int
      BY <1>2, <3>2
    <3>6. g[x] \in Int /\ g[y] \in Int
      BY <2>4
    <3>7. f[t] = g[x] + h[t \ {x}] /\ f[t \ {y}] = g[x] + h[(t \ {x}) \ {y}]
      BY <3>1, <3>4
    <3> HIDE DEF f, T
    <3> QED  BY <3>3, <3>5, <3>6, <3>7
  <2> QED  BY <2>2, <2>3, <2>4
<1> HIDE DEF f
<1>6. IsSum(f, g, T)
  BY <1>3, <1>4, <1>5 DEF IsSum
<1> QED  BY <1>6

(* What can be added up.                                                    *)
Summable(g, S) == IsFiniteSet(S) /\ \A x \in S : g[x] \in Int

LEMMA SummableSubset ==
  ASSUME NEW g, NEW S, Summable(g, S), NEW T, T \subseteq S
  PROVE  Summable(g, T)
BY FS_Subset DEF Summable

LEMMA SumExists ==
  ASSUME NEW g, NEW S, Summable(g, S)
  PROVE  \E h : IsSum(h, g, S)
<1> DEFINE C == {s \in SUBSET S : ~(\E h : IsSum(h, g, s))}
<1> SUFFICES ASSUME C # {}  PROVE FALSE
  <2>1. S \in SUBSET S
    OBVIOUS
  <2> QED  BY <2>1
<1>1. \A s \in C : IsFiniteSet(s)
  BY FS_Subset DEF Summable
<1>2. PICK s \in C : \A u \in C : ~(u \subseteq s /\ u # s)
  <2> HIDE DEF C
  <2> QED  BY <1>1, SmallestSet
<1>3. CASE s = {}
  <2> DEFINE h == [t \in SUBSET s |-> 0]
  <2>1. h \in [SUBSET s -> Int] /\ h[{}] = 0
    OBVIOUS
  <2>2. \A t \in SUBSET s : \A x \in t : h[t] = g[x] + h[t \ {x}]
    BY <1>3
  <2> HIDE DEF h
  <2>3. IsSum(h, g, s)
    BY <2>1, <2>2 DEF IsSum
  <2> QED  BY <1>2, <2>3
<1>4. CASE s # {}
  <2>1. PICK x \in s : TRUE
    BY <1>4
  <2>2. s \ {x} \in SUBSET S /\ s \ {x} \notin C
    BY <1>2
  <2>3. PICK h : IsSum(h, g, s \ {x})
    BY <2>2
  <2>4. (s \ {x}) \cup {x} = s /\ x \notin s \ {x} /\ \A y \in s : g[y] \in Int
    BY DEF Summable
  <2>5. \E f : IsSum(f, g, s)
    <3>1. \A y \in (s \ {x}) \cup {x} : g[y] \in Int
      BY <2>4
    <3>2. \E f : IsSum(f, g, (s \ {x}) \cup {x})
      BY <2>3, <2>4, <3>1, SumOfOneMore
    <3> QED  BY <2>4, <3>2
  <2> QED  BY <1>2, <2>5
<1> QED  BY <1>3, <1>4

LEMMA SumIsFold ==
  ASSUME NEW g, NEW S, NEW h, IsSum(h, g, S)
  PROVE  IsFold(h, g, S)
<1> SUFFICES ASSUME NEW s \in SUBSET S
             PROVE  h[s] = IF s = {} THEN 0
                           ELSE g[CHOOSE x \in s : TRUE] + h[s \ {CHOOSE x \in s : TRUE}]
  BY DEF IsFold
<1>1. CASE s = {}
  BY <1>1 DEF IsSum
<1>2. CASE s # {}
  <2> DEFINE x == CHOOSE y \in s : TRUE
  <2>1. x \in s
    BY <1>2
  <2>2. h[s] = g[x] + h[s \ {x}]
    BY <2>1 DEF IsSum
  <2> QED  BY <1>2, <2>2
<1> QED  BY <1>1, <1>2

(* The order does not matter: a fold is the sum.                            *)
LEMMA FoldsAgree ==
  ASSUME NEW g, NEW S, IsFiniteSet(S), NEW h, IsFold(h, g, S), NEW k, IsFold(k, g, S)
  PROVE  h[S] = k[S]
<1> DEFINE C == {s \in SUBSET S : h[s] # k[s]}
<1> SUFFICES ASSUME C # {}  PROVE FALSE
  <2>1. S \in SUBSET S
    OBVIOUS
  <2> QED  BY <2>1
<1>1. \A s \in C : IsFiniteSet(s)
  BY FS_Subset
<1>2. PICK s \in C : \A u \in C : ~(u \subseteq s /\ u # s)
  <2> HIDE DEF C
  <2> QED  BY <1>1, SmallestSet
<1>3. s # {}
  BY <1>2 DEF IsFold
<1> DEFINE x == CHOOSE y \in s : TRUE
<1>4. x \in s
  BY <1>3
<1>5. h[s] = g[x] + h[s \ {x}] /\ k[s] = g[x] + k[s \ {x}]
  BY <1>3 DEF IsFold
<1>6. h[s \ {x}] = k[s \ {x}]
  <2>1. s \ {x} \in SUBSET S /\ s \ {x} \subseteq s /\ s \ {x} # s
    BY <1>4
  <2> HIDE DEF x
  <2> QED  BY <1>2, <2>1
<1> HIDE DEF x
<1>7. h[s] = k[s]
  BY <1>5, <1>6
<1> QED  BY <1>7

LEMMA FoldIsSumOf ==
  ASSUME NEW g, NEW S, Summable(g, S), NEW k, IsFold(k, g, S)
  PROVE  k[S] = SumOf(g, S)
<1> DEFINE h == CHOOSE f : IsSum(f, g, S)
<1>1. IsSum(h, g, S)
  BY SumExists
<1>2. SumOf(g, S) = h[S]
  BY DEF SumOf
<1> HIDE DEF h
<1>3. IsFold(h, g, S)
  BY <1>1, SumIsFold
<1> QED  BY <1>2, <1>3, FoldsAgree DEF Summable

LEMMA SumIsSumOf ==
  ASSUME NEW g, NEW S, Summable(g, S), NEW h, IsSum(h, g, S), NEW T, T \subseteq S
  PROVE  h[T] = SumOf(g, T)
<1>1. Summable(g, T)
  BY SummableSubset
<1>2. IsFold(h, g, T)
  <2>1. IsFold(h, g, S)
    BY SumIsFold
  <2>2. \A s \in SUBSET T : s \in SUBSET S
    OBVIOUS
  <2> QED  BY <2>1, <2>2 DEF IsFold
<1> QED  BY <1>1, <1>2, FoldIsSumOf

LEMMA SumOfNone ==
  ASSUME NEW g
  PROVE  SumOf(g, {}) = 0
<1>1. Summable(g, {})
  BY FS_EmptySet DEF Summable
<1>2. PICK h : IsSum(h, g, {})
  BY <1>1, SumExists
<1>3. h[{}] = 0
  BY <1>2 DEF IsSum
<1>4. h[{}] = SumOf(g, {})
  BY <1>1, <1>2, SumIsSumOf
<1> QED  BY <1>3, <1>4

LEMMA SumIsInt ==
  ASSUME NEW g, NEW S, Summable(g, S)
  PROVE  SumOf(g, S) \in Int
<1>1. PICK h : IsSum(h, g, S)
  BY SumExists
<1>2. h[S] \in Int
  BY <1>1 DEF IsSum
<1> QED  BY <1>1, <1>2, SumIsSumOf

LEMMA SumWithout ==
  ASSUME NEW g, NEW S, Summable(g, S), NEW x \in S
  PROVE  SumOf(g, S) = g[x] + SumOf(g, S \ {x})
<1>1. PICK h : IsSum(h, g, S)
  BY SumExists
<1>2. h[S] = g[x] + h[S \ {x}]
  BY <1>1 DEF IsSum
<1>3. h[S] = SumOf(g, S) /\ h[S \ {x}] = SumOf(g, S \ {x})
  BY <1>1, SumIsSumOf
<1> QED  BY <1>2, <1>3

LEMMA SumWith ==
  ASSUME NEW g, NEW S, Summable(g, S), NEW x, x \notin S, g[x] \in Int
  PROVE  /\ Summable(g, S \cup {x})
         /\ SumOf(g, S \cup {x}) = g[x] + SumOf(g, S)
<1>1. Summable(g, S \cup {x})
  BY FS_AddElement DEF Summable
<1>2. (S \cup {x}) \ {x} = S /\ x \in S \cup {x}
  OBVIOUS
<1>3. SumOf(g, S \cup {x}) = g[x] + SumOf(g, (S \cup {x}) \ {x})
  <2> DEFINE T == S \cup {x}
  <2>1. Summable(g, T) /\ x \in T
    BY <1>1
  <2> HIDE DEF T
  <2>2. SumOf(g, T) = g[x] + SumOf(g, T \ {x})
    BY <2>1, SumWithout
  <2> QED  BY <2>2 DEF T
<1> QED  BY <1>1, <1>2, <1>3

LEMMA SumOfSame ==
  ASSUME NEW g, NEW k, NEW S, Summable(g, S), \A x \in S : g[x] = k[x]
  PROVE  Summable(k, S) /\ SumOf(g, S) = SumOf(k, S)
<1>1. Summable(k, S)
  BY DEF Summable
<1>2. PICK h : IsSum(h, g, S)
  BY SumExists
<1>3. IsSum(h, k, S)
  <2>1. \A s \in SUBSET S : \A x \in s : g[x] = k[x]
    OBVIOUS
  <2> QED  BY <1>2, <2>1 DEF IsSum
<1> QED  BY <1>1, <1>2, <1>3, SumIsSumOf

(* Two sets that share nothing.                                             *)
LEMMA SumOfBoth ==
  ASSUME NEW g, NEW S, NEW T, Summable(g, S \cup T), S \cap T = {}
  PROVE  SumOf(g, S \cup T) = SumOf(g, S) + SumOf(g, T)
<1> DEFINE C == {s \in SUBSET S : SumOf(g, s \cup T) # SumOf(g, s) + SumOf(g, T)}
<1> SUFFICES ASSUME C # {}  PROVE FALSE
  <2>1. S \in SUBSET S
    OBVIOUS
  <2> QED  BY <2>1
<1>1. IsFiniteSet(S) /\ Summable(g, T) /\ \A s \in SUBSET S : Summable(g, s) /\ Summable(g, s \cup T)
  <2>1. Summable(g, S) /\ Summable(g, T)
    BY SummableSubset
  <2>2. \A s \in SUBSET S : Summable(g, s) /\ Summable(g, s \cup T)
    BY SummableSubset
  <2> QED  BY <2>1, <2>2 DEF Summable
<1>2. PICK s \in C : \A u \in C : ~(u \subseteq s /\ u # s)
  <2>1. \A s \in C : IsFiniteSet(s)
    BY <1>1, FS_Subset
  <2> HIDE DEF C
  <2> QED  BY <2>1, SmallestSet
<1>3. s \in SUBSET S /\ SumOf(g, s \cup T) # SumOf(g, s) + SumOf(g, T)
  BY <1>2
<1>4. SumOf(g, T) \in Int
  BY <1>1, SumIsInt
<1>5. CASE s = {}
  <2>1. s \cup T = T
    BY <1>5
  <2> QED  BY <1>3, <1>4, <1>5, <2>1, SumOfNone
<1>6. CASE s # {}
  <2>1. PICK x \in s : TRUE
    BY <1>6
  <2>2. SumOf(g, (s \ {x}) \cup T) = SumOf(g, s \ {x}) + SumOf(g, T)
    BY <1>2
  <2>3. (s \cup T) \ {x} = (s \ {x}) \cup T /\ x \in s \cup T
    BY <1>3
  <2>4. SumOf(g, s \cup T) = g[x] + SumOf(g, (s \ {x}) \cup T)
    <3>1. SumOf(g, s \cup T) = g[x] + SumOf(g, (s \cup T) \ {x})
      BY <1>1, <1>3, <2>3, SumWithout
    <3> QED  BY <2>3, <3>1
  <2>5. SumOf(g, s) = g[x] + SumOf(g, s \ {x})
    BY <1>1, <1>3, SumWithout
  <2>6. g[x] \in Int /\ SumOf(g, s \ {x}) \in Int
    <3>1. s \ {x} \in SUBSET S
      BY <1>3
    <3> QED  BY <1>1, <1>3, <3>1, SumIsInt DEF Summable
  <2> QED  BY <1>3, <1>4, <2>2, <2>4, <2>5, <2>6
<1> QED  BY <1>5, <1>6

LEMMA SumIsNat ==
  ASSUME NEW g, NEW S, Summable(g, S), \A x \in S : g[x] >= 0
  PROVE  SumOf(g, S) \in Nat
<1> DEFINE C == {s \in SUBSET S : SumOf(g, s) \notin Nat}
<1> SUFFICES ASSUME C # {}  PROVE FALSE
  <2>1. S \in SUBSET S
    OBVIOUS
  <2> QED  BY <2>1
<1>1. IsFiniteSet(S) /\ \A s \in SUBSET S : Summable(g, s)
  BY SummableSubset DEF Summable
<1>2. PICK s \in C : \A u \in C : ~(u \subseteq s /\ u # s)
  <2>1. \A s \in C : IsFiniteSet(s)
    BY <1>1, FS_Subset
  <2> HIDE DEF C
  <2> QED  BY <2>1, SmallestSet
<1>3. s \in SUBSET S /\ SumOf(g, s) \notin Nat
  BY <1>2
<1>4. CASE s = {}
  BY <1>3, <1>4, SumOfNone
<1>5. CASE s # {}
  <2>1. PICK x \in s : TRUE
    BY <1>5
  <2>2. SumOf(g, s \ {x}) \in Nat
    <3>1. s \ {x} \in SUBSET S /\ s \ {x} \subseteq s /\ s \ {x} # s
      BY <1>3, <2>1
    <3>2. s \ {x} \notin C
      BY <1>2, <3>1
    <3> QED  BY <3>1, <3>2
  <2>3. SumOf(g, s) = g[x] + SumOf(g, s \ {x})
    BY <1>1, <1>3, SumWithout
  <2>4. g[x] \in Int /\ g[x] >= 0
    BY <1>1, <1>3 DEF Summable
  <2> QED  BY <1>3, <2>2, <2>3, <2>4
<1> QED  BY <1>4, <1>5

-----------------------------------------------------------------------------
(* Sums over few elements, and sums that count.                             *)

LEMMA SumOfOne ==
  ASSUME NEW g, NEW a, g[a] \in Int
  PROVE  Summable(g, {a}) /\ SumOf(g, {a}) = g[a]
<1>1. Summable(g, {})
  BY FS_EmptySet DEF Summable
<1>2. Summable(g, {} \cup {a}) /\ SumOf(g, {} \cup {a}) = g[a] + SumOf(g, {})
  BY <1>1, SumWith
<1>3. {} \cup {a} = {a} /\ SumOf(g, {}) = 0
  BY SumOfNone
<1> QED  BY <1>2, <1>3

LEMMA SumOfTwo ==
  ASSUME NEW g, NEW a, NEW b, a # b, g[a] \in Int, g[b] \in Int
  PROVE  Summable(g, {a, b}) /\ SumOf(g, {a, b}) = g[a] + g[b]
<1>1. Summable(g, {a}) /\ SumOf(g, {a}) = g[a]
  BY SumOfOne
<1>2. b \notin {a} /\ {a} \cup {b} = {a, b}
  OBVIOUS
<1>3. Summable(g, {a} \cup {b}) /\ SumOf(g, {a} \cup {b}) = g[b] + SumOf(g, {a})
  BY <1>1, <1>2, SumWith
<1> QED  BY <1>1, <1>2, <1>3

LEMMA SumOfZeros ==
  ASSUME NEW g, NEW S, IsFiniteSet(S), \A x \in S : g[x] = 0
  PROVE  Summable(g, S) /\ SumOf(g, S) = 0
<1> DEFINE h == [s \in SUBSET S |-> 0]
<1>1. IsSum(h, g, S)
  <2>1. h \in [SUBSET S -> Int] /\ h[{}] = 0
    OBVIOUS
  <2>2. \A s \in SUBSET S : \A x \in s : h[s] = g[x] + h[s \ {x}]
    OBVIOUS
  <2> HIDE DEF h
  <2> QED  BY <2>1, <2>2 DEF IsSum
<1>2. Summable(g, S) /\ h[S] = 0
  BY DEF Summable
<1> HIDE DEF h
<1>3. h[S] = SumOf(g, S)
  BY <1>1, <1>2, SumIsSumOf
<1> QED  BY <1>2, <1>3

LEMMA SumOfOnes ==
  ASSUME NEW g, NEW S, IsFiniteSet(S), \A x \in S : g[x] = 1
  PROVE  Summable(g, S) /\ SumOf(g, S) = Cardinality(S)
<1> DEFINE C == {s \in SUBSET S : SumOf(g, s) # Cardinality(s)}
<1>0. \A s \in SUBSET S : Summable(g, s) /\ IsFiniteSet(s) /\ Cardinality(s) \in Nat
  BY FS_Subset, FS_CardinalityType DEF Summable
<1>1. ASSUME C # {}  PROVE FALSE
  <2>1. PICK s \in C : \A u \in C : ~(u \subseteq s /\ u # s)
    <3>1. \A s \in C : IsFiniteSet(s)
      BY <1>0
    <3> HIDE DEF C
    <3> QED  BY <1>1, <3>1, SmallestSet
  <2>2. s \in SUBSET S /\ SumOf(g, s) # Cardinality(s)
    BY <2>1
  <2>3. s # {}
    BY <2>2, SumOfNone, FS_EmptySet
  <2>4. PICK x \in s : TRUE
    BY <2>3
  <2>5. SumOf(g, s \ {x}) = Cardinality(s \ {x})
    <3>1. s \ {x} \in SUBSET S /\ s \ {x} \subseteq s /\ s \ {x} # s
      BY <2>2, <2>4
    <3>2. s \ {x} \notin C
      BY <2>1, <3>1
    <3> QED  BY <3>1, <3>2
  <2>6. SumOf(g, s) = g[x] + SumOf(g, s \ {x})
    BY <1>0, <2>2, <2>4, SumWithout
  <2>7. Cardinality(s \ {x}) = Cardinality(s) - 1
    BY <1>0, <2>2, <2>4, FS_RemoveElement
  <2>8. g[x] = 1 /\ Cardinality(s) \in Nat
    BY <1>0, <2>2, <2>4
  <2> QED  BY <2>2, <2>5, <2>6, <2>7, <2>8
<1>2. S \in SUBSET S
  OBVIOUS
<1>3. ~(SumOf(g, S) # Cardinality(S))
  BY <1>1, <1>2
<1>4. Summable(g, S)
  BY <1>0, <1>2
<1> QED  BY <1>3, <1>4

(* A sum of ones and zeros counts the ones.                                 *)
LEMMA SumCounts ==
  ASSUME NEW g, NEW S, IsFiniteSet(S), NEW T, T \subseteq S,
         \A x \in T : g[x] = 1, \A x \in S \ T : g[x] = 0
  PROVE  Summable(g, S) /\ SumOf(g, S) = Cardinality(T)
<1> DEFINE zeros == S \ T
<1>1. IsFiniteSet(T) /\ IsFiniteSet(zeros) /\ S = T \cup zeros /\ T \cap zeros = {}
  BY FS_Subset
<1>2. Summable(g, T) /\ SumOf(g, T) = Cardinality(T)
  BY <1>1, SumOfOnes
<1>3. SumOf(g, zeros) = 0
  BY <1>1, SumOfZeros
<1>4. Summable(g, S)
  <2>1. \A x \in S : g[x] = 1 \/ g[x] = 0
    OBVIOUS
  <2> QED  BY <2>1 DEF Summable
<1> HIDE DEF zeros
<1>5. SumOf(g, T \cup zeros) = SumOf(g, T) + SumOf(g, zeros)
  <2>1. Summable(g, T \cup zeros)
    BY <1>1, <1>4
  <2> QED  BY <1>1, <2>1, SumOfBoth
<1>6. Cardinality(T) \in Nat
  BY <1>1, FS_CardinalityType
<1> QED  BY <1>1, <1>2, <1>3, <1>4, <1>5, <1>6

(* Some elements make way for others.                                       *)
LEMMA SumExchanged ==
  ASSUME NEW g, NEW S, Summable(g, S), NEW old, old \subseteq S,
         NEW new, Summable(g, new), new \cap (S \ old) = {}
  PROVE  /\ Summable(g, (S \ old) \cup new)
         /\ SumOf(g, (S \ old) \cup new) = SumOf(g, S) - SumOf(g, old) + SumOf(g, new)
<1> DEFINE kept == S \ old
<1>1. Summable(g, kept) /\ Summable(g, old) /\ kept \cup old = S /\ kept \cap old = {}
      /\ kept \cap new = {}
  <2>1. kept \subseteq S
    OBVIOUS
  <2> QED  BY <2>1, SummableSubset
<1> HIDE DEF kept
<1>2. Summable(g, kept \cup new)
  <2>1. IsFiniteSet(kept \cup new)
    BY <1>1, FS_Union DEF Summable
  <2> QED  BY <1>1, <2>1 DEF Summable
<1>3. SumOf(g, kept \cup new) = SumOf(g, kept) + SumOf(g, new)
  BY <1>1, <1>2, SumOfBoth
<1>4. SumOf(g, S) = SumOf(g, kept) + SumOf(g, old)
  <2>1. Summable(g, kept \cup old)
    BY <1>1
  <2> QED  BY <1>1, <2>1, SumOfBoth
<1>5. SumOf(g, kept) \in Int /\ SumOf(g, old) \in Int /\ SumOf(g, new) \in Int
  BY <1>1, SumIsInt
<1> QED  BY <1>2, <1>3, <1>4, <1>5 DEF kept
=============================================================================
