----------------------- MODULE SyscallCounters_proofs -----------------------
(***************************************************************************)
(* Proofs about SyscallCounters, for every finite set of tasks and every   *)
(* bound.                                                                  *)
(*                                                                         *)
(* A call that has not stored its count yet is made already, so the count  *)
(* and the calls still on their way to it never exceed the calls made; the *)
(* tasks that have found no counters and not allocated them yet, together  *)
(* with the arrays there are, never exceed the tasks.                      *)
(***************************************************************************)
EXTENDS SyscallCounters, FiniteSetTheorems, TLAPS

TrackPcs == {"count_load", "count_store", "get_time", "store_sec", "store_nsec"}
StatPcs  == {"stat_test", "stat_alloc", "stat_retest", "stat_copy"}
Codes    == {"0", "EFAULT", "EFAULT_kernel", "ENOMEM"}

Types ==
  /\ syscall_counters \in Arrays \cup {NULL}
  /\ allocs \in 0..MaxArrays /\ failures \in Nat
  /\ count \in [Arrays -> [Index -> Nat]]
  /\ clock \in Nat
  /\ pc \in [Tasks -> Pcs]
  /\ nr \in [Tasks -> Nat]
  /\ ptr \in [Tasks -> Arrays \cup {NULL}]
  /\ reg \in [Tasks -> Nat]
  /\ ret \in [Tasks -> Codes]
  /\ made \in [{0, 1, 2, 56} -> Nat]

(* A task is where its call and its pointer let it be. *)
InCall ==
  \A t \in Tasks :
    /\ pc[t] \in TrackPcs => Entry(t) \in Index
    /\ pc[t] \in StatPcs => nr[t] = Statistics
    /\ pc[t] \in {"count_store", "store_nsec"} => ptr[t] # NULL

(* Until kzalloc() fails, the pointer is set once there is an array, and so *)
(* is that of every task past its test.                                     *)
PointerIsSet ==
  failures = 0 =>
    /\ allocs > 0 => syscall_counters # NULL
    /\ \A t \in Tasks :
         /\ pc[t] \in TrackPcs \cup {"stat_copy"} => ptr[t] # NULL
         /\ pc[t] \in TrackPcs \cup {"stat_retest", "stat_copy"} => syscall_counters # NULL

(* The tasks about to allocate. *)
Allocators == {t \in Tasks : pc[t] = "stat_alloc"}

ArraysPlusAllocators ==
  failures = 0 /\ allocs > 0 => allocs + Cardinality(Allocators) <= Cardinality(Tasks)

(* The tasks whose call of entry i is made and not counted yet. *)
OnTheWay(i) ==
  {t \in Tasks : /\ pc[t] \in {"track_test", "count_load", "count_store"}
                 /\ nr[t] = syscall_whitelist[i]}

CountsPlusOnTheWay ==
  \A i \in Index :
    /\ \A a \in Arrays :
         count[a][i] + Cardinality(OnTheWay(i)) <= made[syscall_whitelist[i]]
    /\ \A t \in OnTheWay(i) :
         pc[t] = "count_store" =>
           reg[t] + Cardinality(OnTheWay(i)) <= made[syscall_whitelist[i]]

IInv ==
  /\ Types /\ InCall /\ PointerIsSet /\ NullIsNeverUsed
  /\ ArraysPlusAllocators /\ CountsPlusOnTheWay

-----------------------------------------------------------------------------
(* The whitelist, entry by entry. *)
LEMMA Whitelist ==
  /\ Index = {0, 1, 2, 3}
  /\ syscall_whitelist[0] = 0 /\ syscall_whitelist[1] = 1
  /\ syscall_whitelist[2] = 2 /\ syscall_whitelist[3] = 56
<1>1. Index = {0, 1, 2, 3}  BY DEF Index
<1>2. \A i \in Index : syscall_whitelist[i] =
        CASE i = 0 -> 0 [] i = 1 -> 1 [] i = 2 -> 2 [] OTHER -> 56
  BY DEF syscall_whitelist
<1>3. syscall_whitelist[0] = 0 /\ syscall_whitelist[1] = 1 /\ syscall_whitelist[2] = 2
  BY <1>1, <1>2
<1>4. syscall_whitelist[3] = 56  BY <1>1, <1>2
<1>5. QED  BY <1>1, <1>3, <1>4

(* A number has the index at which the whitelist holds it, or none. *)
LEMMA TrackedIndex ==
  ASSUME NEW id
  PROVE  /\ syscall_tracked_index(id) \in Index \cup {-1}
         /\ \A i \in Index : syscall_whitelist[i] = id <=> syscall_tracked_index(id) = i
<1>1. CASE \E i \in Index : syscall_whitelist[i] = id
  <2> DEFINE c == CHOOSE i \in Index : syscall_whitelist[i] = id
  <2>1. c \in Index /\ syscall_whitelist[c] = id
    BY <1>1
  <2>2. syscall_tracked_index(id) = c
    BY <1>1 DEF syscall_tracked_index, Counted
  <2> HIDE DEF c
  <2>3. \A i \in Index, j \in Index : syscall_whitelist[i] = syscall_whitelist[j] => i = j
    BY Whitelist
  <2>4. QED  BY <2>1, <2>2, <2>3
<1>2. CASE ~ \E i \in Index : syscall_whitelist[i] = id
  <2>1. syscall_tracked_index(id) = -1
    BY <1>2 DEF syscall_tracked_index, Counted
  <2>2. QED  BY <1>2, <2>1, Whitelist
<1>3. QED  BY <1>1, <1>2

(* Whitelisted numbers are counted, and the statistics call is not one. *)
LEMMA WhitelistIsCounted ==
  /\ \A i \in Index : Counted(syscall_whitelist[i])
  /\ \A i \in Index : syscall_whitelist[i] \in {0, 1, 2, 56}
  /\ \A i \in Index : syscall_whitelist[i] # Statistics
  /\ \A n : Counted(n) => n \in {0, 1, 2, 56}
<1>1. \A i \in Index : Counted(syscall_whitelist[i])
  BY DEF Counted
<1>2. \A i \in Index : syscall_whitelist[i] \in {0, 1, 2, 56}
  BY Whitelist
<1>3. \A n : Counted(n) => n \in {0, 1, 2, 56}
  BY <1>2 DEF Counted
<1>4. QED  BY <1>1, <1>2, <1>3, CountersAssumption

-----------------------------------------------------------------------------
(* Storing one count changes one entry of one array. *)
LEMMA CountUpdated ==
  ASSUME NEW f \in [Arrays -> [Index -> Nat]], NEW a \in Arrays, NEW i \in Index,
         NEW v \in Nat
  PROVE  /\ [f EXCEPT ![a][i] = v] \in [Arrays -> [Index -> Nat]]
         /\ \A b \in Arrays, j \in Index :
              [f EXCEPT ![a][i] = v][b][j] = IF b = a /\ j = i THEN v ELSE f[b][j]
  OBVIOUS

(* The initial states satisfy the invariant. *)
LEMMA InitIInv == Init => IInv
<1> SUFFICES ASSUME Init PROVE IInv
  OBVIOUS
<1>1. Types
  BY CountersAssumption, SMT DEF Init, Types, Codes, Pcs, NULL
<1>2. InCall /\ PointerIsSet /\ NullIsNeverUsed /\ ArraysPlusAllocators
  BY DEF Init, InCall, PointerIsSet, NullIsNeverUsed, ArraysPlusAllocators, TrackPcs, StatPcs
<1>3. CountsPlusOnTheWay
  <2>1. \A i \in Index : OnTheWay(i) = {}
    BY DEF Init, OnTheWay
  <2>2. \A i \in Index, a \in Arrays : count[a][i] = 0 /\ made[syscall_whitelist[i]] = 0
    BY WhitelistIsCounted DEF Init
  <2>3. \A i \in Index : Cardinality(OnTheWay(i)) = 0
    BY <2>1, FS_EmptySet
  <2>4. QED  BY <2>1, <2>2, <2>3 DEF CountsPlusOnTheWay
<1>4. QED  BY <1>1, <1>2, <1>3 DEF IInv

-----------------------------------------------------------------------------
(* Every step keeps the types. *)
LEMMA StepTypes ==
  ASSUME IInv, [Next]_vars
  PROVE  Types'
<1> USE DEF IInv, Types, pointer, history, Go
<1>1. CASE UNCHANGED vars
  BY <1>1 DEF vars
<1>2. ASSUME NEW t \in Tasks, NEW n \in Numbers, do_syscall_64(t, n)
      PROVE  Types'
  BY <1>2, CountersAssumption, WhitelistIsCounted DEF do_syscall_64, Pcs
<1>3. ASSUME NEW t \in Tasks, TrackTest(t)
      PROVE  Types'
  BY <1>3 DEF TrackTest, Pcs
<1>4. ASSUME NEW t \in Tasks, CountLoad(t)
      PROVE  Types'
  <2>1. Entry(t) \in Index
    BY <1>4 DEF CountLoad, InCall, TrackPcs
  <2>2. QED  BY <1>4, <2>1 DEF CountLoad, Loaded, Pcs, NULL
<1>5. ASSUME NEW t \in Tasks, CountStore(t)
      PROVE  Types'
  <2>1. Entry(t) \in Index /\ ptr[t] \in Arrays
    BY <1>5 DEF CountStore, InCall, TrackPcs
  <2>2. count' \in [Arrays -> [Index -> Nat]]
    BY <1>5, <2>1, CountUpdated DEF CountStore
  <2>3. QED  BY <1>5, <2>2 DEF CountStore, Pcs
<1>6. ASSUME NEW t \in Tasks, GetTime(t)
      PROVE  Types'
  BY <1>6 DEF GetTime, Pcs
<1>7. ASSUME NEW t \in Tasks, StoreSec(t)
      PROVE  Types'
  BY <1>7 DEF StoreSec, Loaded, Pcs
<1>8. ASSUME NEW t \in Tasks, StoreNsec(t)
      PROVE  Types'
  BY <1>8 DEF StoreNsec, Pcs
<1>9. ASSUME NEW t \in Tasks, StatTest(t)
      PROVE  Types'
  BY <1>9 DEF StatTest, Pcs
<1>10. ASSUME NEW t \in Tasks, StatAlloc(t)
       PROVE  Types'
  BY <1>10, CountersAssumption DEF StatAlloc, Pcs, Arrays
<1>11. ASSUME NEW t \in Tasks, StatAllocFails(t)
       PROVE  Types'
  BY <1>11 DEF StatAllocFails, Pcs
<1>12. ASSUME NEW t \in Tasks, StatRetest(t)
       PROVE  Types'
  BY <1>12 DEF StatRetest, Answer, Pcs, Codes
<1>13. ASSUME NEW t \in Tasks, StatCopy(t)
       PROVE  Types'
  BY <1>13 DEF StatCopy, Answer, Pcs, Codes
<1>14. QED
  BY <1>1, <1>2, <1>3, <1>4, <1>5, <1>6, <1>7, <1>8, <1>9, <1>10, <1>11, <1>12, <1>13
  DEF Next, Step

(* The test in track_syscall() and in the statistics call keeps tasks off   *)
(* the NULL pointer.                                                        *)
LEMMA StepPointers ==
  ASSUME IInv, [Next]_vars
  PROVE  (InCall /\ PointerIsSet /\ NullIsNeverUsed)'
<1> DEFINE Safe == InCall /\ PointerIsSet /\ NullIsNeverUsed
<1> USE DEF IInv, Types, pointer, history, Go, InCall, PointerIsSet, NullIsNeverUsed,
            TrackPcs, StatPcs, Entry
<1>1. CASE UNCHANGED vars
  BY <1>1 DEF vars
<1>2. ASSUME NEW t \in Tasks, NEW n \in Numbers, do_syscall_64(t, n)
      PROVE  Safe'
  BY <1>2, CountersAssumption DEF do_syscall_64
<1>3. ASSUME NEW t \in Tasks, TrackTest(t)
      PROVE  Safe'
  <2>1. Entry(t) \in Index \cup {-1}
    BY TrackedIndex
  <2>2. QED  BY <1>3, <2>1 DEF TrackTest, TakesNoNote
<1>4. ASSUME NEW t \in Tasks, CountLoad(t)
      PROVE  Safe'
  BY <1>4 DEF CountLoad, Loaded
<1>5. ASSUME NEW t \in Tasks, CountStore(t)
      PROVE  Safe'
  BY <1>5 DEF CountStore
<1>6. ASSUME NEW t \in Tasks, GetTime(t)
      PROVE  Safe'
  BY <1>6 DEF GetTime
<1>7. ASSUME NEW t \in Tasks, StoreSec(t)
      PROVE  Safe'
  BY <1>7 DEF StoreSec, Loaded
<1>8. ASSUME NEW t \in Tasks, StoreNsec(t)
      PROVE  Safe'
  BY <1>8 DEF StoreNsec
<1>9. ASSUME NEW t \in Tasks, StatTest(t)
      PROVE  Safe'
  BY <1>9 DEF StatTest
<1>10. ASSUME NEW t \in Tasks, StatAlloc(t)
       PROVE  Safe'
  BY <1>10 DEF StatAlloc, NULL
<1>11. ASSUME NEW t \in Tasks, StatAllocFails(t)
       PROVE  Safe'
  BY <1>11 DEF StatAllocFails
<1>12. ASSUME NEW t \in Tasks, StatRetest(t)
       PROVE  Safe'
  BY <1>12 DEF StatRetest, Answer
<1>13. ASSUME NEW t \in Tasks, StatCopy(t)
       PROVE  Safe'
  BY <1>13 DEF StatCopy, Answer, Loaded
<1>14. QED
  BY <1>1, <1>2, <1>3, <1>4, <1>5, <1>6, <1>7, <1>8, <1>9, <1>10, <1>11, <1>12, <1>13
  DEF Next, Step

-----------------------------------------------------------------------------
(* The arrays there are and the tasks about to allocate: only the first     *)
(* array may find more than one of them.                                    *)
LEMMA StepArrays ==
  ASSUME IInv, [Next]_vars
  PROVE  ArraysPlusAllocators'
<1> USE DEF IInv, Types
<1>1. /\ IsFiniteSet(Allocators) /\ Cardinality(Allocators) \in Nat
      /\ Cardinality(Tasks) \in Nat /\ Cardinality(Allocators) <= Cardinality(Tasks)
  BY FS_Subset, FS_CardinalityType, CountersAssumption DEF Allocators
<1>2. ASSUME Allocators' = Allocators, UNCHANGED <<allocs, failures>>
      PROVE  ArraysPlusAllocators'
  BY <1>2 DEF ArraysPlusAllocators
<1>3. CASE UNCHANGED vars
  BY <1>2, <1>3 DEF vars, pointer, Allocators
<1>4. ASSUME NEW t \in Tasks, NEW n \in Numbers, do_syscall_64(t, n)
      PROVE  ArraysPlusAllocators'
  <2>1. Allocators' = Allocators
    BY <1>4 DEF do_syscall_64, Go, Allocators
  <2>2. QED  BY <1>2, <1>4, <2>1 DEF do_syscall_64, pointer
<1>5. ASSUME NEW t \in Tasks,
             \/ TrackTest(t) \/ CountLoad(t) \/ CountStore(t) \/ GetTime(t)
             \/ StoreSec(t) \/ StoreNsec(t) \/ StatRetest(t) \/ StatCopy(t)
      PROVE  ArraysPlusAllocators'
  <2>1. /\ pc[t] # "stat_alloc" /\ pc'[t] # "stat_alloc"
        /\ \A u \in Tasks \ {t} : pc'[u] = pc[u]
        /\ UNCHANGED <<allocs, failures>>
    BY <1>5 DEF TrackTest, CountLoad, CountStore, GetTime, StoreSec, StoreNsec, StatRetest,
                StatCopy, Answer, Go, pointer
  <2>2. Allocators' = Allocators
    BY <2>1 DEF Allocators
  <2>3. QED  BY <1>2, <2>1, <2>2
<1>6. ASSUME NEW t \in Tasks, StatTest(t)
      PROVE  ArraysPlusAllocators'
  <2>1. CASE syscall_counters = NULL
    BY <1>6, <2>1 DEF StatTest, pointer, PointerIsSet, ArraysPlusAllocators
  <2>2. CASE syscall_counters # NULL
    <3>1. Allocators' = Allocators
      BY <1>6, <2>2 DEF StatTest, Go, Allocators
    <3>2. QED  BY <1>2, <1>6, <3>1 DEF StatTest, pointer
  <2>3. QED  BY <2>1, <2>2
<1>7. ASSUME NEW t \in Tasks, StatAlloc(t)
      PROVE  ArraysPlusAllocators'
  <2>1. t \in Allocators /\ Allocators' = Allocators \ {t}
    BY <1>7 DEF StatAlloc, Go, Allocators
  <2>2. Cardinality(Allocators') = Cardinality(Allocators) - 1
    BY <1>1, <2>1, FS_RemoveElement
  <2>3. allocs' = allocs + 1 /\ failures' = failures /\ allocs \in Nat
    BY <1>7, CountersAssumption DEF StatAlloc
  <2>4. QED  BY <1>1, <2>2, <2>3 DEF ArraysPlusAllocators
<1>8. ASSUME NEW t \in Tasks, StatAllocFails(t)
      PROVE  ArraysPlusAllocators'
  BY <1>8 DEF StatAllocFails, ArraysPlusAllocators
<1>9. QED  BY <1>3, <1>4, <1>5, <1>6, <1>7, <1>8 DEF Next, Step

-----------------------------------------------------------------------------
(* The counts and the calls on their way. *)
LEMMA OnTheWayFinite ==
  \A i \in Index : IsFiniteSet(OnTheWay(i)) /\ Cardinality(OnTheWay(i)) \in Nat
BY FS_Subset, FS_CardinalityType, CountersAssumption DEF OnTheWay

(* A call that gets no further than it was, or leaves, changes nothing.     *)
LEMMA NobodyCounts ==
  ASSUME IInv, UNCHANGED <<count, made, reg>>,
         \A i \in Index : OnTheWay(i)' \subseteq OnTheWay(i),
         \A t \in Tasks : pc'[t] = "count_store" => pc[t] = "count_store"
  PROVE  CountsPlusOnTheWay'
<1>1. \A i \in Index : /\ Cardinality(OnTheWay(i)') \in Nat
                       /\ Cardinality(OnTheWay(i)') <= Cardinality(OnTheWay(i))
  BY OnTheWayFinite, FS_Subset, FS_CardinalityType
<1>2. \A i \in Index : OnTheWay(i) \subseteq Tasks /\ syscall_whitelist[i] \in {0, 1, 2, 56}
  BY WhitelistIsCounted DEF OnTheWay
<1>3. ASSUME NEW i \in Index, NEW a \in Arrays
      PROVE  count'[a][i] + Cardinality(OnTheWay(i)') <= made'[syscall_whitelist[i]]
  BY <1>1, <1>2, OnTheWayFinite DEF IInv, Types, CountsPlusOnTheWay
<1>4. ASSUME NEW i \in Index, NEW t \in OnTheWay(i)', pc'[t] = "count_store"
      PROVE  reg'[t] + Cardinality(OnTheWay(i)') <= made'[syscall_whitelist[i]]
  BY <1>1, <1>2, <1>4, OnTheWayFinite DEF IInv, Types, CountsPlusOnTheWay
<1>5. QED  BY <1>3, <1>4 DEF CountsPlusOnTheWay

(* Every step keeps the counts and the calls on their way within the calls  *)
(* made.                                                                    *)
LEMMA StepCounts ==
  ASSUME IInv, [Next]_vars
  PROVE  CountsPlusOnTheWay'
<1> USE DEF IInv, Types, Go
<1>1. CASE UNCHANGED vars
  <2>1. /\ UNCHANGED <<count, made, reg>>
        /\ \A i \in Index : OnTheWay(i)' \subseteq OnTheWay(i)
        /\ \A u \in Tasks : pc'[u] = "count_store" => pc[u] = "count_store"
    BY <1>1 DEF vars, OnTheWay, history
  <2>2. QED  BY <2>1, NobodyCounts
<1>2. ASSUME NEW t \in Tasks, NEW n \in Numbers, do_syscall_64(t, n)
      PROVE  CountsPlusOnTheWay'
  <2> SUFFICES ASSUME NEW i \in Index
               PROVE  /\ \A a \in Arrays : count'[a][i] + Cardinality(OnTheWay(i)')
                           <= made'[syscall_whitelist[i]]
                      /\ \A u \in OnTheWay(i)' : pc'[u] = "count_store" =>
                           reg'[u] + Cardinality(OnTheWay(i)') <= made'[syscall_whitelist[i]]
    BY DEF CountsPlusOnTheWay
  <2>1. /\ UNCHANGED <<count, reg>> /\ t \notin OnTheWay(i)
        /\ \A u \in OnTheWay(i)' : pc'[u] = "count_store" => u \in OnTheWay(i) /\ pc[u] = "count_store"
        /\ syscall_whitelist[i] \in {0, 1, 2, 56}
    BY <1>2, WhitelistIsCounted DEF do_syscall_64, OnTheWay
  <2>2. CASE n = syscall_whitelist[i]
    <3>1. n # Statistics
      BY <2>2, WhitelistIsCounted
    <3>2. /\ pc' = [pc EXCEPT ![t] = "track_test"]
          /\ nr' = [nr EXCEPT ![t] = syscall_whitelist[i]]
      BY <1>2, <2>2, <3>1 DEF do_syscall_64
    <3>3. OnTheWay(i)' = OnTheWay(i) \cup {t}
      BY <3>2 DEF OnTheWay
    <3>4. Cardinality(OnTheWay(i)') = Cardinality(OnTheWay(i)) + 1
      <4>1. IsFiniteSet(OnTheWay(i))
        BY OnTheWayFinite
      <4>2. t \notin OnTheWay(i)
        BY <2>1
      <4>3. Cardinality(OnTheWay(i) \cup {t}) = Cardinality(OnTheWay(i)) + 1
        BY <4>1, <4>2, FS_AddElement
      <4>4. QED  BY <3>3, <4>3
    <3>5. made'[syscall_whitelist[i]] = made[syscall_whitelist[i]] + 1
      BY <1>2, <2>1, <2>2, WhitelistIsCounted DEF do_syscall_64
    <3>6. Cardinality(OnTheWay(i)) \in Nat /\ made[syscall_whitelist[i]] \in Nat
      BY <2>1, OnTheWayFinite
    <3>7. ASSUME NEW a \in Arrays
          PROVE  count'[a][i] + Cardinality(OnTheWay(i)') <= made'[syscall_whitelist[i]]
      <4>1. count[a][i] + Cardinality(OnTheWay(i)) <= made[syscall_whitelist[i]]
        BY DEF CountsPlusOnTheWay
      <4>2. count'[a][i] = count[a][i] /\ count[a][i] \in Nat
        BY <2>1
      <4>3. QED  BY <3>4, <3>5, <3>6, <4>1, <4>2
    <3>8. ASSUME NEW u \in OnTheWay(i)', pc'[u] = "count_store"
          PROVE  reg'[u] + Cardinality(OnTheWay(i)') <= made'[syscall_whitelist[i]]
      <4>1. u \in OnTheWay(i) /\ pc[u] = "count_store" /\ u \in Tasks
        BY <2>1, <3>8 DEF OnTheWay
      <4>2. reg[u] + Cardinality(OnTheWay(i)) <= made[syscall_whitelist[i]]
        BY <4>1 DEF CountsPlusOnTheWay
      <4>3. reg'[u] = reg[u] /\ reg[u] \in Nat
        BY <2>1, <4>1
      <4>4. QED  BY <3>4, <3>5, <3>6, <4>2, <4>3
    <3>9. QED  BY <3>7, <3>8
  <2>3. CASE n # syscall_whitelist[i]
    <3>1. OnTheWay(i)' = OnTheWay(i)
      BY <1>2, <2>3 DEF do_syscall_64, OnTheWay
    <3>2. made'[syscall_whitelist[i]] = made[syscall_whitelist[i]]
      BY <1>2, <2>1, <2>3, WhitelistIsCounted DEF do_syscall_64
    <3>3. QED  BY <2>1, <3>1, <3>2 DEF CountsPlusOnTheWay
  <2>4. QED  BY <2>2, <2>3
<1>3. ASSUME NEW t \in Tasks, TrackTest(t) \/ StatTest(t) \/ StatAllocFails(t)
      PROVE  CountsPlusOnTheWay'
  <2>1. /\ UNCHANGED <<count, made, reg>>
        /\ \A i \in Index : OnTheWay(i)' \subseteq OnTheWay(i)
        /\ \A u \in Tasks : pc'[u] = "count_store" => pc[u] = "count_store"
    BY <1>3 DEF TrackTest, StatTest, StatAllocFails, OnTheWay, history
  <2>2. QED  BY <2>1, NobodyCounts
<1>4. ASSUME NEW t \in Tasks, StoreSec(t) \/ StoreNsec(t) \/ StatAlloc(t)
      PROVE  CountsPlusOnTheWay'
  <2>1. /\ UNCHANGED <<count, made, reg>>
        /\ \A i \in Index : OnTheWay(i)' \subseteq OnTheWay(i)
        /\ \A u \in Tasks : pc'[u] = "count_store" => pc[u] = "count_store"
    BY <1>4 DEF StoreSec, StoreNsec, StatAlloc, OnTheWay, history
  <2>2. QED  BY <2>1, NobodyCounts
<1>5. ASSUME NEW t \in Tasks, StatRetest(t) \/ StatCopy(t)
      PROVE  CountsPlusOnTheWay'
  <2>1. nr[t] = Statistics
    BY <1>5 DEF StatRetest, StatCopy, InCall, StatPcs
  <2>2. /\ UNCHANGED <<count, made, reg>>
        /\ \A i \in Index : OnTheWay(i)' \subseteq OnTheWay(i)
        /\ \A u \in Tasks : pc'[u] = "count_store" => pc[u] = "count_store"
    BY <1>5, <2>1, WhitelistIsCounted DEF StatRetest, StatCopy, Answer, OnTheWay, history
  <2>3. QED  BY <2>2, NobodyCounts
<1>6. ASSUME NEW t \in Tasks, GetTime(t)
      PROVE  CountsPlusOnTheWay'
  <2>1. \A i \in Index : OnTheWay(i)' = OnTheWay(i) /\ t \notin OnTheWay(i)
    BY <1>6 DEF GetTime, OnTheWay
  <2>2. /\ UNCHANGED <<count, made>>
        /\ \A u \in Tasks \ {t} : reg'[u] = reg[u] /\ pc'[u] = pc[u]
    BY <1>6 DEF GetTime
  <2>3. \A i \in Index : OnTheWay(i) \subseteq Tasks
    BY DEF OnTheWay
  <2>4. ASSUME NEW i \in Index, NEW u \in OnTheWay(i)
        PROVE  reg'[u] = reg[u] /\ pc'[u] = pc[u]
    BY <2>1, <2>2, <2>3
  <2>5. QED  BY <2>1, <2>2, <2>4 DEF CountsPlusOnTheWay
<1>7. ASSUME NEW t \in Tasks, CountLoad(t)
      PROVE  CountsPlusOnTheWay'
  <2>1. PICK a \in Loaded(t) :
          IF a = NULL
          THEN Go(t, "oops") /\ reg' = reg
          ELSE Go(t, "count_store") /\ reg' = [reg EXCEPT ![t] = count[a][Entry(t)]]
    BY <1>7 DEF CountLoad
  <2>2. UNCHANGED <<count, made, nr>>
    BY <1>7 DEF CountLoad, history
  <2>3. CASE a = NULL
    <3>1. /\ UNCHANGED <<count, made, reg>>
          /\ \A i \in Index : OnTheWay(i)' \subseteq OnTheWay(i)
          /\ \A u \in Tasks : pc'[u] = "count_store" => pc[u] = "count_store"
      BY <1>7, <2>1, <2>2, <2>3 DEF CountLoad, OnTheWay
    <3>2. QED  BY <3>1, NobodyCounts
  <2>4. CASE a # NULL
    <3>1. a \in Arrays
      BY <2>4 DEF Loaded
    <3>2. \A i \in Index : OnTheWay(i)' = OnTheWay(i)
      BY <1>7, <2>1, <2>2, <2>4 DEF CountLoad, OnTheWay
    <3>3. ASSUME NEW i \in Index, t \in OnTheWay(i)
          PROVE  reg'[t] = count[a][i]
      <4>1. Entry(t) = i
        BY <3>3, TrackedIndex DEF OnTheWay, Entry
      <4>2. reg'[t] = count[a][Entry(t)]
        BY <2>1, <2>4
      <4>3. QED  BY <4>1, <4>2
    <3>4. \A u \in Tasks \ {t} : reg'[u] = reg[u] /\ pc'[u] = pc[u]
      BY <2>1, <2>4
    <3>5. \A i \in Index : OnTheWay(i) \subseteq Tasks
      BY DEF OnTheWay
    <3>6. ASSUME NEW i \in Index, NEW u \in OnTheWay(i), pc'[u] = "count_store"
          PROVE  reg'[u] + Cardinality(OnTheWay(i)) <= made[syscall_whitelist[i]]
      BY <3>1, <3>3, <3>4, <3>5, <3>6 DEF CountsPlusOnTheWay
    <3>7. QED  BY <2>2, <3>2, <3>6 DEF CountsPlusOnTheWay
  <2>5. QED  BY <2>3, <2>4
<1>8. ASSUME NEW t \in Tasks, CountStore(t)
      PROVE  CountsPlusOnTheWay'
  <2>1. Entry(t) \in Index /\ ptr[t] \in Arrays /\ reg[t] + 1 \in Nat
    BY <1>8 DEF CountStore, InCall, TrackPcs
  <2>2. UNCHANGED <<made, nr, reg>>
    BY <1>8 DEF CountStore, history
  <2>3. \A i \in Index : t \in OnTheWay(i) <=> i = Entry(t)
    BY <1>8, TrackedIndex DEF CountStore, OnTheWay, Entry
  <2>4. \A i \in Index : OnTheWay(i)' = OnTheWay(i) \ {t}
    BY <1>8, <2>2 DEF CountStore, OnTheWay
  <2>5. \A i \in Index : Cardinality(OnTheWay(i)') =
          IF i = Entry(t) THEN Cardinality(OnTheWay(i)) - 1 ELSE Cardinality(OnTheWay(i))
    BY <2>3, <2>4, OnTheWayFinite, FS_RemoveElement
  <2>6. \A a \in Arrays, i \in Index :
          count'[a][i] = IF a = ptr[t] /\ i = Entry(t) THEN reg[t] + 1 ELSE count[a][i]
    BY <1>8, <2>1, CountUpdated DEF CountStore
  <2>7. \A i \in Index : OnTheWay(i) \subseteq Tasks /\ syscall_whitelist[i] \in {0, 1, 2, 56}
    BY WhitelistIsCounted DEF OnTheWay
  <2>8. ASSUME NEW i \in Index, NEW a \in Arrays
        PROVE  count'[a][i] + Cardinality(OnTheWay(i)') <= made'[syscall_whitelist[i]]
    <3>1. count[a][i] + Cardinality(OnTheWay(i)) <= made[syscall_whitelist[i]]
      BY DEF CountsPlusOnTheWay
    <3>2. i = Entry(t) => reg[t] + Cardinality(OnTheWay(i)) <= made[syscall_whitelist[i]]
      BY <1>8, <2>3 DEF CountsPlusOnTheWay, CountStore
    <3>3. /\ count[a][i] \in Nat /\ reg[t] \in Nat /\ made[syscall_whitelist[i]] \in Nat
          /\ Cardinality(OnTheWay(i)) \in Nat
      BY <2>7, OnTheWayFinite
    <3>4. QED  BY <2>2, <2>5, <2>6, <3>1, <3>2, <3>3
  <2>9. ASSUME NEW i \in Index, NEW u \in OnTheWay(i)', pc'[u] = "count_store"
        PROVE  reg'[u] + Cardinality(OnTheWay(i)') <= made'[syscall_whitelist[i]]
    <3>1. u \in OnTheWay(i) /\ pc[u] = "count_store" /\ u \in Tasks
      BY <1>8, <2>4, <2>7, <2>9 DEF CountStore
    <3>2. reg[u] + Cardinality(OnTheWay(i)) <= made[syscall_whitelist[i]]
      BY <3>1 DEF CountsPlusOnTheWay
    <3>3. reg[u] \in Nat /\ made[syscall_whitelist[i]] \in Nat /\ Cardinality(OnTheWay(i)) \in Nat
      BY <2>7, <3>1, OnTheWayFinite
    <3>4. QED  BY <2>2, <2>5, <3>2, <3>3
  <2>10. QED  BY <2>8, <2>9 DEF CountsPlusOnTheWay
<1>9. QED  BY <1>1, <1>2, <1>3, <1>4, <1>5, <1>6, <1>7, <1>8 DEF Next, Step

-----------------------------------------------------------------------------
(* The invariant holds in every reachable state. *)
LEMMA Invariance == Spec => []IInv
<1>1. Init => IInv
  BY InitIInv
<1>2. IInv /\ [Next]_vars => IInv'
  BY StepTypes, StepPointers, StepArrays, StepCounts DEF IInv
<1>3. QED  BY <1>1, <1>2, PTL DEF Spec

(* No array ever counts more calls of a number than were made: racing       *)
(* updates, replaced arrays and reloaded pointers only lose counts.         *)
THEOREM CountsAreNotInvented == Spec => []NeverOvercounts
<1>1. IInv => NeverOvercounts
  <2> SUFFICES ASSUME IInv, NEW a \in Arrays, NEW i \in Index
               PROVE  count[a][i] <= made[syscall_whitelist[i]]
    BY DEF NeverOvercounts
  <2>1. count[a][i] + Cardinality(OnTheWay(i)) <= made[syscall_whitelist[i]]
    BY DEF IInv, CountsPlusOnTheWay
  <2>2. count[a][i] \in Nat /\ made[syscall_whitelist[i]] \in Nat
    BY WhitelistIsCounted DEF IInv, Types
  <2>3. QED  BY <2>1, <2>2, OnTheWayFinite
<1>2. QED  BY <1>1, Invariance, PTL

(* While allocations succeed, no task uses a NULL pointer, although the     *)
(* test and each use load it separately.                                    *)
THEOREM NullIsSafe == Spec => []NullIsNeverUsed
<1>1. IInv => NullIsNeverUsed
  BY DEF IInv
<1>2. QED  BY <1>1, Invariance, PTL

(* While allocations succeed, there are never more arrays than tasks.       *)
THEOREM OneLeakPerTask == Spec => []LeakIsBounded
<1>1. IInv => LeakIsBounded
  <2> SUFFICES ASSUME IInv, failures = 0
               PROVE  allocs <= Cardinality(Tasks)
    BY DEF LeakIsBounded
  <2>1. Cardinality(Tasks) \in Nat /\ Cardinality(Allocators) \in Nat /\ allocs \in Nat
    BY FS_CardinalityType, FS_Subset, CountersAssumption DEF Allocators, IInv, Types
  <2>2. QED  BY <2>1 DEF IInv, ArraysPlusAllocators
<1>2. QED  BY <1>1, Invariance, PTL

-----------------------------------------------------------------------------
(* Calls that do not overlap.  A task that is in the kernel is there alone: *)
(* the pointer it has tested is the one it stores through, the array that   *)
(* is allocated is the first, and of the calls made since then all but its  *)
(* own are counted and have left their time.                                *)

InKernel(t) == pc[t] # "user"
Counting(t) == pc[t] \in {"track_test", "count_load", "count_store"}
Stamping(t) == pc[t] \in {"store_sec", "store_nsec"}

HistoryTypes ==
  /\ time_last_used \in [Arrays -> [Index -> [sec : Nat, nsec : Nat]]]
  /\ base \in [{0, 1, 2, 56} -> Nat] /\ last \in [Index -> Nat]

OneAtATime ==
  /\ \A t, u \in Tasks : t # u => ~InKernel(t) \/ ~InKernel(u)
  /\ \A t \in Tasks : pc[t] # "oops"

FirstArray ==
  /\ syscall_counters <= allocs
  /\ syscall_counters = NULL =>
       /\ allocs = 0 /\ \A i \in Index : last[i] = 0
       /\ \A a \in Arrays, i \in Index : count[a][i] = 0 /\ time_last_used[a][i] = Time(0)
  /\ \A t \in Tasks :
       /\ pc[t] = "stat_alloc" => syscall_counters = NULL
       /\ pc[t] \in TrackPcs => syscall_counters # NULL /\ ptr[t] = syscall_counters

CountedSoFar ==
  syscall_counters # NULL =>
    \A i \in Index :
      LET n == syscall_whitelist[i] IN
      /\ (\E t \in Tasks : Counting(t) /\ nr[t] = n) =>
           count[syscall_counters][i] + 1 = made[n] - base[n]
      /\ (\A t \in Tasks : Counting(t) => nr[t] # n) =>
           count[syscall_counters][i] = made[n] - base[n]

StampedSoFar ==
  syscall_counters # NULL =>
    \A i \in Index :
      (\A t \in Tasks : Stamping(t) => Entry(t) # i) =>
        Instant(time_last_used[syscall_counters][i]) = last[i]

OwnEntry(t) ==
  /\ pc[t] = "count_store" => reg[t] = count[syscall_counters][Entry(t)]
  /\ Stamping(t) => reg[t] = last[Entry(t)]
  /\ pc[t] = "store_nsec" =>
       time_last_used[syscall_counters][Entry(t)].sec = Time(reg[t]).sec

Serial ==
  /\ OneAtATime /\ FirstArray /\ CountedSoFar /\ StampedSoFar
  /\ \A t \in Tasks : OwnEntry(t)

SInv == IInv /\ HistoryTypes /\ (~overlap => Serial)

LEMMA TimeIsInstant ==
  ASSUME NEW k \in Nat
  PROVE  Time(k) \in [sec : Nat, nsec : Nat] /\ Instant(Time(k)) = k
<1> DEFINE s == k \div 2
           n == k % 2
<1>1. s \in Nat /\ n \in Nat /\ 2 * s + n = k
  OBVIOUS
<1>2. Time(k) = [sec |-> s, nsec |-> n]
  BY DEF Time
<1> HIDE DEF s, n
<1>3. Time(k).sec = s /\ Time(k).nsec = n /\ Time(k) \in [sec : Nat, nsec : Nat]
  BY <1>1, <1>2
<1>4. QED  BY <1>1, <1>3 DEF Instant

(* Storing one word of a time changes that word. *)
LEMMA TimeUpdated ==
  ASSUME NEW f \in [Arrays -> [Index -> [sec : Nat, nsec : Nat]]],
         NEW a \in Arrays, NEW i \in Index, NEW v \in Nat
  PROVE  /\ [f EXCEPT ![a][i].sec = v] \in [Arrays -> [Index -> [sec : Nat, nsec : Nat]]]
         /\ [f EXCEPT ![a][i].nsec = v] \in [Arrays -> [Index -> [sec : Nat, nsec : Nat]]]
         /\ \A j \in Index \ {i} : /\ [f EXCEPT ![a][i].sec = v][a][j] = f[a][j]
                                   /\ [f EXCEPT ![a][i].nsec = v][a][j] = f[a][j]
         /\ [f EXCEPT ![a][i].sec = v][a][i].sec = v
         /\ [f EXCEPT ![a][i].nsec = v][a][i].sec = f[a][i].sec
         /\ [f EXCEPT ![a][i].nsec = v][a][i].nsec = v
<1> DEFINE Stamp == [sec : Nat, nsec : Nat]
           s == [f[a][i] EXCEPT !.sec = v]
           n == [f[a][i] EXCEPT !.nsec = v]
<1>1. f[a][i] \in Stamp /\ f \in [Arrays -> [Index -> Stamp]]
  OBVIOUS
<1>2. s \in Stamp /\ s.sec = v /\ n \in Stamp /\ n.nsec = v /\ n.sec = f[a][i].sec
  BY <1>1
<1>3. /\ [f EXCEPT ![a][i].sec = v] = [f EXCEPT ![a] = [f[a] EXCEPT ![i] = s]]
      /\ [f EXCEPT ![a][i].nsec = v] = [f EXCEPT ![a] = [f[a] EXCEPT ![i] = n]]
  OBVIOUS
<1> HIDE DEF Stamp, s, n
<1>4. /\ [f[a] EXCEPT ![i] = s] \in [Index -> Stamp]
      /\ [f[a] EXCEPT ![i] = n] \in [Index -> Stamp]
  BY <1>1, <1>2
<1>5. QED  BY <1>1, <1>2, <1>3, <1>4 DEF Stamp

LEMMA TimeTyped ==
  ASSUME NEW f \in [Arrays -> [Index -> [sec : Nat, nsec : Nat]]],
         NEW a \in Arrays, NEW i \in Index, NEW v \in Nat
  PROVE  /\ [f EXCEPT ![a][i].sec = v] \in [Arrays -> [Index -> [sec : Nat, nsec : Nat]]]
         /\ [f EXCEPT ![a][i].nsec = v] \in [Arrays -> [Index -> [sec : Nat, nsec : Nat]]]
  BY TimeUpdated

LEMMA InitSInv == Init => SInv
<1> SUFFICES ASSUME Init PROVE SInv
  OBVIOUS
<1>1. HistoryTypes
  <2>1. Time(0) \in [sec : Nat, nsec : Nat]
    BY TimeIsInstant
  <2>2. QED  BY <2>1 DEF Init, HistoryTypes
<1>2. OneAtATime /\ FirstArray
  BY DEF Init, OneAtATime, InKernel, FirstArray, TrackPcs, NULL
<1>3. CountedSoFar /\ StampedSoFar /\ \A t \in Tasks : OwnEntry(t)
  BY DEF Init, CountedSoFar, StampedSoFar, OwnEntry, Stamping
<1>4. QED  BY <1>1, <1>2, <1>3, InitIInv DEF SInv, Serial

(* The history keeps its types. *)
LEMMA StepHistory ==
  ASSUME SInv, [Next]_vars
  PROVE  HistoryTypes'
<1> USE DEF SInv, IInv, Types, HistoryTypes, pointer, history
<1>1. CASE UNCHANGED vars
  BY <1>1 DEF vars
<1>2. ASSUME NEW t \in Tasks, GetTime(t)
      PROVE  HistoryTypes'
  BY <1>2 DEF GetTime
<1>3. ASSUME NEW t \in Tasks, StoreSec(t)
      PROVE  HistoryTypes'
  <2>1. Entry(t) \in Index
    BY <1>3 DEF StoreSec, InCall, TrackPcs
  <2>2. Time(reg[t]).sec \in Nat
    BY TimeIsInstant
  <2> DEFINE k == Time(reg[t]).sec
  <2>3. PICK a \in Loaded(t) :
          \/ time_last_used' = time_last_used
          \/ a # NULL /\ time_last_used' = [time_last_used EXCEPT ![a][Entry(t)].sec = k]
    BY <1>3, Zenon DEF StoreSec
  <2>4. a # NULL => a \in Arrays
    BY DEF Loaded
  <2> DEFINE stored == [time_last_used EXCEPT ![a][Entry(t)].sec = k]
             types  == [Arrays -> [Index -> [sec : Nat, nsec : Nat]]]
  <2>7. a # NULL => stored \in types
    BY <2>1, <2>2, <2>4, TimeTyped
  <2>8. time_last_used \in types
    OBVIOUS
  <2> HIDE DEF k, stored, types
  <2>5. time_last_used' \in types
    BY <2>3, <2>7, <2>8 DEF stored
  <2> USE DEF types
  <2>6. QED  BY <1>3, <2>5 DEF StoreSec
<1>4. ASSUME NEW t \in Tasks, StoreNsec(t)
      PROVE  HistoryTypes'
  <2>1. Entry(t) \in Index /\ ptr[t] \in Arrays
    BY <1>4 DEF StoreNsec, InCall, TrackPcs
  <2>2. Time(reg[t]).nsec \in Nat
    BY TimeIsInstant
  <2> DEFINE k == Time(reg[t]).nsec
             types == [Arrays -> [Index -> [sec : Nat, nsec : Nat]]]
  <2>3. time_last_used' = [time_last_used EXCEPT ![ptr[t]][Entry(t)].nsec = k]
    BY <1>4 DEF StoreNsec
  <2>4. [time_last_used EXCEPT ![ptr[t]][Entry(t)].nsec = k] \in types
    BY <2>1, <2>2, TimeTyped
  <2>5. time_last_used' \in types
    BY <2>3, <2>4, Zenon
  <2>6. QED  BY <1>4, <2>5 DEF StoreNsec
<1>5. ASSUME NEW t \in Tasks, StatAlloc(t)
      PROVE  HistoryTypes'
  BY <1>5 DEF StatAlloc
<1>6. ASSUME UNCHANGED <<time_last_used, base, last>>
      PROVE  HistoryTypes'
  BY <1>6
<1>7. QED
  BY <1>1, <1>2, <1>3, <1>4, <1>5, <1>6
  DEF Next, Step, do_syscall_64, TrackTest, CountLoad, CountStore, StatTest, StatAllocFails,
      StatRetest, StatCopy

-----------------------------------------------------------------------------
(* One lemma for each step of a call that is alone in the kernel. *)

LEMMA AloneInKernel ==
  ASSUME OneAtATime, NEW t \in Tasks, InKernel(t)
  PROVE  \A u \in Tasks \ {t} : pc[u] = "user"
  BY DEF OneAtATime, InKernel

(* It goes on, and nobody else does. *)
LEMMA StaysAlone ==
  ASSUME Types, OneAtATime, NEW t \in Tasks, InKernel(t), NEW label, Go(t, label),
         label # "oops"
  PROVE  /\ OneAtATime' /\ pc'[t] = label
         /\ \A u \in Tasks \ {t} : pc[u] = "user" /\ pc'[u] = "user"
<1>1. \A u \in Tasks \ {t} : pc[u] = "user"
  BY AloneInKernel
<1>2. pc'[t] = label /\ \A u \in Tasks \ {t} : pc'[u] = pc[u]
  BY DEF Go, Types
<1>3. QED  BY <1>1, <1>2 DEF OneAtATime, InKernel

LEMMA SerialEnters ==
  ASSUME SInv, NEW t \in Tasks, NEW n \in Numbers, do_syscall_64(t, n), ~overlap'
  PROVE  Serial'
<1> USE DEF SInv, IInv, pointer, history
<1>1. Serial /\ \A u \in Tasks : pc[u] = "user"
  BY DEF do_syscall_64, Serial, OneAtATime, Types
<1>2. /\ pc'[t] \in {"stat_test", "track_test"} /\ \A u \in Tasks \ {t} : pc'[u] = "user"
      /\ pc'[t] = "track_test" <=> n # Statistics
      /\ nr'[t] = n
  BY <1>1 DEF do_syscall_64, Go, Types
<1>3. UNCHANGED <<syscall_counters, allocs, count, time_last_used, base, last, ptr, reg>>
  BY DEF do_syscall_64
<1>4. OneAtATime'
  BY <1>2 DEF OneAtATime, InKernel
<1>5. FirstArray'
  BY <1>1, <1>2, <1>3 DEF Serial, FirstArray, TrackPcs
<1>6. CountedSoFar'
  <2> SUFFICES ASSUME syscall_counters # NULL, NEW i \in Index
               PROVE  LET m == syscall_whitelist[i] IN
                      /\ (\E u \in Tasks : Counting(u)' /\ nr'[u] = m) =>
                           count[syscall_counters][i] + 1 = made'[m] - base[m]
                      /\ (\A u \in Tasks : Counting(u)' => nr'[u] # m) =>
                           count[syscall_counters][i] = made'[m] - base[m]
    BY <1>3 DEF CountedSoFar
  <2> DEFINE m == syscall_whitelist[i]
             c == count[syscall_counters][i]
  <2>1. m \in {0, 1, 2, 56} /\ m # Statistics /\ Counted(m)
    BY WhitelistIsCounted
  <2>2. c = made[m] - base[m]
    BY <1>1 DEF Serial, CountedSoFar, Counting
  <2>3. made'[m] = IF n = m THEN made[m] + 1 ELSE made[m]
    <3>1. made' = IF Counted(n) THEN [made EXCEPT ![n] = @ + 1] ELSE made
      BY DEF do_syscall_64
    <3>2. QED  BY <2>1, <3>1 DEF Types
  <2>4. (\E u \in Tasks : Counting(u)' /\ nr'[u] = m) => n = m
    BY <1>2 DEF Counting
  <2>5. n = m => \E u \in Tasks : Counting(u)' /\ nr'[u] = m
    BY <1>2, <2>1 DEF Counting
  <2>6. made[m] \in Nat /\ base[m] \in Nat
    BY <2>1 DEF Types, HistoryTypes
  <2> HIDE DEF m, c
  <2>7. /\ n = m => c + 1 = made'[m] - base[m]
        /\ n # m => c = made'[m] - base[m]
    BY <2>2, <2>3, <2>6
  <2>8. QED  BY <2>4, <2>5, <2>7, Zenon DEF m, c
<1>7. StampedSoFar' /\ \A u \in Tasks : OwnEntry(u)'
  BY <1>1, <1>2, <1>3 DEF Serial, StampedSoFar, OwnEntry, Stamping
<1>8. QED  BY <1>4, <1>5, <1>6, <1>7 DEF Serial

LEMMA SerialTests ==
  ASSUME SInv, Serial, NEW t \in Tasks, TrackTest(t)
  PROVE  Serial'
<1> USE DEF SInv, IInv, Serial, pointer, history
<1> DEFINE label == IF TakesNoNote(t) THEN "user" ELSE "count_load"
<1>1. /\ pc[t] = "track_test" /\ Go(t, label) /\ InKernel(t)
      /\ ptr' = [ptr EXCEPT ![t] = syscall_counters]
      /\ UNCHANGED <<syscall_counters, allocs, count, time_last_used, base, last, made, reg, nr>>
  BY DEF TrackTest, InKernel
<1>2. /\ OneAtATime' /\ pc'[t] = label
      /\ \A u \in Tasks \ {t} : pc[u] = "user" /\ pc'[u] = "user"
  BY <1>1, StaysAlone
<1>3. FirstArray'
  BY <1>1, <1>2 DEF FirstArray, TrackPcs, TakesNoNote, Types
<1>4. CountedSoFar'
  <2> SUFFICES ASSUME syscall_counters # NULL, NEW i \in Index
               PROVE  (\E u \in Tasks : Counting(u)' /\ nr[u] = syscall_whitelist[i])
                        <=> (\E u \in Tasks : Counting(u) /\ nr[u] = syscall_whitelist[i])
    BY <1>1, Zenon DEF CountedSoFar
  <2>1. nr[t] = syscall_whitelist[i] => Entry(t) = i /\ i # -1
    BY TrackedIndex, Whitelist DEF Entry
  <2>2. nr[t] = syscall_whitelist[i] => pc'[t] = "count_load"
    BY <1>2, <2>1 DEF TakesNoNote
  <2>3. QED  BY <1>1, <1>2, <2>2 DEF Counting
<1>5. StampedSoFar' /\ \A u \in Tasks : OwnEntry(u)'
  BY <1>1, <1>2 DEF StampedSoFar, OwnEntry, Stamping, Entry
<1>6. QED  BY <1>2, <1>3, <1>4, <1>5

LEMMA SerialLoads ==
  ASSUME SInv, Serial, NEW t \in Tasks, CountLoad(t)
  PROVE  Serial'
<1> USE DEF SInv, IInv, Serial, pointer, history
<1>1. pc[t] = "count_load" /\ syscall_counters # NULL /\ ptr[t] = syscall_counters
  BY DEF CountLoad, FirstArray, TrackPcs
<1>2. /\ Go(t, "count_store") /\ InKernel(t)
      /\ reg' = [reg EXCEPT ![t] = count[syscall_counters][Entry(t)]]
      /\ ptr' = [ptr EXCEPT ![t] = syscall_counters]
      /\ UNCHANGED <<syscall_counters, allocs, count, time_last_used, base, last, made, nr>>
  BY <1>1 DEF CountLoad, Loaded, InKernel
<1>3. /\ OneAtATime' /\ pc'[t] = "count_store"
      /\ \A u \in Tasks \ {t} : pc[u] = "user" /\ pc'[u] = "user"
  BY <1>2, StaysAlone
<1>4. FirstArray'
  BY <1>1, <1>2, <1>3 DEF FirstArray, TrackPcs, Types
<1>5. CountedSoFar'
  BY <1>1, <1>2, <1>3 DEF CountedSoFar, Counting
<1>6. StampedSoFar' /\ \A u \in Tasks : OwnEntry(u)'
  BY <1>1, <1>2, <1>3 DEF StampedSoFar, OwnEntry, Stamping, Entry, Types
<1>7. QED  BY <1>3, <1>4, <1>5, <1>6

LEMMA SerialStores ==
  ASSUME SInv, Serial, NEW t \in Tasks, CountStore(t)
  PROVE  Serial'
<1> USE DEF SInv, IInv, Serial, pointer, history
<1> DEFINE sc == syscall_counters
           e  == Entry(t)
<1>1. /\ pc[t] = "count_store" /\ sc # NULL /\ ptr[t] = sc /\ sc \in Arrays
      /\ e \in Index /\ reg[t] = count[sc][e] /\ reg[t] \in Nat /\ nr[t] = syscall_whitelist[e]
  <2>1. pc[t] = "count_store" /\ sc # NULL /\ ptr[t] = sc /\ sc \in Arrays /\ e \in Index
    BY DEF CountStore, FirstArray, TrackPcs, Types, InCall
  <2>2. nr[t] = syscall_whitelist[e]
    BY <2>1, TrackedIndex DEF Entry
  <2>3. QED  BY <2>1, <2>2 DEF OwnEntry, Types
<1>2. /\ Go(t, "get_time") /\ InKernel(t) /\ ptr' = ptr
      /\ UNCHANGED <<syscall_counters, allocs, time_last_used, base, last, made, nr, reg>>
  BY <1>1 DEF CountStore, InKernel
<1>3. /\ OneAtATime' /\ pc'[t] = "get_time"
      /\ \A u \in Tasks \ {t} : pc[u] = "user" /\ pc'[u] = "user"
  BY <1>2, StaysAlone
<1>4. \A i \in Index : count'[sc][i] = IF i = e THEN count[sc][e] + 1 ELSE count[sc][i]
  <2>1. count' = [count EXCEPT ![sc][e] = reg[t] + 1] /\ reg[t] + 1 \in Nat
    BY <1>1 DEF CountStore
  <2>2. QED  BY <1>1, <2>1, CountUpdated DEF Types
<1>5. FirstArray'
  BY <1>1, <1>2, <1>3 DEF FirstArray, TrackPcs
<1>6. CountedSoFar'
  <2> SUFFICES ASSUME NEW i \in Index
               PROVE  LET m == syscall_whitelist[i] IN
                      /\ ~ \E u \in Tasks : Counting(u)' /\ nr[u] = m
                      /\ count'[sc][i] = made[m] - base[m]
    BY <1>2, Zenon DEF CountedSoFar
  <2> DEFINE m == syscall_whitelist[i]
  <2>1. ~ \E u \in Tasks : Counting(u)'
    BY <1>3 DEF Counting
  <2>2. CASE i = e
    BY <1>1, <1>4, <2>1, <2>2 DEF CountedSoFar, Counting
  <2>3. CASE i # e
    <3>1. nr[t] # m
      BY <1>1, <2>3, TrackedIndex DEF Entry
    <3>2. QED  BY <1>1, <1>3, <1>4, <2>1, <2>3, <3>1 DEF CountedSoFar, Counting
  <2>4. QED  BY <2>2, <2>3
<1>7. StampedSoFar' /\ \A u \in Tasks : OwnEntry(u)'
  BY <1>1, <1>2, <1>3 DEF StampedSoFar, OwnEntry, Stamping, Entry
<1>8. QED  BY <1>3, <1>5, <1>6, <1>7

LEMMA SerialReadsClock ==
  ASSUME SInv, Serial, NEW t \in Tasks, GetTime(t)
  PROVE  Serial'
<1> USE DEF SInv, IInv, Serial, pointer, history
<1> DEFINE e == Entry(t)
<1>1. /\ pc[t] = "get_time" /\ syscall_counters # NULL /\ ptr[t] = syscall_counters
      /\ e \in Index
  BY DEF GetTime, FirstArray, TrackPcs, InCall
<1>2. /\ Go(t, "store_sec") /\ InKernel(t) /\ ptr' = ptr
      /\ reg' = [reg EXCEPT ![t] = clock] /\ last' = [last EXCEPT ![e] = clock]
      /\ UNCHANGED <<syscall_counters, allocs, count, time_last_used, base, made, nr>>
  BY <1>1 DEF GetTime, InKernel
<1>3. /\ OneAtATime' /\ pc'[t] = "store_sec"
      /\ \A u \in Tasks \ {t} : pc[u] = "user" /\ pc'[u] = "user"
  BY <1>2, StaysAlone
<1>4. FirstArray'
  BY <1>1, <1>2, <1>3 DEF FirstArray, TrackPcs
<1>5. CountedSoFar'
  BY <1>1, <1>2, <1>3 DEF CountedSoFar, Counting
<1>6. StampedSoFar'
  <2> SUFFICES ASSUME NEW i \in Index, \A u \in Tasks : Stamping(u)' => Entry(u)' # i
               PROVE  Instant(time_last_used[syscall_counters][i]) = last'[i]
    BY <1>2, Zenon DEF StampedSoFar
  <2>1. i # e
    BY <1>2, <1>3 DEF Stamping, Entry
  <2>2. \A u \in Tasks : ~Stamping(u)
    BY <1>1, <1>3 DEF Stamping
  <2>3. QED  BY <1>1, <1>2, <2>1, <2>2 DEF StampedSoFar, HistoryTypes
<1>7. \A u \in Tasks : OwnEntry(u)'
  BY <1>1, <1>2, <1>3 DEF OwnEntry, Stamping, Entry, Types, HistoryTypes
<1>8. QED  BY <1>3, <1>4, <1>5, <1>6, <1>7

LEMMA SerialStoresSec ==
  ASSUME SInv, Serial, NEW t \in Tasks, StoreSec(t)
  PROVE  Serial'
<1> USE DEF SInv, IInv, Serial, pointer, history
<1> DEFINE e  == Entry(t)
           sc == syscall_counters
           k  == Time(reg[t]).sec
<1>1. /\ pc[t] = "store_sec" /\ sc # NULL /\ ptr[t] = sc /\ sc \in Arrays /\ e \in Index
      /\ reg[t] = last[e]
  BY DEF StoreSec, FirstArray, TrackPcs, InCall, Types, OwnEntry, Stamping
<1>2. /\ Go(t, "store_nsec") /\ InKernel(t)
      /\ ptr' = [ptr EXCEPT ![t] = sc]
      /\ time_last_used' = [time_last_used EXCEPT ![sc][e].sec = k]
      /\ UNCHANGED <<syscall_counters, allocs, count, base, last, made, nr, reg>>
  BY <1>1 DEF StoreSec, InKernel, Loaded
<1>3. /\ OneAtATime' /\ pc'[t] = "store_nsec"
      /\ \A u \in Tasks \ {t} : pc[u] = "user" /\ pc'[u] = "user"
  BY <1>2, StaysAlone
<1>4. /\ \A j \in Index \ {e} : time_last_used'[sc][j] = time_last_used[sc][j]
      /\ time_last_used'[sc][e].sec = k
  <2>1. k \in Nat
    BY TimeIsInstant DEF Types
  <2> HIDE DEF k
  <2>2. QED  BY <1>1, <1>2, <2>1, TimeUpdated DEF HistoryTypes
<1>5. FirstArray'
  BY <1>1, <1>2, <1>3 DEF FirstArray, TrackPcs, Types
<1>6. CountedSoFar'
  BY <1>1, <1>2, <1>3 DEF CountedSoFar, Counting
<1>7. StampedSoFar'
  <2> SUFFICES ASSUME NEW i \in Index, \A u \in Tasks : Stamping(u)' => Entry(u)' # i
               PROVE  Instant(time_last_used'[sc][i]) = last[i]
    BY <1>2, Zenon DEF StampedSoFar
  <2>1. i # e
    BY <1>2, <1>3 DEF Stamping, Entry
  <2>2. \A u \in Tasks : Stamping(u) => Entry(u) # i
    BY <1>3, <2>1 DEF Stamping
  <2>3. QED  BY <1>1, <1>4, <2>1, <2>2 DEF StampedSoFar
<1>8. \A u \in Tasks : OwnEntry(u)'
  BY <1>1, <1>2, <1>3, <1>4 DEF OwnEntry, Stamping, Entry
<1>9. QED  BY <1>3, <1>5, <1>6, <1>7, <1>8

LEMMA SerialStoresNsec ==
  ASSUME SInv, Serial, NEW t \in Tasks, StoreNsec(t)
  PROVE  Serial'
<1> USE DEF SInv, IInv, Serial, pointer, history
<1> DEFINE e  == Entry(t)
           sc == syscall_counters
           k  == Time(reg[t]).nsec
<1>1. /\ pc[t] = "store_nsec" /\ sc # NULL /\ ptr[t] = sc /\ sc \in Arrays /\ e \in Index
      /\ reg[t] = last[e] /\ reg[t] \in Nat
      /\ time_last_used[sc][e].sec = Time(reg[t]).sec
  BY DEF StoreNsec, FirstArray, TrackPcs, InCall, Types, OwnEntry, Stamping
<1>2. /\ Go(t, "user") /\ InKernel(t) /\ ptr' = ptr
      /\ time_last_used' = [time_last_used EXCEPT ![sc][e].nsec = k]
      /\ UNCHANGED <<syscall_counters, allocs, count, base, last, made, nr, reg>>
  BY <1>1 DEF StoreNsec, InKernel
<1>3. /\ OneAtATime' /\ pc'[t] = "user"
      /\ \A u \in Tasks \ {t} : pc[u] = "user" /\ pc'[u] = "user"
  BY <1>2, StaysAlone
<1>4. /\ \A j \in Index \ {e} : time_last_used'[sc][j] = time_last_used[sc][j]
      /\ time_last_used'[sc][e].sec = time_last_used[sc][e].sec
      /\ time_last_used'[sc][e].nsec = k
  <2>1. k \in Nat
    BY TimeIsInstant DEF Types
  <2> HIDE DEF k
  <2>2. QED  BY <1>1, <1>2, <2>1, TimeUpdated DEF HistoryTypes
<1>5. FirstArray'
  BY <1>1, <1>2, <1>3 DEF FirstArray, TrackPcs
<1>6. CountedSoFar'
  BY <1>1, <1>2, <1>3 DEF CountedSoFar, Counting
<1>7. StampedSoFar'
  <2> SUFFICES ASSUME NEW i \in Index
               PROVE  Instant(time_last_used'[sc][i]) = last[i]
    BY <1>2, Zenon DEF StampedSoFar
  <2>1. CASE i = e
    <3>1. Instant(time_last_used'[sc][e]) = Instant(Time(reg[t]))
      BY <1>1, <1>4 DEF Instant
    <3>2. QED  BY <1>1, <2>1, <3>1, TimeIsInstant
  <2>2. CASE i # e
    <3>1. \A u \in Tasks : Stamping(u) => Entry(u) # i
      BY <1>3, <2>2 DEF Stamping
    <3>2. QED  BY <1>1, <1>4, <2>2, <3>1 DEF StampedSoFar
  <2>3. QED  BY <2>1, <2>2
<1>8. \A u \in Tasks : OwnEntry(u)'
  BY <1>1, <1>2, <1>3 DEF OwnEntry, Stamping
<1>9. QED  BY <1>3, <1>5, <1>6, <1>7, <1>8

(* The statistics call: nothing of what is counted changes, but for the     *)
(* first array, which begins with no call counted and none made.            *)
LEMMA SerialAnswers ==
  ASSUME SInv, Serial, NEW t \in Tasks,
         StatTest(t) \/ StatRetest(t) \/ StatCopy(t) \/ StatAllocFails(t)
  PROVE  Serial'
<1> USE DEF SInv, IInv, Serial, pointer, history
<1>1. /\ pc[t] \in StatPcs /\ nr[t] = Statistics
      /\ pc[t] = "stat_alloc" => syscall_counters = NULL
  BY DEF StatTest, StatRetest, StatCopy, StatAllocFails, InCall, StatPcs, FirstArray
<1>2. UNCHANGED <<syscall_counters, allocs, count, time_last_used, base, last, made, nr, reg>>
  BY <1>1 DEF StatTest, StatRetest, StatCopy, StatAllocFails, Answer
<1>3. PICK label \in StatPcs \cup {"track_test"} :
        Go(t, label) /\ (label = "stat_alloc" => syscall_counters = NULL)
  BY DEF StatTest, StatRetest, StatCopy, StatAllocFails, StatPcs, Answer
<1>4. /\ OneAtATime' /\ pc'[t] = label
      /\ \A u \in Tasks \ {t} : pc[u] = "user" /\ pc'[u] = "user"
  BY <1>1, <1>3, StaysAlone DEF InKernel, StatPcs
<1>5. FirstArray'
  BY <1>2, <1>3, <1>4 DEF FirstArray, TrackPcs, StatPcs
<1>6. CountedSoFar'
  <2> SUFFICES ASSUME NEW i \in Index
               PROVE  /\ ~ \E u \in Tasks : Counting(u)' /\ nr[u] = syscall_whitelist[i]
                      /\ ~ \E u \in Tasks : Counting(u) /\ nr[u] = syscall_whitelist[i]
    BY <1>2, Zenon DEF CountedSoFar
  <2>1. QED  BY <1>1, <1>4, WhitelistIsCounted DEF Counting
<1>7. StampedSoFar' /\ \A u \in Tasks : OwnEntry(u)'
  BY <1>1, <1>2, <1>3, <1>4 DEF StampedSoFar, OwnEntry, Stamping, StatPcs
<1>8. QED  BY <1>4, <1>5, <1>6, <1>7

LEMMA SerialAllocates ==
  ASSUME SInv, Serial, NEW t \in Tasks, StatAlloc(t)
  PROVE  Serial'
<1> USE DEF SInv, IInv, Serial, pointer, history
<1>1. /\ pc[t] = "stat_alloc" /\ syscall_counters = NULL /\ allocs = 0
      /\ \A i \in Index : last[i] = 0
      /\ \A a \in Arrays, i \in Index : count[a][i] = 0 /\ time_last_used[a][i] = Time(0)
  BY DEF StatAlloc, FirstArray
<1>2. /\ syscall_counters' = 1 /\ allocs' = 1 /\ base' = made /\ 1 \in Arrays
      /\ Go(t, "stat_retest") /\ InKernel(t)
      /\ UNCHANGED <<count, time_last_used, last, made, nr, reg>>
  BY <1>1, CountersAssumption DEF StatAlloc, InKernel, Arrays
<1>3. /\ OneAtATime' /\ pc'[t] = "stat_retest"
      /\ \A u \in Tasks \ {t} : pc[u] = "user" /\ pc'[u] = "user"
  BY <1>2, StaysAlone
<1>4. FirstArray'
  BY <1>2, <1>3 DEF FirstArray, TrackPcs, NULL
<1>5. CountedSoFar'
  <2> SUFFICES ASSUME NEW i \in Index
               PROVE  /\ ~ \E u \in Tasks : Counting(u)'
                      /\ count[1][i] = made[syscall_whitelist[i]] - made[syscall_whitelist[i]]
    BY <1>2, Zenon DEF CountedSoFar
  <2>1. made[syscall_whitelist[i]] \in Nat /\ count[1][i] = 0
    BY <1>1, <1>2, WhitelistIsCounted DEF Types
  <2>2. QED  BY <1>3, <2>1 DEF Counting
<1>6. StampedSoFar'
  BY <1>1, <1>2, TimeIsInstant DEF StampedSoFar
<1>7. \A u \in Tasks : OwnEntry(u)'
  BY <1>3 DEF OwnEntry, Stamping
<1>8. QED  BY <1>3, <1>4, <1>5, <1>6, <1>7

-----------------------------------------------------------------------------
LEMMA StepSerial ==
  ASSUME SInv, [Next]_vars, ~overlap'
  PROVE  Serial'
<1>1. ASSUME NEW t \in Tasks, NEW n \in Numbers, do_syscall_64(t, n)
      PROVE  Serial'
  BY <1>1, SerialEnters
<1>2. CASE UNCHANGED vars
  BY <1>2 DEF vars, pointer, history, SInv, Serial, OneAtATime, InKernel, FirstArray,
              CountedSoFar, Counting, StampedSoFar, Stamping, OwnEntry, Entry
<1>3. ASSUME NEW t \in Tasks, Step(t)
      PROVE  Serial'
  <2>1. overlap' = overlap
    BY <1>3 DEF Step, TrackTest, CountLoad, CountStore, GetTime, StoreSec, StoreNsec, StatTest,
                StatAlloc, StatAllocFails, StatRetest, StatCopy, history
  <2>2. Serial
    BY <2>1 DEF SInv
  <2>3. QED
    BY <1>3, <2>2, SerialTests, SerialLoads, SerialStores, SerialReadsClock, SerialStoresSec,
       SerialStoresNsec, SerialAnswers, SerialAllocates DEF Step
<1>4. QED  BY <1>1, <1>2, <1>3 DEF Next

LEMMA SerialInvariance == Spec => []SInv
<1>1. Init => SInv
  BY InitSInv
<1>2. SInv /\ [Next]_vars => SInv'
  BY StepTypes, StepPointers, StepArrays, StepCounts, StepHistory, StepSerial DEF SInv, IInv
<1>3. QED  BY <1>1, <1>2, PTL DEF Spec

(* Calls that do not overlap are all counted, each with the time it read:   *)
(* a statistics call after the first allocates nothing, and no untracked    *)
(* call is counted.                                                         *)
THEOREM SerialIsExact == Spec => []SerialCallsAreCounted
<1>1. SInv => SerialCallsAreCounted
  <2> SUFFICES ASSUME Serial, Quiescent, syscall_counters # NULL, NEW i \in Index
               PROVE  /\ count[syscall_counters][i]
                           = made[syscall_whitelist[i]] - base[syscall_whitelist[i]]
                      /\ Instant(time_last_used[syscall_counters][i]) = last[i]
    BY DEF SInv, SerialCallsAreCounted, CountsAreRight
  <2>1. \A t \in Tasks : ~Counting(t) /\ ~Stamping(t)
    BY DEF Quiescent, Counting, Stamping
  <2>2. QED  BY <2>1 DEF Serial, CountedSoFar, StampedSoFar
<1>2. QED  BY <1>1, SerialInvariance, PTL
=============================================================================
