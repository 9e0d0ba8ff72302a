-------------------------- MODULE UserSpace_proofs --------------------------
(***************************************************************************)
(* What the programs of the user see: the two calls that report counters   *)
(* nobody stops, with the notifier of the reserves, and the tests of the   *)
(* memory limits.  The first are about the end of a sequence of steps, and *)
(* the invariant says what is left of it after each of them; that of the   *)
(* tests says what is true at each place two programs can be in that take  *)
(* turns.                                                                  *)
(***************************************************************************)
EXTENDS FreeMemory, IoStats, TestHandshake, FiniteSetTheorems, TLAPS

-----------------------------------------------------------------------------
(* The snapshot and the reserves *)

NotifierType ==
  [at : {"idle", "online_user", "online_admin", "offline_read", "offline_user",
         "offline_admin", "done", "done_offline"},
   free : Nat, moved : Nat, set : BOOLEAN]

MemoryTypes ==
  /\ count \in [PageStates -> Nat]
  /\ snapshot \in [next : 1..7, read : [DOMAIN NoFields -> Nat], moved : Nat]
  /\ reserve \in [{"user", "admin"} -> Nat]
  /\ notifier \in NotifierType

(* Once the total has been read, what it is less than the pages now in use  *)
(* has moved since; and so for every counter that has been read, which then *)
(* stands in the place of what is in use.                                   *)
ReadSoFar ==
  LET s == snapshot.read  m == snapshot.moved  next == snapshot.next IN
  /\ next = 2 => Total <= s.total + m
  /\ next = 3 => s.free + count["active_anon"] + Cached <= s.total + m
  /\ next = 4 => s.free + s.active_anon + Cached <= s.total + m
  /\ next = 5 => s.free + Cached <= s.total + m
  /\ next > 4 => s.free + s.active_anon + s.active_file <= s.total + m
  /\ next > 5 => s.free + s.cache <= s.total + m
  /\ next = 6 => count["swapcache"] <= s.cache + m
  /\ next = 7 => s.swap <= s.cache + m

(* While nothing moves and nobody sets them, what the notifier has read is  *)
(* what is free, and the reserves it is through with are there.             *)
ResetSoFar ==
  LET free == K(count["free"]) IN
  /\ notifier.at \in {"offline_user", "offline_admin"} /\ notifier.moved = 0 =>
       notifier.free = free
  /\ notifier.at \in {"offline_admin", "done_offline"} /\ notifier.moved = 0 /\ ~notifier.set =>
       reserve["user"] <= free
  /\ notifier.at = "done_offline" /\ notifier.moved = 0 /\ ~notifier.set =>
       reserve["admin"] <= free

MemoryInv == MemoryTypes /\ ReadSoFar /\ ResetSoFar

LEMMA FieldsAreSix ==
  /\ DOMAIN NoFields = {"total", "free", "active_anon", "active_file", "cache", "swap"}
  /\ \A f \in DOMAIN NoFields : NoFields[f] = 0
  /\ DOMAIN Order = 1..6 /\ Len(Order) = 6
  /\ Order[1] = "total" /\ Order[2] = "free" /\ Order[3] = "active_anon"
  /\ Order[4] = "active_file" /\ Order[5] = "cache" /\ Order[6] = "swap"
<1>1. /\ DOMAIN Order = 1..6 /\ Len(Order) = 6
      /\ Order[1] = "total" /\ Order[2] = "free" /\ Order[3] = "active_anon"
      /\ Order[4] = "active_file" /\ Order[5] = "cache" /\ Order[6] = "swap"
  BY DEF Order
<1> HIDE DEF Order
<1>2. {Order[i] : i \in 1..6}
        = {"total", "free", "active_anon", "active_file", "cache", "swap"}
  <2>1. \A i \in 1..6 : i = 1 \/ i = 2 \/ i = 3 \/ i = 4 \/ i = 5 \/ i = 6
    BY SMT
  <2>2. 1 \in 1..6 /\ 2 \in 1..6 /\ 3 \in 1..6 /\ 4 \in 1..6 /\ 5 \in 1..6 /\ 6 \in 1..6
    BY SMT
  <2> QED  BY <1>1, <2>1, <2>2
<1> QED  BY <1>1, <1>2 DEF NoFields

LEMMA CountersAreNat ==
  ASSUME MemoryTypes
  PROVE  /\ \A s \in PageStates : count[s] \in Nat
         /\ Cached \in Nat /\ Total \in Nat
         /\ \A f \in DOMAIN NoFields : Counters[f] \in Nat
<1>1. \A s \in PageStates : count[s] \in Nat
  BY DEF MemoryTypes
<1>2. Cached \in Nat /\ Total \in Nat
  BY <1>1 DEF PageStates, Cached, Total
<1> QED  BY <1>1, <1>2, FieldsAreSix DEF Counters, PageStates

LEMMA ReserveFits ==
  ASSUME MemoryAssumption, MemoryTypes, NEW r \in {"user", "admin"}
  PROVE  InitReserve(r) \in Nat /\ InitReserve(r) <= K(count["free"])
<1>1. K(count["free"]) \in Nat
  BY CountersAreNat DEF MemoryAssumption, K, PageStates
<1>2. MaxOf[r] \in Nat
  BY DEF MemoryAssumption, MaxOf
<1> DEFINE k == K(count["free"])
<1>3. k \div 32 \in Nat /\ k \div 32 <= k
  <2> HIDE DEF k
  <2> QED  BY <1>1 DEF k
<1> QED  BY <1>1, <1>2, <1>3 DEF InitReserve, Least

-----------------------------------------------------------------------------
(* Pages that move *)

LEMMA MovedSnapshot ==
  ASSUME MemoryTypes, NEW pages \in Nat, SnapshotSees(pages), MemoryAssumption
  PROVE  /\ snapshot'.next = snapshot.next /\ snapshot'.read = snapshot.read
         /\ snapshot' \in [next : 1..7, read : [DOMAIN NoFields -> Nat], moved : Nat]
         /\ snapshot.next > 1 => snapshot'.moved = snapshot.moved + pages
<1>1. snapshot.moved \in Nat /\ snapshot.next \in 1..7
  BY DEF MemoryTypes
<1> QED  BY <1>1 DEF MemoryTypes, SnapshotSees

(* No page is in two states, so that one of them at most gains a page.      *)
LEMMA MoveKeepsInv ==
  ASSUME MemoryAssumption, MemoryInv, NEW from \in PageStates, NEW to \in PageStates,
         Move(from, to)
  PROVE  MemoryInv'
<1> USE DEF MemoryInv
<1>1. /\ count' = [count EXCEPT ![from] = @ - 1, ![to] = @ + 1]
      /\ from # to /\ count[from] > 0 /\ from \in Online /\ to \in Online
      /\ SnapshotSees(1) /\ reserve' = reserve
      /\ notifier' = [notifier EXCEPT !.moved = IF notifier.at # "idle" THEN @ + 1 ELSE @]
  BY DEF Move
<1>2. count' \in [PageStates -> Nat]
  BY <1>1 DEF MemoryTypes
<1>3. /\ notifier' \in NotifierType
      /\ notifier'.at = notifier.at
      /\ notifier.at # "idle" => notifier'.moved # 0
  <2>1. notifier \in NotifierType /\ notifier.moved \in Nat
    BY DEF MemoryTypes, NotifierType
  <2> QED  BY <1>1, <2>1 DEF NotifierType
<1>4. /\ snapshot'.next = snapshot.next /\ snapshot'.read = snapshot.read
      /\ snapshot' \in [next : 1..7, read : [DOMAIN NoFields -> Nat], moved : Nat]
      /\ snapshot.next > 1 => snapshot'.moved = snapshot.moved + 1
  BY <1>1, MovedSnapshot
<1>5. MemoryTypes'
  BY <1>1, <1>2, <1>3, <1>4 DEF MemoryTypes
<1>6. /\ Total' = Total /\ Cached' <= Cached + 1
      /\ count'["active_anon"] + Cached' <= count["active_anon"] + Cached + 1
      /\ count'["swapcache"] <= count["swapcache"] + 1
      /\ Total \in Nat /\ Cached \in Nat /\ Total' \in Nat /\ Cached' \in Nat
      /\ count["active_anon"] \in Nat /\ count'["active_anon"] \in Nat
      /\ count["swapcache"] \in Nat /\ count'["swapcache"] \in Nat
  <2>1. count \in [PageStates -> Nat]
    BY DEF MemoryTypes
  <2> QED  BY <1>1, <1>2, <2>1 DEF PageStates, Online, Total, Cached
<1>7. /\ snapshot.next \in 1..7 /\ snapshot.moved \in Nat
      /\ \A f \in {"total", "free", "active_anon", "active_file", "cache", "swap"} :
           snapshot.read[f] \in Nat
  BY FieldsAreSix DEF MemoryTypes
<1>8. ReadSoFar'
  BY <1>4, <1>6, <1>7 DEF ReadSoFar
<1>9. ResetSoFar'
  BY <1>1, <1>3 DEF ResetSoFar
<1> QED  BY <1>5, <1>8, <1>9

(* Pages come and go as free pages: what counts as cached or in use stays.  *)
LEMMA HotplugKeepsInv ==
  ASSUME MemoryAssumption, MemoryInv, NEW pages \in 1..Pages,
         MemOnline(pages) \/ MemOffline(pages)
  PROVE  MemoryInv'
<1> USE DEF MemoryInv
<1>0. pages \in Nat /\ count \in [PageStates -> Nat]
  BY DEF MemoryAssumption, MemoryTypes
<1>1. /\ SnapshotSees(pages) /\ reserve' = reserve
      /\ count' \in [PageStates -> Nat]
      /\ \A s \in Online \ {"free"} : count'[s] = count[s]
      /\ count'["free"] <= count["free"] + pages
  <2>1. CASE MemOnline(pages)
    BY <1>0, <2>1 DEF MemOnline, PageStates, Online
  <2>2. CASE MemOffline(pages)
    BY <1>0, <2>2 DEF MemOffline, PageStates, Online
  <2> QED  BY <2>1, <2>2
<1>2. notifier' \in NotifierType /\ notifier'.at \in {"online_user", "offline_read"}
  <2>1. NoNotifier \in NotifierType
    BY DEF NoNotifier, NotifierType
  <2>2. \/ notifier' = [NoNotifier EXCEPT !.at = "online_user"]
        \/ notifier' = [NoNotifier EXCEPT !.at = "offline_read"]
    BY DEF MemOnline, MemOffline
  <2> QED  BY <2>1, <2>2 DEF NotifierType
<1>4. /\ snapshot'.next = snapshot.next /\ snapshot'.read = snapshot.read
      /\ snapshot' \in [next : 1..7, read : [DOMAIN NoFields -> Nat], moved : Nat]
      /\ snapshot.next > 1 => snapshot'.moved = snapshot.moved + pages
  BY <1>0, <1>1, MovedSnapshot
<1>5. MemoryTypes'
  BY <1>1, <1>2, <1>4 DEF MemoryTypes
<1>6. /\ Total' <= Total + pages /\ Cached' = Cached
      /\ count'["active_anon"] = count["active_anon"]
      /\ count'["swapcache"] = count["swapcache"]
      /\ Total \in Nat /\ Cached \in Nat /\ Total' \in Nat
      /\ count["active_anon"] \in Nat /\ count["swapcache"] \in Nat
  BY <1>0, <1>1 DEF PageStates, Online, Total, Cached
<1>7. /\ snapshot.next \in 1..7 /\ snapshot.moved \in Nat
      /\ \A f \in {"total", "free", "active_anon", "active_file", "cache", "swap"} :
           snapshot.read[f] \in Nat
  BY FieldsAreSix DEF MemoryTypes
<1>8. ReadSoFar'
  BY <1>0, <1>4, <1>6, <1>7 DEF ReadSoFar
<1>9. ResetSoFar'
  BY <1>2 DEF ResetSoFar
<1> QED  BY <1>5, <1>8, <1>9

-----------------------------------------------------------------------------
(* The call *)

LEMMA CaptureKeepsInv ==
  ASSUME MemoryAssumption, MemoryInv, Capture
  PROVE  MemoryInv'
<1> USE DEF MemoryInv
<1> DEFINE f == Order[snapshot.next]
           s == snapshot.read
<1>1. /\ snapshot.next \in 1..6 /\ f \in DOMAIN NoFields
      /\ snapshot' = [snapshot EXCEPT !.next = @ + 1, !.read[f] = Counters[f]]
      /\ count' = count /\ reserve' = reserve /\ notifier' = notifier
  BY FieldsAreSix DEF Capture
<1>2. /\ snapshot'.next = snapshot.next + 1 /\ snapshot'.moved = snapshot.moved
      /\ snapshot'.read = [s EXCEPT ![f] = Counters[f]]
      /\ snapshot' \in [next : 1..7, read : [DOMAIN NoFields -> Nat], moved : Nat]
  <2>1. /\ snapshot \in [next : 1..7, read : [DOMAIN NoFields -> Nat], moved : Nat]
        /\ Counters[f] \in Nat
    BY <1>1, CountersAreNat DEF MemoryTypes
  <2> DEFINE g == [s EXCEPT ![f] = Counters[f]]
  <2>2. g \in [DOMAIN NoFields -> Nat]
    BY <1>1, <2>1
  <2>3. snapshot' = [next |-> snapshot.next + 1, read |-> g, moved |-> snapshot.moved]
    BY <1>1, <2>1
  <2>4. snapshot.next + 1 \in 1..7 /\ snapshot.moved \in Nat
    BY <1>1, <2>1
  <2> HIDE DEF g
  <2>5. /\ snapshot'.next = snapshot.next + 1 /\ snapshot'.moved = snapshot.moved
        /\ snapshot'.read = g
        /\ snapshot' \in [next : 1..7, read : [DOMAIN NoFields -> Nat], moved : Nat]
    BY <2>2, <2>3, <2>4
  <2> QED  BY <2>5 DEF g
<1>3. MemoryTypes'
  BY <1>1, <1>2 DEF MemoryTypes
<1>4. /\ s \in [DOMAIN NoFields -> Nat] /\ snapshot.moved \in Nat
      /\ \A g \in {"total", "free", "active_anon", "active_file", "cache", "swap"} :
           s[g] \in Nat
  BY FieldsAreSix DEF MemoryTypes
<1>5. /\ Counters["total"] = Total /\ Counters["free"] = count["free"]
      /\ Counters["active_anon"] = count["active_anon"]
      /\ Counters["active_file"] = count["active_file"]
      /\ Counters["cache"] = Cached /\ Counters["swap"] = count["swapcache"]
  BY DEF Counters
<1>6. /\ count["free"] \in Nat /\ count["active_anon"] \in Nat /\ count["file"] \in Nat
      /\ count["active_file"] \in Nat /\ count["swapcache"] \in Nat
      /\ Cached = count["file"] + count["active_file"] + count["swapcache"]
      /\ Total = count["free"] + count["active_anon"] + Cached
      /\ Cached \in Nat /\ Total \in Nat /\ Cached' = Cached /\ Total' = Total
  BY <1>1, CountersAreNat DEF PageStates, Cached, Total
<1> HIDE DEF s
<1>7. ReadSoFar'
  <2> SUFFICES ASSUME NEW n \in 1..6, snapshot.next = n
               PROVE  ReadSoFar'
    BY <1>1
  <2>1. CASE n = 1
    BY <1>1, <1>2, <1>4, <1>5, <1>6, <2>1, FieldsAreSix DEF ReadSoFar
  <2>2. CASE n = 2
    BY <1>1, <1>2, <1>4, <1>5, <1>6, <2>2, FieldsAreSix DEF ReadSoFar, s
  <2>3. CASE n = 3
    BY <1>1, <1>2, <1>4, <1>5, <1>6, <2>3, FieldsAreSix DEF ReadSoFar, s
  <2>4. CASE n = 4
    BY <1>1, <1>2, <1>4, <1>5, <1>6, <2>4, FieldsAreSix DEF ReadSoFar, s
  <2>5. CASE n = 5
    BY <1>1, <1>2, <1>4, <1>5, <1>6, <2>5, FieldsAreSix DEF ReadSoFar, s
  <2>6. CASE n = 6
    BY <1>1, <1>2, <1>4, <1>5, <1>6, <2>6, FieldsAreSix DEF ReadSoFar, s
  <2> QED  BY <2>1, <2>2, <2>3, <2>4, <2>5, <2>6
<1>8. ResetSoFar'
  BY <1>1 DEF ResetSoFar
<1> QED  BY <1>3, <1>7, <1>8

LEMMA NoSnapshotIsOne ==
  /\ NoSnapshot \in [next : 1..7, read : [DOMAIN NoFields -> Nat], moved : Nat]
  /\ NoSnapshot.next = 1
<1>1. NoFields \in [DOMAIN NoFields -> Nat]
  BY FieldsAreSix DEF NoFields
<1> QED  BY <1>1 DEF NoSnapshot

LEMMA ReturnKeepsInv ==
  ASSUME MemoryInv, CaptureReturn
  PROVE  MemoryInv'
<1>1. snapshot' = NoSnapshot /\ UNCHANGED <<count, reserve, notifier>>
  BY DEF CaptureReturn
<1> QED  BY <1>1, NoSnapshotIsOne DEF MemoryInv, MemoryTypes, ReadSoFar, ResetSoFar

-----------------------------------------------------------------------------
(* The reserves *)

(* Which of the steps of the notifier comes to an end. *)
NotifierRuns == OnlineUser \/ OnlineAdmin \/ OfflineRead \/ OfflineUser \/ OfflineAdmin
                  \/ NotifierReturn

LEMMA NotifierKeepsInv ==
  ASSUME MemoryAssumption, MemoryInv, NotifierRuns
  PROVE  MemoryInv'
<1> USE DEF MemoryInv
<1> DEFINE free == K(count["free"])
<1>1. count' = count /\ snapshot' = snapshot /\ free' = free
  BY DEF NotifierRuns, OnlineUser, OnlineAdmin, OfflineRead, OfflineUser, OfflineAdmin,
         NotifierReturn, K
<1>2. free \in Nat
  BY CountersAreNat DEF MemoryAssumption, K, PageStates
<1>3. notifier \in NotifierType /\ reserve \in [{"user", "admin"} -> Nat]
  BY DEF MemoryTypes
<1>4. /\ InitReserve("user") \in Nat /\ InitReserve("user") <= free
      /\ InitReserve("admin") \in Nat /\ InitReserve("admin") <= free
  BY ReserveFits
<1>5. ReadSoFar'
  BY <1>1 DEF ReadSoFar, Total, Cached
<1>6. notifier' \in NotifierType /\ reserve' \in [{"user", "admin"} -> Nat] /\ ResetSoFar'
  <2> HIDE DEF free
  <2>1. CASE OnlineUser
    BY <1>3, <1>4, <2>1 DEF OnlineUser, Then, InitOrKeep, NotifierType, ResetSoFar
  <2>2. CASE OnlineAdmin
    BY <1>3, <1>4, <2>2 DEF OnlineAdmin, Then, InitOrKeep, NotifierType, ResetSoFar
  <2>3. CASE OfflineRead
    BY <1>1, <1>2, <1>3, <2>3 DEF OfflineRead, NotifierType, ResetSoFar, free
  <2>4. CASE OfflineUser
    <3>1. /\ notifier.at = "offline_user" /\ notifier'.at = "offline_admin"
          /\ notifier' \in NotifierType /\ notifier'.free = notifier.free
          /\ notifier'.moved = notifier.moved /\ notifier'.set = notifier.set
      BY <1>3, <2>4 DEF OfflineUser, Then, NotifierType
    <3>2. reserve' \in [{"user", "admin"} -> Nat]
      BY <1>3, <1>4, <2>4 DEF OfflineUser, InitOrKeep
    <3>3. notifier.free = free => reserve'["user"] <= free
      BY <1>2, <1>3, <1>4, <2>4 DEF OfflineUser, InitOrKeep
    <3> QED  BY <1>1, <3>1, <3>2, <3>3 DEF ResetSoFar, free
  <2>5. CASE OfflineAdmin
    <3>1. /\ notifier.at = "offline_admin" /\ notifier'.at = "done_offline"
          /\ notifier' \in NotifierType
          /\ notifier'.moved = notifier.moved /\ notifier'.set = notifier.set
      BY <1>3, <2>5 DEF OfflineAdmin, Then, NotifierType
    <3>2. reserve' \in [{"user", "admin"} -> Nat] /\ reserve'["user"] = reserve["user"]
      BY <1>3, <1>4, <2>5 DEF OfflineAdmin, InitOrKeep
    <3>3. notifier.free = free => reserve'["admin"] <= free
      BY <1>2, <1>3, <1>4, <2>5 DEF OfflineAdmin, InitOrKeep
    <3> QED  BY <1>1, <3>1, <3>2, <3>3 DEF ResetSoFar, free
  <2>6. CASE NotifierReturn
    BY <1>3, <2>6 DEF NotifierReturn, NoNotifier, NotifierType, ResetSoFar
  <2> QED  BY <2>1, <2>2, <2>3, <2>4, <2>5, <2>6 DEF NotifierRuns
<1> QED  BY <1>1, <1>5, <1>6 DEF MemoryTypes

LEMMA SetKeepsInv ==
  ASSUME MemoryAssumption, MemoryInv, NEW r \in {"user", "admin"}, NEW kbytes \in ReserveArgs,
         SetReserve(r, kbytes)
  PROVE  MemoryInv'
<1> USE DEF MemoryInv
<1>1. /\ reserve' = [reserve EXCEPT ![r] = kbytes] /\ kbytes \in Nat
      /\ notifier' = [notifier EXCEPT !.set = notifier.at # "idle"]
      /\ count' = count /\ snapshot' = snapshot
  BY DEF SetReserve, MemoryAssumption
<1>2. MemoryTypes'
  BY <1>1 DEF MemoryTypes, NotifierType
<1>3. ReadSoFar'
  BY <1>1 DEF ReadSoFar, Total, Cached
<1>4. /\ notifier'.at = notifier.at /\ notifier'.free = notifier.free
      /\ notifier'.moved = notifier.moved /\ notifier.at # "idle" => notifier'.set
  BY <1>1 DEF MemoryTypes, NotifierType
<1>5. ResetSoFar'
  BY <1>1, <1>4 DEF ResetSoFar, K
<1> QED  BY <1>2, <1>3, <1>5

-----------------------------------------------------------------------------
LEMMA MemoryInvInit == MemoryAssumption /\ MemoryInit => MemoryInv
<1> SUFFICES ASSUME MemoryAssumption, MemoryInit
             PROVE  MemoryInv
  OBVIOUS
<1>1. count \in [PageStates -> Nat]
  BY DEF MemoryInit, MemoryAssumption
<1>2. InitReserve("user") \in Nat /\ InitReserve("admin") \in Nat
  <2>1. K(count["free"]) \in Nat
    BY <1>1 DEF MemoryAssumption, K, PageStates
  <2> DEFINE k == K(count["free"])
  <2>2. k \div 32 \in Nat
    <3> HIDE DEF k
    <3> QED  BY <2>1 DEF k
  <2> QED  BY <2>2 DEF InitReserve, Least, MaxOf, MemoryAssumption
<1>3. MemoryTypes
  BY <1>1, <1>2, NoSnapshotIsOne
  DEF MemoryInit, MemoryTypes, NoNotifier, NotifierType
<1>4. ReadSoFar /\ ResetSoFar
  BY NoSnapshotIsOne DEF MemoryInit, ReadSoFar, ResetSoFar, NoNotifier
<1> QED  BY <1>3, <1>4 DEF MemoryInv

LEMMA MemoryInvNext == MemoryInv /\ [MemoryNext]_memoryVars => MemoryInv'
<1> SUFFICES ASSUME MemoryInv, [MemoryNext]_memoryVars
             PROVE  MemoryInv'
  OBVIOUS
<1>1. CASE MovePages
  BY <1>1, MoveKeepsInv, MemoryAssumption DEF MovePages
<1>2. CASE Snapshot
  BY <1>2, CaptureKeepsInv, ReturnKeepsInv, MemoryAssumption DEF Snapshot
<1>3. CASE Hotplug
  BY <1>3, HotplugKeepsInv, NotifierKeepsInv, MemoryAssumption DEF Hotplug, NotifierRuns
<1>4. CASE Administer
  BY <1>4, SetKeepsInv, MemoryAssumption DEF Administer
<1>5. CASE UNCHANGED memoryVars
  BY <1>5 DEF memoryVars, MemoryInv, MemoryTypes, ReadSoFar, ResetSoFar, Total, Cached, K
<1> QED  BY <1>1, <1>2, <1>3, <1>4, <1>5 DEF MemoryNext

(* The inductive invariant of FreeMemory. *)
THEOREM MemoryInvariant == MemorySpec => []MemoryInv
<1>1. MemoryInit => MemoryInv
  BY MemoryInvInit, MemoryAssumption
<1> QED  BY <1>1, MemoryInvNext, PTL DEF MemorySpec

(* matus_capture_memory_snapshot() reads counters that move while it does:  *)
(* the sums of what it returns are off by the pages that have moved since   *)
(* its first read, and by no more.                                          *)
THEOREM SnapshotIsBounded == MemorySpec => []SnapshotIsOffByMoves
<1>1. MemoryInv => SnapshotIsOffByMoves
  <2> SUFFICES ASSUME MemoryInv, snapshot.next > 6
               PROVE  SnapshotIsOffByMoves
    BY DEF SnapshotIsOffByMoves
  <2>1. snapshot.next = 7
    BY DEF MemoryInv, MemoryTypes
  <2> QED  BY <2>1 DEF MemoryInv, ReadSoFar, SnapshotIsOffByMoves
<1> QED  BY <1>1, MemoryInvariant, PTL

(* When memory is removed, reserve_mem_notifier() leaves no reserve that    *)
(* exceeds the free memory it has read.                                     *)
THEOREM ReservesAreReset == MemorySpec => []ReservesAreThere
<1>1. MemoryInv => ReservesAreThere
  BY DEF MemoryInv, ResetSoFar, ReservesAreThere
<1> QED  BY <1>1, MemoryInvariant, PTL

-----------------------------------------------------------------------------
(* The I/O statistics *)

Values == Nat \cup {Unset}
Counts == [Fields -> Nat]

TaskType   == [state : {"unborn", "alive", "freed"}, count : Counts, delays : BOOLEAN]
CallType   == [next : 0..6, task : Tasks \cup {Unset}, read : [Fields -> Values], start : Counts]
AnswerType == [task : Tasks \cup {Unset}, read : [Fields -> Values], start : Counts, end : Counts]

IoTypes == tasks \in [Tasks -> TaskType] /\ kstats \in CallType /\ last \in AnswerType

(* The call is about a process that has begun, whose counters have not gone *)
(* back since; what it has read of them lies between.                       *)
CallSoFar ==
  kstats.next > 0 =>
    LET t == tasks[kstats.task] IN
    /\ kstats.task \in Tasks /\ t.state # "unborn"
    /\ \A f \in Fields : kstats.start[f] <= t.count[f]
    /\ \A f \in Fields : HasRead(f) =>
         IF kstats.read[f] = Unset THEN t.state = "freed" \/ (f = "blkio_delay" /\ ~t.delays)
         ELSE kstats.start[f] <= kstats.read[f] /\ kstats.read[f] <= t.count[f]

(* So does the last answer, which was there when a call began that is about *)
(* the same process.                                                        *)
AnswerIsPast ==
  last.task # Unset =>
    /\ last.task \in Tasks /\ tasks[last.task].state # "unborn"
    /\ \A f \in Fields :
         /\ last.start[f] <= last.end[f] /\ last.end[f] <= tasks[last.task].count[f]
         /\ last.read[f] # Unset => last.start[f] <= last.read[f] /\ last.read[f] <= last.end[f]
         /\ kstats.next > 0 /\ kstats.task = last.task => last.end[f] <= kstats.start[f]

IoInv == IoTypes /\ CallSoFar /\ AnswerIsPast

LEMMA FieldsAreFive ==
  DOMAIN FieldOrder = 1..5 /\ Len(FieldOrder) = 5 /\ \A i \in 1..5 : FieldOrder[i] \in Fields
<1>1. DOMAIN FieldOrder = 1..5 /\ Len(FieldOrder) = 5
  BY DEF FieldOrder
<1> QED  BY <1>1 DEF Fields

LEMMA NoStatsAreUnset ==
  /\ NoStats \in CallType /\ NoStats.next = 0 /\ NoAnswer \in AnswerType /\ NoAnswer.task = Unset
  /\ Zeros \in Counts
<1>1. Zeros \in Counts /\ [f \in Fields |-> Unset] \in [Fields -> Values]
  BY DEF Zeros, Counts, Values
<1> QED  BY <1>1 DEF NoStats, NoAnswer, CallType, AnswerType

(* What processes do: none is unborn again, or counts less than before.     *)
LEMMA TasksKeepInv ==
  ASSUME IoInv, tasks' \in [Tasks -> TaskType], UNCHANGED <<kstats, last>>,
         \A u \in Tasks :
           /\ tasks[u].state # "unborn" => tasks'[u].state # "unborn"
           /\ tasks[u].state = "freed" => tasks'[u].state = "freed"
           /\ tasks'[u].delays = tasks[u].delays
           /\ \A f \in Fields : tasks[u].count[f] <= tasks'[u].count[f]
  PROVE  IoInv'
<1> USE DEF IoInv
<1>1. kstats' = kstats /\ last' = last /\ IoTypes'
  BY DEF IoTypes
<1>2. \A u \in Tasks, f \in Fields : tasks[u].count[f] \in Nat /\ tasks'[u].count[f] \in Nat
  BY DEF IoTypes, TaskType, Counts
<1>3. \A f \in Fields : kstats.start[f] \in Nat /\ kstats.read[f] \in Values
  BY DEF IoTypes, CallType, Counts
<1>4. \A f \in Fields : last.start[f] \in Nat /\ last.end[f] \in Nat /\ last.read[f] \in Values
  BY DEF IoTypes, AnswerType, Counts
<1>5. \A f \in Fields : HasRead(f)' <=> HasRead(f)
  BY <1>1 DEF HasRead
<1>6. CallSoFar'
  BY <1>1, <1>2, <1>3, <1>5 DEF CallSoFar, Values
<1>7. AnswerIsPast'
  BY <1>1, <1>2, <1>4 DEF AnswerIsPast
<1> QED  BY <1>1, <1>6, <1>7

LEMMA StateKeepsInv ==
  ASSUME IoInv, NEW t \in Tasks, StartTask(t) \/ ExitTask(t)
  PROVE  IoInv'
<1>1. PICK new \in {"alive", "freed"} :
        tasks' = [tasks EXCEPT ![t].state = new] /\ tasks[t].state # "freed"
  BY DEF StartTask, ExitTask, Alive
<1>2. tasks \in [Tasks -> TaskType]
  BY DEF IoInv, IoTypes
<1> DEFINE one == [state |-> new, count |-> tasks[t].count, delays |-> tasks[t].delays]
<1>3. tasks' = [tasks EXCEPT ![t] = one] /\ one \in TaskType
  <2>1. tasks[t] \in TaskType
    BY <1>2
  <2>2. [tasks[t] EXCEPT !.state = new] = one
    BY <2>1 DEF TaskType
  <2>3. tasks' = [tasks EXCEPT ![t] = [tasks[t] EXCEPT !.state = new]]
    BY <1>1, <1>2
  <2>4. one \in TaskType
    BY <2>1 DEF TaskType
  <2> QED  BY <2>2, <2>3, <2>4
<1>4. \A u \in Tasks, f \in Fields : tasks[u].count[f] \in Nat
  BY <1>2 DEF TaskType, Counts
<1>5. one.count = tasks[t].count /\ one.delays = tasks[t].delays /\ one.state # "unborn"
  OBVIOUS
<1> HIDE DEF one
<1>6. tasks' \in [Tasks -> TaskType]
  BY <1>2, <1>3
<1>7. \A u \in Tasks :
        /\ tasks[u].state # "unborn" => tasks'[u].state # "unborn"
        /\ tasks[u].state = "freed" => tasks'[u].state = "freed"
        /\ tasks'[u].delays = tasks[u].delays
        /\ \A f \in Fields : tasks[u].count[f] <= tasks'[u].count[f]
  BY <1>1, <1>2, <1>3, <1>4, <1>5
<1>8. UNCHANGED <<kstats, last>>
  BY DEF StartTask, ExitTask
<1> QED  BY <1>6, <1>7, <1>8, TasksKeepInv

LEMMA AccountKeepsInv ==
  ASSUME IoInv, NEW t \in Tasks, NEW f \in Fields, NEW n \in Amounts, Account(t, f, n)
  PROVE  IoInv'
<1>1. tasks' = [tasks EXCEPT ![t].count[f] = @ + n] /\ n \in Nat
  BY IoAssumption DEF Account
<1>2. tasks \in [Tasks -> TaskType]
  BY DEF IoInv, IoTypes
<1> DEFINE more == [tasks[t].count EXCEPT ![f] = @ + n]
           one  == [state |-> tasks[t].state, count |-> more, delays |-> tasks[t].delays]
<1>3. \A u \in Tasks : tasks[u].count \in [Fields -> Nat]
  BY <1>2 DEF TaskType, Counts
<1>4. more \in Counts /\ \A g \in Fields : tasks[t].count[g] <= more[g]
  BY <1>1, <1>3 DEF Counts
<1>5. tasks' = [tasks EXCEPT ![t] = one]
  <2>1. [tasks[t] EXCEPT !.count = more] = one
    BY <1>2 DEF TaskType
  <2>2. tasks' = [tasks EXCEPT ![t] = [tasks[t] EXCEPT !.count = more]]
    BY <1>1, <1>2
  <2> QED  BY <2>1, <2>2
<1> HIDE DEF more
<1>6. one \in TaskType
  BY <1>2, <1>4 DEF TaskType
<1>7. one.count = more /\ one.delays = tasks[t].delays /\ one.state = tasks[t].state
  OBVIOUS
<1> HIDE DEF one
<1>8. tasks' \in [Tasks -> TaskType]
  BY <1>2, <1>5, <1>6
<1>9. \A u \in Tasks :
        /\ tasks[u].state # "unborn" => tasks'[u].state # "unborn"
        /\ tasks[u].state = "freed" => tasks'[u].state = "freed"
        /\ tasks'[u].delays = tasks[u].delays
        /\ \A g \in Fields : tasks[u].count[g] <= tasks'[u].count[g]
  BY <1>2, <1>3, <1>4, <1>5, <1>7
<1>10. UNCHANGED <<kstats, last>>
  BY DEF Account
<1> QED  BY <1>8, <1>9, <1>10, TasksKeepInv

LEMMA LookupKeepsInv ==
  ASSUME IoInv, NEW t \in Tasks, Lookup(t)
  PROVE  IoInv'
<1> USE DEF IoInv
<1>1. /\ tasks \in [Tasks -> TaskType] /\ last \in AnswerType /\ tasks' = tasks /\ last' = last
      /\ tasks[t].state = "alive" /\ tasks[t].count \in Counts /\ t # Unset
  BY IoAssumption DEF IoTypes, Lookup, Alive, TaskType
<1>2. /\ kstats'.next = 1 /\ kstats'.task = t /\ kstats'.start = tasks[t].count
      /\ kstats' \in CallType
  <2>1. kstats' = [next |-> 1, task |-> t, read |-> NoStats.read, start |-> tasks[t].count]
    BY NoStatsAreUnset DEF Lookup, CallType
  <2>2. NoStats.read \in [Fields -> Values]
    BY NoStatsAreUnset DEF CallType
  <2> QED  BY <1>1, <2>1, <2>2 DEF CallType
<1>3. \A f \in Fields : tasks[t].count[f] \in Nat /\ ~HasRead(f)'
  BY <1>1, <1>2 DEF Counts, HasRead
<1>4. CallSoFar'
  BY <1>1, <1>2, <1>3 DEF CallSoFar
<1>5. AnswerIsPast'
  BY <1>1, <1>2 DEF AnswerIsPast
<1> QED  BY <1>1, <1>2, <1>4, <1>5 DEF IoTypes

LEMMA ReadKeepsInv ==
  ASSUME IoInv, ReadField
  PROVE  IoInv'
<1> USE DEF IoInv
<1> DEFINE n == kstats.next
           f == FieldOrder[n]
           t == tasks[kstats.task]
           v == Value(f)
<1>1. /\ n \in 1..5 /\ f \in Fields /\ tasks' = tasks /\ last' = last
      /\ kstats' = [kstats EXCEPT !.next = @ + 1, !.read[f] = v]
  BY FieldsAreFive DEF ReadField
<1>2. /\ kstats \in CallType /\ kstats.task \in Tasks /\ t \in TaskType /\ t.count \in [Fields -> Nat]
      /\ \A g \in Fields : kstats.start[g] <= t.count[g]
  BY <1>1 DEF IoTypes, CallSoFar, TaskType, Counts
<1>3. /\ v \in Values
      /\ IF v = Unset THEN t.state = "freed" \/ (f = "blkio_delay" /\ ~t.delays)
         ELSE v = t.count[f]
  BY <1>1, <1>2, IoAssumption DEF Value, Values
<1> HIDE DEF v
<1>4. /\ kstats'.next = n + 1 /\ kstats'.task = kstats.task /\ kstats'.start = kstats.start
      /\ kstats'.read = [kstats.read EXCEPT ![f] = v] /\ kstats' \in CallType
  <2> DEFINE g == [kstats.read EXCEPT ![f] = v]
  <2>1. g \in [Fields -> Values]
    BY <1>2, <1>3 DEF CallType
  <2>2. kstats' = [next |-> n + 1, task |-> kstats.task, read |-> g, start |-> kstats.start]
    BY <1>1, <1>2 DEF CallType
  <2>3. n + 1 \in 0..6
    BY <1>1
  <2> HIDE DEF g
  <2>4. kstats' \in CallType /\ kstats'.next = n + 1 /\ kstats'.read = g
    BY <1>2, <2>1, <2>2, <2>3 DEF CallType
  <2> QED  BY <2>2, <2>4 DEF g
<1>5. ASSUME NEW g \in Fields, HasRead(g)', g # f
      PROVE  HasRead(g)
  <2>1. PICK i \in 1..((n + 1) - 1) : g = FieldOrder[i]
    BY <1>4, <1>5 DEF HasRead
  <2>2. i \in 1..(n - 1)
    BY <1>1, <1>5, <2>1
  <2> QED  BY <2>1, <2>2 DEF HasRead
<1>6. CallSoFar'
  <2>1. ASSUME NEW g \in Fields, HasRead(g)'
        PROVE  IF kstats'.read[g] = Unset
                 THEN t.state = "freed" \/ (g = "blkio_delay" /\ ~t.delays)
                 ELSE kstats.start[g] <= kstats'.read[g] /\ kstats'.read[g] <= t.count[g]
    <3>1. CASE g = f
      <4>1. kstats'.read[g] = v
        BY <1>1, <1>2, <1>4, <3>1 DEF CallType
      <4>2. t.count[g] \in Nat /\ kstats.start[g] <= t.count[g]
        BY <1>2
      <4> QED  BY <1>3, <3>1, <4>1, <4>2
    <3>2. CASE g # f
      <4>1. kstats'.read[g] = kstats.read[g] /\ HasRead(g)
        BY <1>2, <1>4, <1>5, <2>1, <3>2 DEF CallType
      <4> QED  BY <1>1, <4>1 DEF CallSoFar
    <3> QED  BY <3>1, <3>2
  <2> QED  BY <1>1, <1>2, <1>4, <2>1 DEF CallSoFar
<1>7. AnswerIsPast'
  BY <1>1, <1>4 DEF AnswerIsPast
<1> QED  BY <1>1, <1>4, <1>6, <1>7 DEF IoTypes

(* What is read of five fields is read of all. *)
LEMMA AllIsRead ==
  ASSUME kstats.next = 6, NEW f \in Fields
  PROVE  HasRead(f)
<1>1. PICK i \in DOMAIN FieldOrder : f = FieldOrder[i]
  BY DEF Fields
<1>2. i \in 1..(kstats.next - 1)
  BY <1>1, FieldsAreFive
<1> QED  BY <1>1, <1>2 DEF HasRead

LEMMA IoReturnKeepsInv ==
  ASSUME IoInv, IoReturn
  PROVE  IoInv'
<1> USE DEF IoInv
<1>1. /\ kstats \in CallType /\ kstats.next = 6 /\ kstats' = NoStats /\ tasks' = tasks
      /\ kstats.task \in Tasks /\ kstats.task # Unset /\ tasks \in [Tasks -> TaskType]
  BY FieldsAreFive, IoAssumption DEF IoReturn, IoTypes, CallType, CallSoFar
<1> DEFINE c   == tasks[kstats.task].count
           new == [task |-> kstats.task, read |-> kstats.read, start |-> kstats.start, end |-> c]
<1>2. /\ new \in AnswerType /\ new.task = kstats.task /\ new.read = kstats.read
      /\ new.start = kstats.start /\ new.end = c /\ c \in Counts
  BY <1>1 DEF CallType, AnswerType, TaskType
<1>3. last' \in {last, new}
  BY DEF IoReturn
<1>4. IoTypes' /\ CallSoFar'
  BY <1>1, <1>2, <1>3, NoStatsAreUnset DEF IoTypes, CallSoFar
<1>5. CASE last' = last
  BY <1>1, <1>4, <1>5, NoStatsAreUnset DEF AnswerIsPast
<1>6. CASE last' = new
  <2>1. ASSUME NEW f \in Fields
        PROVE  /\ new.start[f] <= new.end[f] /\ new.end[f] <= c[f]
               /\ new.read[f] # Unset => new.start[f] <= new.read[f] /\ new.read[f] <= new.end[f]
    <3>1. c[f] \in Nat /\ HasRead(f)
      BY <1>1, <1>2, AllIsRead DEF Counts
    <3> QED  BY <1>1, <1>2, <3>1 DEF CallSoFar
  <2>2. tasks[kstats.task].state # "unborn"
    BY <1>1 DEF CallSoFar
  <2> HIDE DEF new
  <2> QED  BY <1>1, <1>2, <1>4, <1>6, <2>1, <2>2, NoStatsAreUnset DEF AnswerIsPast
<1> QED  BY <1>3, <1>4, <1>5, <1>6

LEMMA IoInvInit == IoInit => IoInv
<1> SUFFICES ASSUME IoInit
             PROVE  IoInv
  OBVIOUS
<1>1. tasks \in [Tasks -> TaskType]
  BY NoStatsAreUnset DEF IoInit, TaskType
<1> QED  BY <1>1, NoStatsAreUnset DEF IoInit, IoInv, IoTypes, CallSoFar, AnswerIsPast

LEMMA IoInvNext == IoInv /\ [IoNext]_ioVars => IoInv'
<1> SUFFICES ASSUME IoInv, [IoNext]_ioVars
             PROVE  IoInv'
  OBVIOUS
<1>1. CASE UNCHANGED ioVars
  BY <1>1 DEF ioVars, IoInv, IoTypes, CallSoFar, AnswerIsPast, HasRead
<1> QED  BY <1>1, StateKeepsInv, AccountKeepsInv, LookupKeepsInv, ReadKeepsInv,
            IoReturnKeepsInv DEF IoNext

(* The inductive invariant of IoStats. *)
THEOREM IoInvariant == IoSpec => []IoInv
  BY IoInvInit, IoInvNext, PTL DEF IoSpec

(* matus_get_io_throttle() reads a process that may count, end and be       *)
(* replaced meanwhile: what it has read while the process was there is of   *)
(* the call, and the differences of two answers are of the time between     *)
(* them, give or take what was counted during the two calls.                *)
THEOREM RatesAreBounded == IoSpec => []RatesAreOfTheirTime
<1>1. IoInv => RatesAreOfTheirTime
  <2> SUFFICES ASSUME IoInv
               PROVE  RatesAreOfTheirTime
    OBVIOUS
  <2> DEFINE s(f) == kstats.read[f]
             t    == tasks[kstats.task]
  <2>1. ASSUME NEW f \in Fields, HasRead(f)
        PROVE  IF s(f) = Unset THEN t.state = "freed" \/ (f = "blkio_delay" /\ ~t.delays)
               ELSE kstats.start[f] <= s(f) /\ s(f) <= t.count[f]
    <3>1. kstats.next \in 0..6 /\ kstats.next > 0
      BY <2>1 DEF IoInv, IoTypes, CallType, HasRead
    <3> QED  BY <2>1, <3>1 DEF IoInv, CallSoFar
  <2>2. ASSUME NEW f \in Fields, HasRead(f), s(f) # Unset, last.task = kstats.task,
               last.read[f] # Unset
        PROVE  /\ last.read[f] <= s(f)
               /\ kstats.start[f] - last.end[f] <= s(f) - last.read[f]
               /\ s(f) - last.read[f] <= t.count[f] - last.start[f]
    <3>1. kstats.next \in 0..6 /\ kstats.next > 0
      BY <2>2 DEF IoInv, IoTypes, CallType, HasRead
    <3>2. kstats.task \in Tasks /\ last.task # Unset /\ t.count[f] \in Nat
      BY <2>2, <3>1, IoAssumption DEF IoInv, IoTypes, CallSoFar, TaskType, Counts
    <3>3. /\ s(f) \in Nat /\ kstats.start[f] \in Nat /\ last.start[f] \in Nat
          /\ last.end[f] \in Nat /\ last.read[f] \in Nat
      BY <2>2 DEF IoInv, IoTypes, CallType, AnswerType, Counts, Values
    <3>4. /\ last.start[f] <= last.read[f] /\ last.read[f] <= last.end[f]
          /\ last.end[f] <= kstats.start[f]
      BY <2>2, <3>1, <3>2 DEF IoInv, AnswerIsPast
    <3>5. kstats.start[f] <= s(f) /\ s(f) <= t.count[f]
      BY <2>1, <2>2
    <3> HIDE DEF s, t
    <3> QED  BY <3>2, <3>3, <3>4, <3>5
  <2> QED  BY <2>1, <2>2 DEF RatesAreOfTheirTime
<1> QED  BY <1>1, IoInvariant, PTL

-----------------------------------------------------------------------------
(* The tests take turns *)

Ats     == {"none", "step", "exit", "sleep", "kill"}
Run     == [f : Nat, k : Nat, ok : BOOLEAN, at : Ats]
Pcs     == {"create", "write", "sigaction", "read_pid", "loop", "pause", "exit", "gone"}
Program == [pc : Pcs, peer : {"unread", "read", "garbage"}, current_function : Nat,
            main : Run, handler : Run, score : Nat, buffer2 : Nat, buffer3 : Nat]

Types ==
  /\ limits \in [Pids -> Nat \cup {None}] /\ used \in Int
  /\ player \in [Players -> Program] /\ pending \in [Players -> BOOLEAN]

(* A function that runs is one of the four, at one of its steps. *)
RunIs(p, r) == r.at # "none" => r.f \in 1..total_functions /\ r.k \in 1..Len(Steps(p, r.f))
RunsWithin  == \A p \in Players : /\ player[p].current_function <= total_functions
                                  /\ \A ctx \in Ctx : RunIs(p, player[p][ctx])

Early   == {"create", "write", "sigaction", "read_pid"}
Idle(p) == \A ctx \in Ctx : player[p][ctx].at = "none"
NoTurn  == \A p \in Players : ~pending[p] /\ Idle(p)

(* A signal that is under way excludes another and a function that runs,    *)
(* which excludes another one.                                              *)
AtMostOne ==
  /\ \A p, q \in Players : pending[p] => (pending[q] => p = q) /\ Idle(q)
  /\ \A p, q \in Players : \A c, d \in Ctx :
       player[p][c].at # "none" /\ player[q][d].at # "none" => p = q /\ c = d

(* The first turn begins when A has read the number of B. *)
NotBegun == player[A].pc \in Early => NoTurn /\ player[A].current_function = 0

TurnInv == Types /\ RunsWithin /\ AtMostOne /\ NotBegun

-----------------------------------------------------------------------------

(* There are six processes. *)
LEMMA Distinct ==
  /\ A # B /\ B # C
  /\ \A i \in 1..3 : /\ Waiters[i] \notin {A, B, C}
                     /\ \A j \in 1..3 : Waiters[i] = Waiters[j] => i = j
<1> DEFINE six == [i \in 1..6 |-> CASE i = 1 -> A [] i = 2 -> B [] i = 3 -> C
                                    [] OTHER -> Waiters[i - 3]]
<1>1. Pids = {six[i] : i \in 1..6}
  <2>1. \A i \in 1..3 : six[i + 3] = Waiters[i]
    OBVIOUS
  <2>2. six[1] = A /\ six[2] = B /\ six[3] = C
    OBVIOUS
  <2>3. Dummies = {six[i] : i \in 4..6}
    <3>1. Dummies = {Waiters[i] : i \in 1..3}
      BY HandshakeAssumption DEF Dummies
    <3>2. \A i \in 4..6 : i - 3 \in 1..3 /\ six[i] = Waiters[i - 3]
      OBVIOUS
    <3>3. \A i \in 1..3 : i + 3 \in 4..6
      OBVIOUS
    <3> HIDE DEF six
    <3> QED  BY <2>1, <3>1, <3>2, <3>3
  <2>4. 1..6 = {1, 2, 3} \cup 4..6
    OBVIOUS
  <2> HIDE DEF six
  <2> QED  BY <2>2, <2>3, <2>4 DEF Pids
<1>2. six \in Surjection(1..6, Pids)
  <2>1. six \in [1..6 -> Pids]
    BY <1>1
  <2> HIDE DEF six
  <2> QED  BY <1>1, <2>1 DEF Surjection
<1>3. IsFiniteSet(1..6) /\ Cardinality(1..6) = 6
  <2>1. 1 \in Int /\ 6 \in Int
    OBVIOUS
  <2>2. IsFiniteSet(1..6) /\ Cardinality(1..6) = (IF 1 > 6 THEN 0 ELSE 6 - 1 + 1)
    BY <2>1, FS_Interval, Zenon
  <2> QED  BY <2>2
<1>5. six \in Injection(1..6, Pids)
  BY <1>2, <1>3, HandshakeAssumption, FS_SurjSameCardinalityImpliesInj
<1>6. \A i, j \in 1..6 : six[i] = six[j] => i = j
  BY <1>5 DEF Injection, IsInjective
<1>7. \A i, j \in 1..3 : Waiters[i] = Waiters[j] => i = j
  <2> SUFFICES ASSUME NEW i \in 1..3, NEW j \in 1..3, Waiters[i] = Waiters[j] PROVE i = j
    OBVIOUS
  <2>1. i + 3 \in 1..6 /\ j + 3 \in 1..6 /\ six[i + 3] = Waiters[i] /\ six[j + 3] = Waiters[j]
    OBVIOUS
  <2>2. i + 3 = j + 3
    BY <1>6, <2>1
  <2> QED  BY <2>2
<1>8. \A i \in 1..3 : Waiters[i] \notin {A, B, C}
  <2> SUFFICES ASSUME NEW i \in 1..3 PROVE Waiters[i] \notin {six[1], six[2], six[3]}
    OBVIOUS
  <2>1. i + 3 \in 1..6 /\ six[i + 3] = Waiters[i] /\ i + 3 \notin {1, 2, 3}
    OBVIOUS
  <2> HIDE DEF six
  <2> QED  BY <1>6, <2>1
<1>9. A # B /\ B # C
  <2>1. six[1] = A /\ six[2] = B /\ six[3] = C
    OBVIOUS
  <2> HIDE DEF six
  <2> QED  BY <1>6, <2>1
<1> QED  BY <1>7, <1>8, <1>9

(* What becomes of the one that acts. *)
LEMMA PutOne ==
  ASSUME player \in [Players -> Program], NEW p \in Players, NEW new \in Program, Put(p, new)
  PROVE  /\ player' \in [Players -> Program] /\ player'[p] = new
         /\ \A q \in Players : q # p => player'[q] = player[q]
  BY DEF Put

LEMMA PutRun ==
  ASSUME NEW b \in Program, NEW r \in Run, NEW ctx \in Ctx
  PROVE  LET new == [b EXCEPT ![ctx] = r] IN
         /\ new \in Program /\ new[ctx] = r
         /\ \A d \in Ctx : d # ctx => new[d] = b[d]
         /\ new.pc = b.pc /\ new.peer = b.peer /\ new.current_function = b.current_function
         /\ new.score = b.score /\ new.buffer2 = b.buffer2 /\ new.buffer3 = b.buffer3
  BY DEF Ctx, Program, Run

(* A step after which there are no more turns than before. *)
NoNewTurn ==
  \A q \in Players :
    /\ pending'[q] => pending[q]
    /\ \A ctx \in Ctx : player'[q][ctx].at # "none" => player[q][ctx].at # "none"
    /\ player'[q].pc \in Early => player[q].pc \in Early
    /\ player'[q].current_function = player[q].current_function

LEMMA NoNewTurnKeeps ==
  ASSUME AtMostOne, NotBegun, NoNewTurn
  PROVE  AtMostOne' /\ NotBegun'
<1>1. \A q \in Players : Idle(q) => Idle(q)'
  BY DEF Idle, NoNewTurn
<1>2. AtMostOne'
  BY <1>1 DEF AtMostOne, NoNewTurn
<1>3. A \in Players
  BY DEF Players
<1>4. NotBegun'
  BY <1>1, <1>3 DEF NotBegun, NoNewTurn, NoTurn
<1> QED  BY <1>2, <1>4

(* What the functions do, step by step. *)
LEMMA StepsOfA ==
  /\ Steps(A, 1)[1] = Add(B, 10) /\ Steps(A, 2)[1] = Update(B, 30)
  /\ Steps(A, 3)[1] = Add(Waiters[1], 100) /\ Steps(A, 3)[2] = Add(Waiters[2], 1024)
  /\ Steps(A, 3)[3] = Add(Waiters[3], 421) /\ Steps(A, 3)[4] = Get(0)
  /\ Steps(A, 3)[5] = Remove(Waiters[1])   /\ Steps(A, 3)[6] = Get(1)
  /\ Steps(A, 3)[7] = Remove(B)            /\ Steps(A, 3)[8] = Get(2)
  /\ Steps(A, 4)[1] = Add(B, 100)
  BY DEF Steps, functions_A

LEMMA StepsOfB ==
  /\ Steps(B, 1)[1] = Alloc("expect_null", 20)
  /\ Steps(B, 2)[1] = Alloc("buffer2", 20) /\ Steps(B, 2)[2] = Alloc("expect_null", 20)
  /\ Steps(B, 3)[1] = Alloc("buffer3", 35)
  /\ Steps(B, 4)[1] = Alloc("buffer2", 90) /\ Steps(B, 4)[2] = Alloc("expect_null", 30)
  BY Distinct DEF Steps, functions_B

(* How many they are. *)
LEMMA Lengths ==
  /\ Len(Steps(A, 1)) = 1 /\ Len(Steps(A, 2)) = 1 /\ Len(Steps(A, 3)) = 8 /\ Len(Steps(A, 4)) = 1
  /\ Len(Steps(B, 1)) = 1 /\ Len(Steps(B, 2)) = 2 /\ Len(Steps(B, 3)) = 1 /\ Len(Steps(B, 4)) = 2
<1>1. Len(Steps(A, 1)) = 1 /\ Len(Steps(A, 2)) = 1 /\ Len(Steps(A, 3)) = 8 /\ Len(Steps(A, 4)) = 1
  BY DEF Steps, functions_A
<1>2. Len(Steps(B, 1)) = 1 /\ Len(Steps(B, 2)) = 2 /\ Len(Steps(B, 3)) = 1 /\ Len(Steps(B, 4)) = 2
  BY Distinct DEF Steps, functions_B
<1> QED  BY <1>1, <1>2

LEMMA SomeSteps ==
  ASSUME NEW p \in Players, NEW f \in 1..total_functions
  PROVE  Len(Steps(p, f)) \in Nat /\ Len(Steps(p, f)) >= 1
<1> DEFINE Some(n) == n \in Nat /\ n >= 1
<1>1. Some(1) /\ Some(2) /\ Some(8)
  OBVIOUS
<1> HIDE DEF Some
<1>2. \A i \in {1, 2, 3, 4} : Some(Len(Steps(A, i))) /\ Some(Len(Steps(B, i)))
  BY <1>1, Lengths
<1>3. Some(Len(Steps(p, f)))
  BY <1>2 DEF Players, total_functions
<1> QED  BY <1>3 DEF Some

(* Where a function can be. *)
LEMMA PlaceInA ==
  ASSUME NEW f \in 1..total_functions, NEW k \in 1..Len(Steps(A, f))
  PROVE  \/ f \in {1, 2, 4} /\ k = 1
         \/ f = 3 /\ k \in {1, 2, 3, 4, 5, 6, 7, 8}
<1>1. CASE f = 1
  <2>1. k \in 1..1
    BY <1>1, Lengths
  <2> QED  BY <1>1, <2>1
<1>2. CASE f = 2
  <2>1. k \in 1..1
    BY <1>2, Lengths
  <2> QED  BY <1>2, <2>1
<1>3. CASE f = 3
  <2>1. k \in 1..8
    BY <1>3, Lengths
  <2> QED  BY <1>3, <2>1
<1>4. CASE f = 4
  <2>1. k \in 1..1
    BY <1>4, Lengths
  <2> QED  BY <1>4, <2>1
<1> QED  BY <1>1, <1>2, <1>3, <1>4 DEF total_functions

LEMMA PlaceInB ==
  ASSUME NEW f \in 1..total_functions, NEW k \in 1..Len(Steps(B, f))
  PROVE  \/ f \in {1, 3} /\ k = 1
         \/ f \in {2, 4} /\ k \in {1, 2}
<1>1. CASE f = 1
  <2>1. k \in 1..1
    BY <1>1, Lengths
  <2> QED  BY <1>1, <2>1
<1>2. CASE f = 2
  <2>1. k \in 1..2
    BY <1>2, Lengths
  <2> QED  BY <1>2, <2>1
<1>3. CASE f = 3
  <2>1. k \in 1..1
    BY <1>3, Lengths
  <2> QED  BY <1>3, <2>1
<1>4. CASE f = 4
  <2>1. k \in 1..2
    BY <1>4, Lengths
  <2> QED  BY <1>4, <2>1
<1> QED  BY <1>1, <1>2, <1>3, <1>4 DEF total_functions

(* Whom and what a call of A names. *)
LEMMA CallsOfA ==
  ASSUME NEW f \in 1..total_functions, NEW k \in 1..Len(Steps(A, f))
  PROVE  /\ Steps(A, f)[k].mb \in Nat
         /\ Steps(A, f)[k].pid \in {B, None, Waiters[1], Waiters[2], Waiters[3]}
         /\ Steps(A, f)[k].op \in {"add", "update", "remove", "get"}
<1> DEFINE pids == {B, None, Waiters[1], Waiters[2], Waiters[3]}
           Good(s) == s.mb \in Nat /\ s.pid \in pids /\ s.op \in {"add", "update", "remove", "get"}
<1>1. \A q \in pids : \A mb \in Nat :
        Good(Add(q, mb)) /\ Good(Update(q, mb)) /\ Good(Remove(q)) /\ Good(Get(mb))
  BY DEF Add, Update, Remove, Get
<1>2. /\ B \in pids /\ Waiters[1] \in pids /\ Waiters[2] \in pids /\ Waiters[3] \in pids
      /\ {0, 1, 2, 10, 30, 100, 421, 1024} \subseteq Nat
  OBVIOUS
<1> HIDE DEF Good, pids
<1>3. Good(Steps(A, 1)[1]) /\ Good(Steps(A, 2)[1]) /\ Good(Steps(A, 4)[1])
  BY <1>1, <1>2, StepsOfA
<1>4. /\ Good(Add(Waiters[1], 100)) /\ Good(Add(Waiters[2], 1024)) /\ Good(Add(Waiters[3], 421))
      /\ Good(Get(0)) /\ Good(Get(1)) /\ Good(Get(2)) /\ Good(Remove(Waiters[1])) /\ Good(Remove(B))
  BY <1>1, <1>2
<1>5. /\ Good(Steps(A, 3)[1]) /\ Good(Steps(A, 3)[2]) /\ Good(Steps(A, 3)[3])
      /\ Good(Steps(A, 3)[4]) /\ Good(Steps(A, 3)[5]) /\ Good(Steps(A, 3)[6])
      /\ Good(Steps(A, 3)[7]) /\ Good(Steps(A, 3)[8])
  BY <1>4, StepsOfA
<1>6. Good(Steps(A, f)[k])
  BY <1>3, <1>5, PlaceInA
<1> QED  BY <1>6 DEF Good, pids

LEMMA StepTyped ==
  ASSUME NEW p \in Players, NEW f \in 1..total_functions, NEW k \in 1..Len(Steps(p, f))
  PROVE  /\ Len(Steps(p, f)) \in Nat /\ Len(Steps(p, f)) >= 1
         /\ Steps(p, f)[k].mb \in Nat
<1>1. Len(Steps(p, f)) \in Nat /\ Len(Steps(p, f)) >= 1
  BY SomeSteps
<1>2. CASE p = A
  BY <1>1, <1>2, CallsOfA
<1>3. CASE p = B
  <2>1. /\ Steps(B, 1)[1].mb \in Nat /\ Steps(B, 2)[1].mb \in Nat /\ Steps(B, 2)[2].mb \in Nat
        /\ Steps(B, 3)[1].mb \in Nat /\ Steps(B, 4)[1].mb \in Nat /\ Steps(B, 4)[2].mb \in Nat
    BY StepsOfB DEF Alloc
  <2>2. Steps(B, f)[k].mb \in Nat
    BY <1>3, <2>1, PlaceInB
  <2> QED  BY <1>1, <1>3, <2>2
<1> QED  BY <1>2, <1>3 DEF Players

LEMMA BeginsWithin ==
  ASSUME NEW p \in Players, NEW f \in 1..total_functions
  PROVE  Begin(f) \in Run /\ Begin(f).at # "none" /\ RunIs(p, Begin(f))
<1>1. f \in Nat
  BY DEF total_functions
<1>2. Len(Steps(p, f)) \in Nat /\ Len(Steps(p, f)) >= 1
  BY SomeSteps
<1>3. 1 \in 1..Len(Steps(p, f))
  BY <1>2
<1>4. Begin(f) \in Run /\ Begin(f).at = "step" /\ Begin(f).f = f /\ Begin(f).k = 1
  BY <1>1 DEF Begin, Run, Ats
<1> QED  BY <1>3, <1>4 DEF RunIs

(* A program that keeps its runs within bounds. *)
LEMMA PutWithin ==
  ASSUME Types, RunsWithin, NEW p \in Players, NEW new \in Program, Put(p, new),
         new.current_function <= total_functions, \A ctx \in Ctx : RunIs(p, new[ctx])
  PROVE  player' \in [Players -> Program] /\ RunsWithin'
<1>1. /\ player' \in [Players -> Program] /\ player'[p] = new
      /\ \A q \in Players : q # p => player'[q] = player[q]
  BY PutOne DEF Types
<1>2. RunsWithin'
  <2> SUFFICES ASSUME NEW q \in Players
               PROVE  /\ player'[q].current_function <= total_functions
                      /\ \A ctx \in Ctx : RunIs(q, player'[q][ctx])
    BY DEF RunsWithin, RunIs
  <2>1. CASE q = p
    BY <1>1, <2>1
  <2>2. CASE q # p
    BY <1>1, <2>2 DEF RunsWithin
  <2> QED  BY <2>1, <2>2
<1> QED  BY <1>1, <1>2

(* main() goes on. *)
LEMMA GotoKeeps ==
  ASSUME TurnInv, NEW p \in Players, NEW pc \in Pcs, Goto(p, pc),
         pc \in Early => player[p].pc \in Early,
         pending' \in [Players -> BOOLEAN], \A q \in Players : pending'[q] => pending[q],
         limits' = limits, used' = used
  PROVE  TurnInv'
<1> DEFINE new == [player[p] EXCEPT !.pc = pc]
<1>1. /\ new \in Program /\ new.pc = pc /\ new.current_function = player[p].current_function
      /\ new.main = player[p].main /\ new.handler = player[p].handler
  BY DEF TurnInv, Types, Program
<1>2. Put(p, new)
  BY DEF Goto
<1> HIDE DEF new
<1>3. \A ctx \in Ctx : new[ctx] = player[p][ctx]
  BY <1>1 DEF Ctx
<1>4. player' \in [Players -> Program] /\ RunsWithin'
  BY <1>1, <1>2, <1>3, PutWithin DEF TurnInv, RunsWithin
<1>5. player'[p] = new /\ \A q \in Players : q # p => player'[q] = player[q]
  BY <1>1, <1>2, PutOne DEF TurnInv, Types
<1>6. NoNewTurn
  BY <1>1, <1>3, <1>5 DEF NoNewTurn
<1>7. AtMostOne' /\ NotBegun'
  BY <1>6, NoNewTurnKeeps DEF TurnInv
<1> QED  BY <1>4, <1>7 DEF TurnInv, Types

(* A function goes on, or ends. *)
LEMMA RunKeeps ==
  ASSUME TurnInv, NEW p \in Players, NEW ctx \in Ctx, NEW b \in Program, NEW r \in Run,
         b.pc = player[p].pc, b.current_function = player[p].current_function,
         \A d \in Ctx : b[d] = player[p][d],
         player[p][ctx].at # "none", RunIs(p, r), Put(p, [b EXCEPT ![ctx] = r]),
         pending' = pending, limits' \in [Pids -> Nat \cup {None}], used' \in Int
  PROVE  TurnInv'
<1> DEFINE new == [b EXCEPT ![ctx] = r]
<1>1. /\ new \in Program /\ new[ctx] = r /\ \A d \in Ctx : d # ctx => new[d] = player[p][d]
      /\ new.pc = player[p].pc /\ new.current_function = player[p].current_function
  BY PutRun
<1>2. Put(p, new)
  OBVIOUS
<1> HIDE DEF new
<1>3. player' \in [Players -> Program] /\ RunsWithin'
  BY <1>1, <1>2, PutWithin DEF TurnInv, RunsWithin
<1>4. player'[p] = new /\ \A q \in Players : q # p => player'[q] = player[q]
  BY <1>1, <1>2, PutOne DEF TurnInv, Types
<1>5. NoNewTurn
  <2> SUFFICES ASSUME NEW q \in Players
               PROVE  /\ pending'[q] => pending[q]
                      /\ \A d \in Ctx : player'[q][d].at # "none" => player[q][d].at # "none"
                      /\ player'[q].pc \in Early => player[q].pc \in Early
                      /\ player'[q].current_function = player[q].current_function
    BY DEF NoNewTurn
  <2>1. CASE q = p
    BY <1>1, <1>4, <2>1
  <2>2. CASE q # p
    BY <1>4, <2>2
  <2> QED  BY <2>1, <2>2
<1>6. AtMostOne' /\ NotBegun'
  BY <1>5, NoNewTurnKeeps DEF TurnInv
<1> QED  BY <1>3, <1>6 DEF TurnInv, Types

(* What a system call leaves is a list of limits. *)
LEMMA CalledTyped ==
  ASSUME Types, NEW s, s.mb \in Nat, s.op \in {"add", "update", "remove"}
  PROVE  Called(s).limits \in [Pids -> Nat \cup {None}]
<1> DEFINE q == Named(s.pid)
<1>1. CASE s.op = "add"
  <2>1. Called(s) = matus_add_memory_limit(q, s.mb)
    BY <1>1 DEF Called
  <2> HIDE DEF q
  <2>2. matus_add_memory_limit(q, s.mb).limits \in {limits, [limits EXCEPT ![q] = s.mb]}
    BY DEF matus_add_memory_limit
  <2> QED  BY <2>1, <2>2 DEF Types
<1>2. CASE s.op = "update"
  <2>1. Called(s) = Listed(q, s.mb)
    BY <1>2 DEF Called, matus_update_memory_limit
  <2> HIDE DEF q
  <2>2. Listed(q, s.mb).limits \in {limits, [limits EXCEPT ![q] = s.mb]}
    BY DEF Listed
  <2> QED  BY <2>1, <2>2 DEF Types
<1>3. CASE s.op = "remove"
  <2>1. Called(s) = Listed(q, None)
    BY <1>3 DEF Called, matus_remove_memory_limit
  <2> HIDE DEF q
  <2>2. Listed(q, None).limits \in {limits, [limits EXCEPT ![q] = None]}
    BY DEF Listed
  <2> QED  BY <2>1, <2>2 DEF Types
<1> QED  BY <1>1, <1>2, <1>3

(* What comes after a step keeps to its function. *)
LEMMA NextStep ==
  ASSUME NEW p \in Players, NEW r \in Run, NEW ok \in BOOLEAN, r.at = "step", RunIs(p, r)
  PROVE  /\ After(p, r, ok) \in Run /\ RunIs(p, After(p, r, ok))
         /\ After(p, r, ok).at # "none" /\ After(p, r, ok).f = r.f
<1> DEFINE n == Len(Steps(p, r.f))
<1>1. r.f \in 1..total_functions /\ r.k \in 1..n /\ r.k \in Nat
  BY DEF RunIs, Run
<1>2. n \in Nat
  BY <1>1, StepTyped
<1> HIDE DEF n
<1>3. CASE ok /\ r.k < n
  <2> DEFINE a == [r EXCEPT !.k = @ + 1]
  <2>1. a \in Run /\ a.at = "step" /\ a.f = r.f /\ a.k = r.k + 1
    BY <1>1 DEF Run
  <2>2. a.k \in 1..n
    BY <1>1, <1>2, <1>3, <2>1
  <2> HIDE DEF a
  <2>3. RunIs(p, a)
    BY <1>1, <2>1, <2>2 DEF RunIs, n
  <2> QED  BY <1>3, <2>1, <2>3 DEF a, n, After
<1>4. CASE ~(ok /\ r.k < n)
  <2> DEFINE a == [r EXCEPT !.at = "exit", !.ok = ok]
  <2>1. a \in Run /\ a.at = "exit" /\ a.f = r.f /\ a.k = r.k
    BY DEF Run, Ats
  <2> HIDE DEF a
  <2>2. RunIs(p, a)
    BY <1>1, <2>1 DEF RunIs, n
  <2> QED  BY <1>4, <2>1, <2>2 DEF a, n, After
<1> QED  BY <1>3, <1>4

(* The fields that an allocation leaves. *)
LEMMA BuffersOf ==
  ASSUME NEW b \in Program, NEW x
  PROVE  /\ [b EXCEPT !.buffer2 = x].buffer2 = x /\ [b EXCEPT !.buffer2 = x].buffer3 = b.buffer3
         /\ [b EXCEPT !.buffer3 = x].buffer3 = x /\ [b EXCEPT !.buffer3 = x].buffer2 = b.buffer2
  BY DEF Program

LEMMA WithBuffersTyped ==
  ASSUME player[B] \in Program, NEW mb \in Nat, NEW new \in WithBuffers(mb)
  PROVE  /\ new \in Program /\ new.pc = player[B].pc /\ new.peer = player[B].peer
         /\ new.current_function = player[B].current_function
         /\ new.score = player[B].score
         /\ \A d \in Ctx : new[d] = player[B][d]
<1>1. PICK x \in {player[B].buffer2, mb}, y \in {player[B].buffer3, mb} :
        new = [player[B] EXCEPT !.buffer2 = x, !.buffer3 = y]
  BY DEF WithBuffers
<1>2. x \in Nat /\ y \in Nat
  BY DEF Program
<1> QED  BY <1>1, <1>2 DEF Program, Ctx

LEMMA FunctionStepKeepsTurn ==
  ASSUME TurnInv, NEW p \in Players, NEW ctx \in Ctx, FunctionStep(p, ctx)
  PROVE  TurnInv'
<1> DEFINE r == player[p][ctx]
           s == Steps(p, r.f)[r.k]
<1>1. /\ r.at = "step" /\ pending' = pending
      /\ \E ok \in BOOLEAN :
           \/ p = A /\ StepOfA(s, ok) /\ Put(p, [player[p] EXCEPT ![ctx] = After(p, r, ok)])
           \/ p = B /\ \E new \in WithBuffers(s.mb) :
              StepOfB(s, new, ok) /\ Put(p, [new EXCEPT ![ctx] = After(p, r, ok)])
  BY DEF FunctionStep
<1>2. player[p] \in Program /\ r \in Run /\ RunIs(p, r)
  BY DEF TurnInv, Types, RunsWithin, Program, Ctx
<1>3. s.mb \in Nat
  BY <1>1, <1>2, StepTyped DEF RunIs
<1>4. PICK ok \in BOOLEAN :
        \/ p = A /\ StepOfA(s, ok) /\ Put(p, [player[p] EXCEPT ![ctx] = After(p, r, ok)])
        \/ p = B /\ \E new \in WithBuffers(s.mb) :
                      StepOfB(s, new, ok) /\ Put(p, [new EXCEPT ![ctx] = After(p, r, ok)])
  BY <1>1
<1>5. After(p, r, ok) \in Run /\ RunIs(p, After(p, r, ok))
  BY <1>1, <1>2, NextStep
<1>6. r.at # "none"
  BY <1>1
<1> HIDE DEF s
<1>7. CASE p = A /\ StepOfA(s, ok) /\ Put(p, [player[p] EXCEPT ![ctx] = After(p, r, ok)])
  <2>1. limits' = limits \/ (s.op \in {"add", "update", "remove"} /\ limits' = Called(s).limits)
    <3>1. s.op \in {"add", "update", "remove", "get"}
      <4>1. r.f \in 1..total_functions /\ r.k \in 1..Len(Steps(A, r.f))
        BY <1>2, <1>6, <1>7 DEF RunIs
      <4> HIDE DEF r
      <4>2. Steps(A, r.f)[r.k].op \in {"add", "update", "remove", "get"}
        BY <4>1, CallsOfA
      <4> QED  BY <1>7, <4>2 DEF s
    <3> QED  BY <1>7, <3>1 DEF StepOfA
  <2>2. limits' \in [Pids -> Nat \cup {None}]
    BY <1>3, <2>1, CalledTyped DEF TurnInv, Types
  <2>3. used' \in Int
    BY <1>7 DEF StepOfA, TurnInv, Types
  <2> QED  BY <1>1, <1>2, <1>5, <1>6, <1>7, <2>2, <2>3, RunKeeps
<1>8. ASSUME p = B,
             NEW new \in WithBuffers(s.mb),
             StepOfB(s, new, ok), Put(p, [new EXCEPT ![ctx] = After(p, r, ok)])
      PROVE  TurnInv'
  <2>1. /\ new \in Program /\ new.pc = player[p].pc
        /\ new.current_function = player[p].current_function
        /\ \A d \in Ctx : new[d] = player[p][d]
    BY <1>2, <1>3, <1>8, WithBuffersTyped
  <2>2. used' \in Int /\ limits' \in [Pids -> Nat \cup {None}]
    BY <1>3, <1>8 DEF StepOfB, TurnInv, Types
  <2> QED  BY <1>1, <1>5, <1>6, <1>8, <2>1, <2>2, RunKeeps
<1> QED  BY <1>4, <1>7, <1>8

(* The label of a function that is through: it sleeps, or signals next. *)
LEMMA MovesOn ==
  ASSUME NEW p \in Players, NEW r \in Run, NEW at \in Ats, RunIs(p, r), r.at # "none"
  PROVE  [r EXCEPT !.at = at] \in Run /\ RunIs(p, [r EXCEPT !.at = at])
<1> DEFINE a == [r EXCEPT !.at = at]
<1>1. a \in Run /\ a.f = r.f /\ a.k = r.k
  BY DEF Run
<1> HIDE DEF a
<1>2. RunIs(p, a)
  BY <1>1 DEF RunIs
<1> QED  BY <1>1, <1>2 DEF a

(* What the invariant says of a program and of what it runs. *)
LEMMA PlayerTyped ==
  ASSUME TurnInv, NEW p \in Players, NEW ctx \in Ctx
  PROVE  /\ player[p] \in Program /\ player[p][ctx] \in Run /\ RunIs(p, player[p][ctx])
         /\ player[p].buffer2 \in Nat /\ player[p].buffer3 \in Nat /\ player[p].score \in Nat
         /\ player[p].current_function \in 0..total_functions
  BY DEF TurnInv, Types, RunsWithin, Program, Ctx, total_functions

(* What FunctionExit leaves: ctx sleeps, in a program b with the score and  *)
(* the buffers that come of it.                                             *)
LEMMA ExitAs ==
  ASSUME TurnInv, NEW p \in Players, NEW ctx \in Ctx, FunctionExit(p, ctx)
  PROVE  \E b \in Program :
           /\ b.pc = player[p].pc /\ b.current_function = player[p].current_function
           /\ b.peer = player[p].peer /\ \A d \in Ctx : b[d] = player[p][d]
           /\ b.buffer2 = (IF Frees(p, player[p][ctx].f) THEN 0 ELSE player[p].buffer2)
           /\ b.buffer3 = (IF Frees(p, player[p][ctx].f) THEN 0 ELSE player[p].buffer3)
           /\ Put(p, [b EXCEPT ![ctx] = [player[p][ctx] EXCEPT !.at = "sleep"]])
<1> DEFINE r == player[p][ctx]
           score == player[p].score + (IF r.ok THEN 1 ELSE 0)
           frees == Frees(p, r.f)
           b == [player[p] EXCEPT !.score = score,
                                  !.buffer2 = IF frees THEN 0 ELSE @,
                                  !.buffer3 = IF frees THEN 0 ELSE @]
<1>1. player[p] \in Program /\ r \in Run
  BY PlayerTyped
<1>2. score \in Nat
  BY <1>1 DEF Program
<1> HIDE DEF score
<1>3. /\ b \in Program
      /\ b.pc = player[p].pc /\ b.current_function = player[p].current_function
      /\ b.peer = player[p].peer /\ \A d \in Ctx : b[d] = player[p][d]
      /\ b.buffer2 = (IF frees THEN 0 ELSE player[p].buffer2)
      /\ b.buffer3 = (IF frees THEN 0 ELSE player[p].buffer3)
  BY <1>1, <1>2 DEF Program, Ctx
<1>4. Put(p, [b EXCEPT ![ctx] = [r EXCEPT !.at = "sleep"]])
  <2> DEFINE scored == [player[p] EXCEPT ![ctx].at = "sleep", !.score = score]
  <2>1. Put(p, IF frees THEN [scored EXCEPT !.buffer2 = 0, !.buffer3 = 0] ELSE scored)
    BY DEF FunctionExit, score
  <2>2. (IF frees THEN [scored EXCEPT !.buffer2 = 0, !.buffer3 = 0] ELSE scored)
          = [b EXCEPT ![ctx] = [r EXCEPT !.at = "sleep"]]
    BY <1>1, <1>2 DEF Program, Ctx
  <2> QED  BY <2>1, <2>2
<1> QED  BY <1>3, <1>4

LEMMA FunctionExitKeepsTurn ==
  ASSUME TurnInv, NEW p \in Players, NEW ctx \in Ctx, FunctionExit(p, ctx)
  PROVE  TurnInv'
<1> DEFINE r == [player[p][ctx] EXCEPT !.at = "sleep"]
<1>1. player[p][ctx].at = "exit" /\ pending' = pending /\ limits' = limits
  BY DEF FunctionExit
<1>2. used' \in Int
  <2>1. used' \in {used, used - player[p].buffer2 - player[p].buffer3}
    BY DEF FunctionExit
  <2>2. used \in Int
    BY DEF TurnInv, Types
  <2> QED  BY <2>1, <2>2, PlayerTyped
<1>3. r \in Run /\ RunIs(p, r)
  BY <1>1, PlayerTyped, MovesOn DEF Ats
<1>4. PICK b \in Program :
        /\ b.pc = player[p].pc /\ b.current_function = player[p].current_function
        /\ \A d \in Ctx : b[d] = player[p][d]
        /\ Put(p, [b EXCEPT ![ctx] = r])
  BY ExitAs
<1> HIDE DEF r
<1> QED  BY <1>1, <1>2, <1>3, <1>4, RunKeeps DEF TurnInv, Types

LEMMA SleepKeepsTurn ==
  ASSUME TurnInv, NEW p \in Players, NEW ctx \in Ctx, Sleep(p, ctx)
  PROVE  TurnInv'
<1> DEFINE r == [player[p][ctx] EXCEPT !.at = "kill"]
<1>1. player[p][ctx].at = "sleep" /\ pending' = pending /\ limits' = limits /\ used' = used
  BY DEF Sleep
<1>2. player[p] \in Program /\ player[p][ctx] \in Run
  BY PlayerTyped
<1>3. r \in Run /\ RunIs(p, r)
  BY <1>1, PlayerTyped, MovesOn DEF Ats
<1>4. Put(p, [player[p] EXCEPT ![ctx] = r])
  BY <1>2 DEF Sleep, Program, Ctx
<1> HIDE DEF r
<1> QED  BY <1>1, <1>2, <1>3, <1>4, RunKeeps DEF TurnInv, Types

LEMMA NoRunIs == NoRun \in Run /\ NoRun.at = "none" /\ \A p \in Players : RunIs(p, NoRun)
  BY DEF NoRun, Run, Ats, RunIs

(* kill() ends the turn of the one and gives it to the other. *)
LEMMA KillKeepsTurn ==
  ASSUME TurnInv, NEW p \in Players, NEW ctx \in Ctx, Kill(p, ctx)
  PROVE  TurnInv'
<1> DEFINE new == [player[p] EXCEPT ![ctx] = NoRun]
<1>1. /\ player[p][ctx].at = "kill" /\ limits' = limits /\ used' = used
      /\ pending' = [q \in Players |-> pending[q] \/ q \in Target(p)]
      /\ Put(p, new)
  BY DEF Kill
<1>2. player[p] \in Program /\ player[p].current_function <= total_functions
  BY PlayerTyped DEF total_functions
<1>3. /\ new \in Program /\ new[ctx] = NoRun /\ \A d \in Ctx : d # ctx => new[d] = player[p][d]
      /\ new.pc = player[p].pc /\ new.current_function = player[p].current_function
  BY <1>2, NoRunIs, PutRun
<1> HIDE DEF new
<1>4. player' \in [Players -> Program] /\ RunsWithin'
  BY <1>1, <1>2, <1>3, NoRunIs, PutWithin DEF TurnInv, RunsWithin
<1>5. player'[p] = new /\ \A q \in Players : q # p => player'[q] = player[q]
  BY <1>1, <1>3, PutOne DEF TurnInv, Types
<1>6. \A q \in Players : \A d \in Ctx : player[q][d].at # "none" => q = p /\ d = ctx
  BY <1>1 DEF TurnInv, AtMostOne
<1>7. \A q \in Players : ~pending[q]
  BY <1>1 DEF TurnInv, AtMostOne, Idle
<1>8. \A q \in Players : Idle(q)'
  <2> SUFFICES ASSUME NEW q \in Players, NEW d \in Ctx PROVE player'[q][d].at = "none"
    BY DEF Idle
  <2>1. CASE q = p
    BY <1>3, <1>5, <1>6, <2>1, NoRunIs
  <2>2. CASE q # p
    BY <1>5, <1>6, <2>2
  <2> QED  BY <2>1, <2>2
<1>9. \A q, u \in Players : q \in Target(p) /\ u \in Target(p) => q = u
  <2>1. player[p].peer \in {"read", "unread", "garbage"}
    BY <1>2 DEF Program
  <2> QED  BY <2>1 DEF Target
<1>10. AtMostOne'
  BY <1>1, <1>7, <1>8, <1>9 DEF AtMostOne, Idle
<1>11. player[A].pc \notin Early
  <2>1. A \in Players /\ ~Idle(p)
    BY <1>1 DEF Players, Idle
  <2> QED  BY <2>1 DEF TurnInv, NotBegun, NoTurn
<1>12. NotBegun'
  <2>1. A \in Players
    BY DEF Players
  <2>2. player'[A].pc = player[A].pc
    BY <1>3, <1>5, <2>1
  <2> QED  BY <1>11, <2>2 DEF NotBegun
<1>13. pending' \in [Players -> BOOLEAN]
  BY <1>1, <1>7
<1> QED  BY <1>1, <1>4, <1>10, <1>12, <1>13 DEF TurnInv, Types

(* The next function begins, in main() or in the handler. *)
LEMMA BeginKeeps ==
  ASSUME TurnInv, NEW p \in Players, NEW ctx \in Ctx, NEW new \in Program, Put(p, new),
         new.current_function \in 1..total_functions,
         new[ctx] = Begin(new.current_function),
         \A d \in Ctx : d # ctx => new[d] = player[p][d],
         \A q \in Players : Idle(q),
         pending' \in [Players -> BOOLEAN], \A q \in Players : ~pending'[q],
         p = A => new.pc \notin Early, p # A => player[A].pc \notin Early,
         limits' = limits, used' = used
  PROVE  TurnInv'
<1>2. \A d \in Ctx : RunIs(p, new[d])
  BY BeginsWithin DEF TurnInv, RunsWithin
<1>3. player' \in [Players -> Program] /\ RunsWithin'
  BY <1>2, PutWithin DEF TurnInv, total_functions
<1>4. player'[p] = new /\ \A q \in Players : q # p => player'[q] = player[q]
  BY PutOne DEF TurnInv, Types
<1>5. \A q \in Players : \A d \in Ctx : player'[q][d].at # "none" => q = p /\ d = ctx
  <2> SUFFICES ASSUME NEW q \in Players, NEW d \in Ctx, ~(q = p /\ d = ctx)
               PROVE  player'[q][d].at = "none"
    OBVIOUS
  <2>1. player'[q][d] = player[q][d]
    BY <1>4
  <2> QED  BY <2>1 DEF Idle
<1>6. AtMostOne'
  BY <1>5 DEF AtMostOne
<1>7. player'[A].pc \notin Early
  BY <1>4 DEF Players
<1> QED  BY <1>3, <1>6, <1>7 DEF TurnInv, Types, NotBegun

(* A begins the first turn when it has read the number of B. *)
LEMMA read_pidKeepsTurn ==
  ASSUME TurnInv, NEW p \in Players, read_pid(p)
  PROVE  TurnInv'
<1> DEFINE peer == IF pid_file[Other(p)] = "written" THEN "read" ELSE "garbage"
           new == [player[p] EXCEPT
                     !.pc = "loop", !.peer = peer,
                     !.main = IF p = A THEN Begin(@.f + 1) ELSE NoRun,
                     !.current_function = IF p = A THEN @ + 1 ELSE @]
<1>1. /\ player[p].pc = "read_pid" /\ player[p].handler = NoRun /\ player[p].main = NoRun
      /\ Put(p, new) /\ pending' = pending /\ limits' = limits /\ used' = used
  BY DEF read_pid, InMain
<1>2. player[p] \in Program /\ player[p].current_function <= total_functions
  BY PlayerTyped DEF Ctx, total_functions
<1>3. NoRun.f = 0 /\ NoRun \in Run
  BY NoRunIs DEF NoRun
<1>4. peer \in {"read", "garbage"} /\ "loop" \in Pcs
  BY DEF Pcs
<1> HIDE DEF peer
<1>5. CASE p = A
  <2>1. player[A].pc \in Early /\ NoTurn /\ player[A].current_function = 0
    BY <1>1, <1>5 DEF TurnInv, NotBegun, Early
  <2>2. Begin(1) \in Run /\ 1 \in 1..total_functions
    BY BeginsWithin DEF total_functions
  <2> DEFINE begun == [player[p] EXCEPT !.pc = "loop", !.peer = peer, !.main = Begin(1),
                                       !.current_function = 1]
  <2>3. /\ new \in Program /\ new.pc = "loop" /\ new.current_function = 1
        /\ new.main = Begin(1) /\ new.handler = player[p].handler
    <3>1. player[p].main.f + 1 = 1 /\ player[p].current_function + 1 = 1
      BY <1>1, <1>3, <1>5, <2>1
    <3>2. new = begun
      BY <1>5, <3>1
    <3>3. /\ begun \in Program /\ begun.pc = "loop" /\ begun.current_function = 1
          /\ begun.main = Begin(1) /\ begun.handler = player[p].handler
      BY <1>2, <1>4, <2>2 DEF Program
    <3> QED  BY <3>2, <3>3
  <2> HIDE DEF new
  <2>4. \A q \in Players : Idle(q) /\ ~pending[q]
    BY <2>1 DEF NoTurn
  <2>5. new.pc \notin Early /\ pending' \in [Players -> BOOLEAN]
    BY <1>1, <2>3 DEF Early, TurnInv, Types
  <2>6. /\ "main" \in Ctx /\ new["main"] = Begin(new.current_function)
        /\ \A d \in Ctx : d # "main" => new[d] = player[p][d]
    BY <2>3 DEF Ctx
  <2> QED  BY <1>1, <1>5, <2>2, <2>3, <2>4, <2>5, <2>6, BeginKeeps
<1>6. CASE p # A
  <2>1. /\ new \in Program /\ new.pc = "loop"
        /\ new.current_function = player[p].current_function
        /\ new.main = player[p].main /\ new.handler = player[p].handler
    BY <1>1, <1>2, <1>3, <1>4, <1>6 DEF Program
  <2> HIDE DEF new
  <2>2. \A ctx \in Ctx : new[ctx] = player[p][ctx]
    BY <2>1 DEF Ctx
  <2>3. player' \in [Players -> Program] /\ RunsWithin'
    BY <1>1, <1>2, <2>1, <2>2, PutWithin DEF TurnInv, RunsWithin
  <2>4. player'[p] = new /\ \A q \in Players : q # p => player'[q] = player[q]
    BY <1>1, <2>1, PutOne DEF TurnInv, Types
  <2>5. NoNewTurn
    BY <1>1, <2>1, <2>2, <2>4 DEF NoNewTurn, Early
  <2>6. AtMostOne' /\ NotBegun'
    BY <2>5, NoNewTurnKeeps DEF TurnInv
  <2> QED  BY <1>1, <2>3, <2>6 DEF TurnInv, Types
<1> QED  BY <1>5, <1>6

(* What the handler leaves: one function more and a run of it, or, after    *)
(* the last, no more than main() going on.                                  *)
LEMMA HandlerAs ==
  ASSUME TurnInv, NEW p \in Players, handle_signal(p)
  PROVE  LET pc == IF player[p].pc = "pause" THEN "loop" ELSE player[p].pc
             more == player[p].current_function < total_functions IN
         /\ pc \in Pcs /\ (pc \in Early => player[p].pc \in Early)
         /\ ~more => Goto(p, pc)
         /\ more => \E new \in Program :
              /\ Put(p, new) /\ new.pc = pc /\ new.peer = player[p].peer
              /\ new.current_function = player[p].current_function + 1
              /\ new.main = player[p].main /\ new.handler = Begin(new.current_function)
              /\ new.buffer2 = player[p].buffer2 /\ new.buffer3 = player[p].buffer3
              /\ new.score = player[p].score
<1> DEFINE pc == IF player[p].pc = "pause" THEN "loop" ELSE player[p].pc
           f == player[p].current_function
           more == f < total_functions
           new == [player[p] EXCEPT
                     !.pc = IF @ = "pause" THEN "loop" ELSE @,
                     !.handler = IF more THEN Begin(f + 1) ELSE NoRun,
                     !.current_function = IF more THEN @ + 1 ELSE @]
<1>1. player[p].handler = NoRun /\ Put(p, new)
  BY DEF handle_signal
<1>2. player[p] \in Program /\ f \in 0..total_functions
  BY PlayerTyped DEF Ctx
<1>3. pc \in Pcs /\ (pc \in Early => player[p].pc \in Early)
  BY <1>2 DEF Program, Pcs, Early
<1>4. ASSUME ~more PROVE Goto(p, pc)
  <2>1. new = [player[p] EXCEPT !.pc = pc]
    BY <1>1, <1>2, <1>4 DEF Program
  <2> QED  BY <1>1, <2>1 DEF Goto
<1>5. ASSUME more
      PROVE  /\ new \in Program /\ new.pc = pc /\ new.peer = player[p].peer
             /\ new.current_function = f + 1
             /\ new.main = player[p].main /\ new.handler = Begin(f + 1)
             /\ new.buffer2 = player[p].buffer2 /\ new.buffer3 = player[p].buffer3
             /\ new.score = player[p].score
  <2>1. f + 1 \in 1..total_functions /\ f + 1 \in Nat
    BY <1>2, <1>5 DEF total_functions
  <2>2. Begin(f + 1) \in Run
    BY <2>1, BeginsWithin
  <2> QED  BY <1>2, <1>3, <1>5, <2>1, <2>2 DEF Program
<1> HIDE DEF new
<1> QED  BY <1>1, <1>3, <1>4, <1>5

LEMMA handle_signalKeepsTurn ==
  ASSUME TurnInv, NEW p \in Players, handle_signal(p)
  PROVE  TurnInv'
<1> DEFINE pc == IF player[p].pc = "pause" THEN "loop" ELSE player[p].pc
           f == player[p].current_function
<1>1. /\ pending[p] /\ pending' = [pending EXCEPT ![p] = FALSE]
      /\ limits' = limits /\ used' = used
  BY DEF handle_signal
<1>2. pc \in Pcs /\ (pc \in Early => player[p].pc \in Early)
  BY HandlerAs
<1>3. pending' \in [Players -> BOOLEAN] /\ \A q \in Players : pending'[q] => pending[q]
  BY <1>1 DEF TurnInv, Types
<1>4. CASE ~(f < total_functions)
  BY <1>1, <1>2, <1>3, <1>4, HandlerAs, GotoKeeps
<1>5. CASE f < total_functions
  <2>1. PICK new \in Program :
          /\ Put(p, new) /\ new.pc = pc /\ new.current_function = f + 1
          /\ new.main = player[p].main /\ new.handler = Begin(new.current_function)
    BY <1>5, HandlerAs
  <2>2. new.current_function \in 1..total_functions
    BY <1>5, <2>1, PlayerTyped DEF total_functions, Ctx
  <2>3. \A q \in Players : Idle(q) /\ (pending[q] => p = q)
    BY <1>1 DEF TurnInv, AtMostOne
  <2>4. \A q \in Players : ~pending'[q]
    BY <1>1, <2>3 DEF TurnInv, Types
  <2>5. player[A].pc \notin Early
    BY <1>1 DEF TurnInv, NotBegun, NoTurn
  <2>6. /\ "handler" \in Ctx /\ new["handler"] = Begin(new.current_function)
        /\ \A d \in Ctx : d # "handler" => new[d] = player[p][d]
    BY <2>1 DEF Ctx
  <2>7. p = A => new.pc \notin Early
    BY <1>2, <2>1, <2>5
  <2> QED  BY <1>1, <1>3, <2>1, <2>2, <2>3, <2>4, <2>5, <2>6, <2>7, BeginKeeps
<1> QED  BY <1>4, <1>5

LEMMA MainKeepsTurn ==
  ASSUME TurnInv, NEW p \in Players,
         \/ CreatePidFile(p) \/ WritePidFile(p) \/ Sigaction(p)
         \/ Loop(p) \/ ExitProcess(p) \/ Terminated(p)
  PROVE  TurnInv'
<1>1. PICK pc \in Pcs :
        /\ Goto(p, pc) /\ (pc \in Early => player[p].pc \in Early)
        /\ limits' = limits /\ used' = used
        /\ pending' = pending \/ pending' = [pending EXCEPT ![p] = FALSE]
  <2>1. CASE CreatePidFile(p)
    BY <2>1 DEF CreatePidFile, InMain, Pcs, Early
  <2>2. CASE WritePidFile(p)
    BY <2>2 DEF WritePidFile, InMain, Pcs, Early
  <2>3. CASE Sigaction(p)
    BY <2>3 DEF Sigaction, InMain, Pcs, Early
  <2>4. CASE Loop(p)
    BY <2>4 DEF Loop, InMain, Pcs, Early
  <2>5. CASE ExitProcess(p)
    BY <2>5 DEF ExitProcess, InMain, Pcs, Early
  <2>6. CASE Terminated(p)
    BY <2>6 DEF Terminated, Pcs, Early
  <2> QED  BY <2>1, <2>2, <2>3, <2>4, <2>5, <2>6
<1>2. pending' \in [Players -> BOOLEAN] /\ \A q \in Players : pending'[q] => pending[q]
  BY <1>1 DEF TurnInv, Types
<1> QED  BY <1>1, <1>2, GotoKeeps

(* C takes no turn. *)
LEMMA ErrorHandlingKeepsTurn ==
  ASSUME TurnInv, ErrorHandling
  PROVE  TurnInv'
<1> DEFINE LimitLists == [Pids -> Nat \cup {None}]
<1>1. limits' \in LimitLists
  <2>1. \A q : \A mb \in Nat : matus_add_memory_limit(q, mb).limits \in LimitLists
    <3> SUFFICES ASSUME NEW q, NEW mb \in Nat
                 PROVE  matus_add_memory_limit(q, mb).limits \in LimitLists
      OBVIOUS
    <3>1. matus_add_memory_limit(q, mb).limits \in {limits, [limits EXCEPT ![q] = mb]}
      BY DEF matus_add_memory_limit
    <3> QED  BY <3>1 DEF TurnInv, Types
  <2>2. \A q : \A new \in Nat \cup {None} : Listed(q, new).limits \in LimitLists
    <3> SUFFICES ASSUME NEW q, NEW new \in Nat \cup {None}
                 PROVE  Listed(q, new).limits \in LimitLists
      OBVIOUS
    <3>1. Listed(q, new).limits \in {limits, [limits EXCEPT ![q] = new]}
      BY DEF Listed
    <3> QED  BY <3>1 DEF TurnInv, Types
  <2>3. limits \in LimitLists
    BY DEF TurnInv, Types
  <2> HIDE DEF LimitLists
  <2>4. \A q : \A admin, negative \in BOOLEAN, mb \in Nat :
          AddAs(admin, negative, q, mb).limits \in LimitLists
    BY <2>1, <2>3 DEF AddAs
  <2>5. CASE \/ CheckCall(1, AddAs(FALSE, FALSE, C, 10), "EPERM")
             \/ CheckCall(2, AddAs(TRUE, TRUE, C, 10), "EINVAL")
             \/ CheckCall(3, AddAs(TRUE, FALSE, None, 10), "ESRCH")
    BY <2>4, <2>5 DEF Check, CheckCall
  <2>6. CASE CheckCall(4, matus_remove_memory_limit(C), "-102")
    BY <2>2, <2>6 DEF Check, CheckCall, matus_remove_memory_limit
  <2>7. CASE CheckCall(5, matus_update_memory_limit(C, 10), "-102")
    BY <2>2, <2>7 DEF Check, CheckCall, matus_update_memory_limit
  <2>8. CASE \/ CheckCall(6, matus_add_memory_limit(C, 20), "not looked at")
             \/ CheckCall(7, matus_add_memory_limit(C, 20), "-101")
    BY <2>1, <2>8 DEF Check, CheckCall
  <2> QED  BY <2>5, <2>6, <2>7, <2>8 DEF ErrorHandling
<1>2. UNCHANGED <<used, player, pending>>
  BY DEF ErrorHandling, Check, CheckCall
<1> QED  BY <1>1, <1>2 DEF TurnInv, Types, RunsWithin, AtMostOne, NotBegun, NoTurn, Idle

(* The invariant of the turns. *)
LEMMA TurnInvInit == Init => TurnInv
<1> SUFFICES ASSUME Init PROVE TurnInv
  OBVIOUS
<1>1. /\ Start \in Program /\ Start.main = NoRun /\ Start.handler = NoRun
      /\ Start.current_function = 0 /\ NoRun.at = "none"
  BY NoRunIs DEF Start, Program, Pcs
<1>2. \A p \in Players : player[p] = Start /\ ~pending[p]
  BY DEF Init
<1>3. Types
  BY <1>1, HandshakeAssumption DEF Init, Types
<1>4. \A p \in Players : \A ctx \in Ctx : player[p][ctx] = NoRun
  BY <1>1, <1>2 DEF Ctx
<1>5. RunsWithin
  BY <1>1, <1>2, <1>4, NoRunIs DEF RunsWithin, total_functions
<1>6. NoTurn
  BY <1>1, <1>2, <1>4 DEF NoTurn, Idle
<1> QED  BY <1>1, <1>2, <1>3, <1>5, <1>6 DEF TurnInv, AtMostOne, NotBegun, NoTurn, Idle, Players

LEMMA TurnInvNext == TurnInv /\ [Next]_vars => TurnInv'
<1> SUFFICES ASSUME TurnInv, [Next]_vars PROVE TurnInv'
  OBVIOUS
<1>1. CASE UNCHANGED vars
  BY <1>1 DEF vars, TurnInv, Types, RunsWithin, AtMostOne, NotBegun, NoTurn, Idle
<1>2. ASSUME NEW p \in Players, Play(p) PROVE TurnInv'
  <2>1. ASSUME NEW ctx \in Ctx,
               FunctionStep(p, ctx) \/ FunctionExit(p, ctx) \/ Sleep(p, ctx) \/ Kill(p, ctx)
        PROVE  TurnInv'
    BY <2>1, FunctionStepKeepsTurn, FunctionExitKeepsTurn, SleepKeepsTurn, KillKeepsTurn
  <2> QED  BY <1>2, <2>1, MainKeepsTurn, read_pidKeepsTurn, handle_signalKeepsTurn DEF Play
<1> QED  BY <1>1, <1>2, ErrorHandlingKeepsTurn DEF Next

(* Whatever the timing, the two programs keep to their turns. *)
THEOREM TurnInvariant == Spec => []TurnInv
  BY TurnInvInit, TurnInvNext, PTL DEF Spec

(* Of signals that are under way and functions that run there is at most    *)
(* one, whether or not two seconds are enough.                              *)
THEOREM OneTurnAtATime == Spec => []OneTurn
<1>1. TurnInv => OneTurn
  <2> SUFFICES ASSUME TurnInv PROVE OneTurn
    OBVIOUS
  <2> DEFINE Turns == {p \in Players : pending[p]}
                     \cup {r \in Players \X Ctx : player[r[1]][r[2]].at # "none"}
  <2>1. \A x, y \in Turns : x = y
    <3>1. \A p \in Players : pending[p] =>
            \A r \in Players \X Ctx : player[r[1]][r[2]].at = "none"
      BY DEF TurnInv, AtMostOne, Idle
    <3>2. \A r, s \in Players \X Ctx :
            player[r[1]][r[2]].at # "none" /\ player[s[1]][s[2]].at # "none" => r = s
      BY DEF TurnInv, AtMostOne
    <3> QED  BY <3>1, <3>2 DEF TurnInv, AtMostOne
  <2>2. Turns = {} \/ \E x : Turns = {x}
    BY <2>1
  <2> HIDE DEF Turns
  <2>3. Cardinality(Turns) \in {0, 1}
    BY <2>2, FS_EmptySet, FS_Singleton
  <2> QED  BY <2>3 DEF OneTurn, Turns
<1> QED  BY <1>1, TurnInvariant, PTL

-----------------------------------------------------------------------------
(* When two seconds are enough. *)

(* How far a function is: its step; 9 at its label; 10 when it is through,  *)
(* and for a program that runs none.                                        *)
Pos(r)   == CASE r.at = "step" -> r.k [] r.at = "exit" -> 9 [] OTHER -> 10
Where(b) == IF b.handler.at # "none" THEN Pos(b.handler) ELSE Pos(b.main)

(* The limits when A is there in its function f, and the buffers when B is. *)
LimitOfB(f, k) ==
  IF f = 0 \/ (f = 1 /\ k = 1) THEN None
  ELSE IF f = 1 \/ (f = 2 /\ k = 1) THEN 10
  ELSE IF f = 2 \/ (f = 3 /\ k <= 7) THEN 30
  ELSE IF f = 3 \/ k = 1 THEN None ELSE 100

LimitsAre(list, f, k) ==
  /\ list[B] = LimitOfB(f, k)
  /\ list[Waiters[1]] = IF f = 3 /\ k \in 2..5 THEN 100 ELSE None
  /\ list[Waiters[2]] = IF f = 4 \/ (f = 3 /\ k >= 3) THEN 1024 ELSE None
  /\ list[Waiters[3]] = IF f = 4 \/ (f = 3 /\ k >= 4) THEN 421 ELSE None

BuffersAre(b, mapped, f, k) ==
  /\ b.buffer2 = IF (f = 2 /\ k >= 2) \/ (f = 3 /\ k <= 9) THEN 20
                 ELSE IF f = 4 /\ k \in 2..9 THEN 90 ELSE 0
  /\ b.buffer3 = IF f = 3 /\ k \in 2..9 THEN 35 ELSE 0
  /\ mapped = Base + b.buffer2 + b.buffer3

(* A program that is through its start knows the other one, has run all     *)
(* four when it ends, and no function of it has failed.                     *)
Settled(b) ==
  /\ b.pc \notin Early => b.peer = "read"
  /\ b.pc \in {"exit", "gone"} => b.current_function = total_functions
  /\ \A ctx \in Ctx : b[ctx].ok /\ (b[ctx].at # "none" => b[ctx].f = b.current_function)

Waits == {"pause", "exit", "gone"}

(* Whose turn it is: A is one function ahead until B has begun the same.    *)
(* Whoever is signalled waits for it, and does already when the other one   *)
(* has slept.                                                               *)
InOrder ==
  LET fA == player[A].current_function  fB == player[B].current_function IN
  /\ NoTurn => fA = fB /\ (player[A].pc \in Early \/ fA = total_functions)
  /\ ~Idle(A) => fA = fB + 1
  /\ pending[B] => fA = fB + 1 /\ player[B].pc = "pause"
  /\ ~Idle(B) => fA = fB /\ player[B].pc \notin Early
  /\ pending[A] => fA = fB /\ player[A].pc \in {"pause", "exit"}
  /\ \A ctx \in Ctx : player[A][ctx].at = "kill" => player[B].pc = "pause"
  /\ \A ctx \in Ctx : player[B][ctx].at = "kill" => player[A].pc \in Waits

AsTheyDo ==
  /\ LimitsAre(limits, player[A].current_function, Where(player[A]))
  /\ BuffersAre(player[B], used, player[B].current_function, Where(player[B]))

InTurn == (\A p \in Players : Settled(player[p])) /\ InOrder /\ AsTheyDo

(* C has none of its limits until the test that sets it, which no other     *)
(* program touches; all its tests but that one have counted.                *)
Checked ==
  /\ limits[C] = IF checker.test > 6 THEN 20 ELSE None
  /\ checker.test \in 1..8
  /\ checker.score = checker.test - (IF checker.test > 6 THEN 2 ELSE 1)
  /\ checker.test \in {6, 7} => checker.errno = "-102"

(* Where a program is, when it runs a function and when it runs none. *)
LEMMA WhereRuns ==
  ASSUME NEW b, NEW ctx \in Ctx, b[ctx].at # "none",
         \A d \in Ctx : d # ctx => b[d].at = "none"
  PROVE  Where(b) = Pos(b[ctx])
  BY DEF Ctx, Where

LEMMA SameBuffers ==
  ASSUME NEW b, NEW c, NEW mapped, NEW f, NEW k, b.buffer2 = c.buffer2, b.buffer3 = c.buffer3,
         BuffersAre(b, mapped, f, k)
  PROVE  BuffersAre(c, mapped, f, k)
  BY DEF BuffersAre

LEMMA WhereIdle ==
  ASSUME NEW b, \A d \in Ctx : b[d].at = "none"
  PROVE  Where(b) = 10
  BY DEF Ctx, Where, Pos

(* main() of one goes on, or takes a signal after its last function. *)
LEMMA GotoInTurn ==
  ASSUME TurnInv, InTurn, NEW p \in Players, NEW pc \in Pcs, Goto(p, pc),
         pending' = [pending EXCEPT ![p] = FALSE],
         pending[p] => p = A /\ player[A].current_function = total_functions,
         pc \in Early <=> player[p].pc \in Early,
         pc \in {"exit", "gone"} => player[p].current_function = total_functions,
         p = B => player[B].pc # "pause",
         p = A /\ player[A].pc \in Waits => pc \in Waits \/ pending[A],
         limits' = limits, used' = used
  PROVE  InTurn'
<1> DEFINE new == [player[p] EXCEPT !.pc = pc]
<1>1. player[p] \in Program /\ A \in Players /\ B \in Players /\ A # B
  BY PlayerTyped, Distinct DEF Ctx, Players
<1>2. /\ new \in Program /\ new.pc = pc /\ new.peer = player[p].peer
      /\ new.current_function = player[p].current_function
      /\ new.main = player[p].main /\ new.handler = player[p].handler
      /\ new.buffer2 = player[p].buffer2 /\ new.buffer3 = player[p].buffer3
  BY <1>1 DEF Program
<1>3. player'[p] = new /\ \A q \in Players : q # p => player'[q] = player[q]
  BY <1>2, PutOne DEF TurnInv, Types, Goto
<1> HIDE DEF new
<1>4. \A q \in Players :
        /\ player'[q].current_function = player[q].current_function
        /\ player'[q].main = player[q].main /\ player'[q].handler = player[q].handler
        /\ player'[q].buffer2 = player[q].buffer2 /\ player'[q].buffer3 = player[q].buffer3
        /\ q # p => player'[q].pc = player[q].pc
  BY <1>2, <1>3
<1>5. \A q \in Players : \A ctx \in Ctx : player'[q][ctx] = player[q][ctx]
  BY <1>4 DEF Ctx
<1>6. \A q \in Players : Settled(player[q])'
  <2>1. Settled(new)
    BY <1>1, <1>2 DEF InTurn, Settled, Ctx
  <2> QED  BY <1>3, <2>1 DEF InTurn
<1>7. AsTheyDo'
  <2>1. \A q \in Players : Where(player'[q]) = Where(player[q])
    BY <1>4 DEF Where
  <2>2. LimitsAre(limits', player'[A].current_function, Where(player'[A]))
    BY <1>1, <1>4, <2>1 DEF InTurn, AsTheyDo
  <2>3. BuffersAre(player[B], used', player'[B].current_function, Where(player'[B]))
    BY <1>1, <1>4, <2>1 DEF InTurn, AsTheyDo
  <2>4. BuffersAre(player'[B], used', player'[B].current_function, Where(player'[B]))
    BY <1>1, <1>4, <2>3, SameBuffers
  <2> QED  BY <2>2, <2>4 DEF AsTheyDo
<1>8. InOrder'
  <2>1. \A q \in Players : Idle(q)' <=> Idle(q)
    BY <1>5 DEF Idle
  <2>2. /\ pending'[p] = FALSE /\ \A q \in Players : q # p => pending'[q] = pending[q]
    BY DEF TurnInv, Types
  <2>3. player'[p].pc = pc
    BY <1>2, <1>3
  <2>4. CASE ~pending[p]
    <3>1. NoTurn' <=> NoTurn
      BY <2>1, <2>2, <2>4 DEF NoTurn
    <3> QED  BY <1>1, <1>4, <1>5, <2>1, <2>2, <2>3, <2>4, <3>1 DEF InTurn, InOrder, Players
  <2>5. CASE pending[p]
    <3>1. p = A /\ player[A].current_function = total_functions
      BY <2>5
    <3>2. /\ player[A].current_function = player[B].current_function
          /\ Idle(A) /\ Idle(B) /\ ~pending[B]
      BY <1>1, <2>5, <3>1 DEF TurnInv, AtMostOne, InTurn, InOrder
    <3> QED  BY <1>1, <1>4, <1>5, <2>1, <2>2, <3>1, <3>2 DEF InOrder, Idle
  <2> QED  BY <2>4, <2>5
<1> QED  BY <1>6, <1>7, <1>8 DEF InTurn

(* While a function runs, nobody else has the turn, and where it is is      *)
(* where its program is.                                                    *)
LEMMA WhoRuns ==
  ASSUME TurnInv, NEW p \in Players, NEW ctx \in Ctx, player[p][ctx].at # "none"
  PROVE  /\ \A q \in Players : ~pending[q] /\ (q # p => Idle(q))
         /\ \A d \in Ctx : d # ctx => player[p][d].at = "none"
         /\ ~Idle(p) /\ Where(player[p]) = Pos(player[p][ctx])
         /\ \A q \in Players : q # p => Where(player[q]) = 10
<1>1. /\ \A q \in Players : ~pending[q] /\ (q # p => Idle(q))
      /\ \A d \in Ctx : d # ctx => player[p][d].at = "none"
  BY DEF TurnInv, AtMostOne, Idle
<1>2. Where(player[p]) = Pos(player[p][ctx])
  BY <1>1, WhereRuns
<1>3. \A q \in Players : q # p => Where(player[q]) = 10
  BY <1>1, WhereIdle DEF Idle
<1> QED  BY <1>1, <1>2, <1>3 DEF Idle

(* A function goes on, without failing. *)
LEMMA RunInTurn ==
  ASSUME TurnInv, InTurn, NEW p \in Players, NEW ctx \in Ctx, NEW b \in Program, NEW r \in Run,
         b.pc = player[p].pc, b.peer = player[p].peer,
         b.current_function = player[p].current_function,
         \A d \in Ctx : b[d] = player[p][d],
         player[p][ctx].at # "none", Put(p, [b EXCEPT ![ctx] = r]),
         r.at # "none", r.ok, r.f = player[p][ctx].f,
         r.at = "kill" => player[Other(p)].pc \in Waits,
         pending' = pending,
         p = A => LimitsAre(limits', r.f, Pos(r)) /\ used' = used,
         p = B => limits' = limits /\ BuffersAre(b, used', r.f, Pos(r))
  PROVE  InTurn'
<1> DEFINE new == [b EXCEPT ![ctx] = r]
<1>1. /\ new \in Program /\ new[ctx] = r /\ \A d \in Ctx : d # ctx => new[d] = player[p][d]
      /\ new.pc = player[p].pc /\ new.peer = player[p].peer
      /\ new.current_function = player[p].current_function
      /\ new.buffer2 = b.buffer2 /\ new.buffer3 = b.buffer3
  BY PutRun
<1>2. player'[p] = new /\ \A q \in Players : q # p => player'[q] = player[q]
  BY <1>1, PutOne DEF TurnInv, Types
<1> HIDE DEF new
<1>3. A \in Players /\ B \in Players /\ A # B
  BY Distinct DEF Players
<1>4. /\ \A q \in Players : ~pending[q] /\ (q # p => Idle(q))
      /\ \A d \in Ctx : d # ctx => player[p][d].at = "none"
      /\ \A q \in Players : q # p => Where(player[q]) = 10
  BY WhoRuns
<1>5. Where(new) = Pos(r)
  BY <1>1, <1>4, WhereRuns
<1>6. r.f = player[p].current_function /\ Settled(player[p])
  BY DEF InTurn, Settled
<1>7. \A q \in Players : Settled(player[q])'
  <2>1. Settled(new)
    BY <1>1, <1>6 DEF Settled
  <2> QED  BY <1>2, <2>1 DEF InTurn
<1>8. AsTheyDo'
  <2>1. CASE p = A
    <3>1. player'[A] = new /\ player'[B] = player[B] /\ new.current_function = r.f
      BY <1>1, <1>2, <1>3, <1>6, <2>1
    <3>2. LimitsAre(limits', new.current_function, Where(new))
      BY <1>5, <2>1, <3>1
    <3>3. BuffersAre(player[B], used', player[B].current_function, Where(player[B]))
      BY <2>1 DEF InTurn, AsTheyDo
    <3> QED  BY <3>1, <3>2, <3>3 DEF AsTheyDo
  <2>2. CASE p = B
    <3>1. player'[B] = new /\ player'[A] = player[A] /\ new.current_function = r.f
      BY <1>1, <1>2, <1>3, <1>6, <2>2
    <3>2. BuffersAre(b, used', new.current_function, Where(new))
      BY <1>5, <2>2, <3>1
    <3>3. BuffersAre(new, used', new.current_function, Where(new))
      BY <1>1, <3>2, SameBuffers
    <3>4. LimitsAre(limits', player[A].current_function, Where(player[A]))
      BY <2>2 DEF InTurn, AsTheyDo
    <3> QED  BY <3>1, <3>3, <3>4 DEF AsTheyDo
  <2> QED  BY <2>1, <2>2 DEF Players
<1>9. InOrder'
  <2>1. ~Idle(p)' /\ ~NoTurn'
    BY <1>1, <1>2 DEF Idle, NoTurn
  <2>2. \A q \in Players : q # p => Idle(q)'
    BY <1>2, <1>4 DEF Idle
  <2>3. \A q \in Players : ~pending'[q] /\ player'[q].pc = player[q].pc
                          /\ player'[q].current_function = player[q].current_function
    BY <1>1, <1>2, <1>4
  <2>4. \A d \in Ctx : player'[p][d].at = "kill" => player[Other(p)].pc \in Waits
    BY <1>1, <1>2, <1>4
  <2>5. ~Idle(p)
    BY DEF Idle
  <2>6. CASE p = A
    <3>1. player[A].current_function = player[B].current_function + 1
      BY <2>5, <2>6 DEF InTurn, InOrder
    <3>2. player[B].pc \notin {"exit", "gone"}
      <4>1. Settled(player[B]) /\ player[A].current_function <= total_functions
        BY <1>3 DEF InTurn, TurnInv, RunsWithin
      <4>2. player[B].current_function \in Nat
        BY <1>3, PlayerTyped DEF Ctx, total_functions
      <4> QED  BY <3>1, <4>1, <4>2 DEF Settled, total_functions
    <3>3. \A d \in Ctx : player'[A][d].at = "kill" => player[B].pc = "pause"
      BY <2>4, <2>6, <3>2 DEF Other, Waits
    <3> QED  BY <1>3, <2>1, <2>2, <2>3, <2>6, <3>1, <3>3 DEF InOrder, Idle
  <2>7. CASE p = B
    <3>1. player[A].current_function = player[B].current_function /\ player[B].pc \notin Early
      BY <2>5, <2>7 DEF InTurn, InOrder
    <3>2. \A d \in Ctx : player'[B][d].at = "kill" => player[A].pc \in Waits
      BY <1>3, <2>4, <2>7 DEF Other
    <3> QED  BY <1>3, <2>1, <2>2, <2>3, <2>7, <3>1, <3>2 DEF InOrder, Idle
  <2> QED  BY <2>6, <2>7 DEF Players
<1> QED  BY <1>7, <1>8, <1>9 DEF InTurn

LEMMA KillInTurn ==
  ASSUME TurnInv, InTurn, NEW p \in Players, NEW ctx \in Ctx, Kill(p, ctx)
  PROVE  InTurn'
<1> DEFINE new == [player[p] EXCEPT ![ctx] = NoRun]
<1>1. /\ player[p][ctx].at = "kill" /\ limits' = limits /\ used' = used
      /\ pending' = [q \in Players |-> pending[q] \/ q \in Target(p)]
      /\ Put(p, new)
  BY DEF Kill
<1>2. A \in Players /\ B \in Players /\ A # B /\ player[p] \in Program
  BY Distinct, PlayerTyped DEF Players
<1>3. /\ new \in Program /\ new[ctx] = NoRun /\ \A d \in Ctx : d # ctx => new[d] = player[p][d]
      /\ new.pc = player[p].pc /\ new.peer = player[p].peer
      /\ new.current_function = player[p].current_function
      /\ new.buffer2 = player[p].buffer2 /\ new.buffer3 = player[p].buffer3
  BY <1>2, NoRunIs, PutRun
<1>4. player'[p] = new /\ \A q \in Players : q # p => player'[q] = player[q]
  BY <1>1, <1>3, PutOne DEF TurnInv, Types
<1> HIDE DEF new
<1>5. /\ \A q \in Players : ~pending[q] /\ (q # p => Idle(q))
      /\ \A d \in Ctx : d # ctx => player[p][d].at = "none"
      /\ ~Idle(p) /\ Where(player[p]) = Pos(player[p][ctx])
      /\ \A q \in Players : q # p => Where(player[q]) = 10
  BY <1>1, WhoRuns
<1>6. \A d \in Ctx : new[d].at = "none"
  BY <1>3, <1>5, NoRunIs
<1>7. Where(new) = 10 /\ Where(player[p]) = 10
  BY <1>1, <1>5, <1>6, WhereIdle DEF Pos
<1>8. \A q \in Players : Settled(player[q])'
  <2>1. NoRun.ok = TRUE
    BY DEF NoRun
  <2>2. Settled(player[p])
    BY DEF InTurn
  <2>3. \A d \in Ctx : new[d].ok
    BY <1>3, <2>1, <2>2 DEF Settled
  <2>4. Settled(new)
    BY <1>3, <1>6, <2>2, <2>3 DEF Settled
  <2> QED  BY <1>4, <2>4 DEF InTurn
<1>9. AsTheyDo'
  <2>1. \A q \in Players : /\ Where(player'[q]) = Where(player[q])
                           /\ player'[q].current_function = player[q].current_function
                           /\ player'[q].buffer2 = player[q].buffer2
                           /\ player'[q].buffer3 = player[q].buffer3
    BY <1>3, <1>4, <1>7
  <2> QED  BY <1>1, <1>2, <2>1 DEF InTurn, AsTheyDo, BuffersAre
<1>10. InOrder'
  <2>1. \A q \in Players : Idle(q)'
    BY <1>4, <1>5, <1>6 DEF Idle
  <2>2. \A q \in Players : player'[q].pc = player[q].pc
                          /\ player'[q].current_function = player[q].current_function
    BY <1>3, <1>4
  <2>3. player[p].peer = "read"
    <3>1. player[p].pc \notin Early
      BY <1>2, <1>5 DEF InTurn, InOrder, TurnInv, NotBegun, NoTurn, Players
    <3> QED  BY <3>1 DEF InTurn, Settled
  <2>4. \A q \in Players : pending'[q] <=> q = Other(p) /\ player[q].pc # "gone"
    BY <1>1, <1>5, <2>3 DEF Target
  <2>5. CASE p = A
    <3>1. /\ player[A].current_function = player[B].current_function + 1
          /\ player[B].pc = "pause"
      BY <1>1, <1>5, <2>5 DEF InTurn, InOrder
    <3>2. pending'[B] /\ ~pending'[A]
      BY <1>2, <2>4, <2>5, <3>1 DEF Other
    <3> QED  BY <1>2, <2>1, <2>2, <3>1, <3>2 DEF InOrder, NoTurn, Idle
  <2>6. CASE p = B
    <3>1. /\ player[A].current_function = player[B].current_function
          /\ player[A].pc \in Waits
      BY <1>1, <1>5, <2>6 DEF InTurn, InOrder
    <3>2. ~pending'[B] /\ (pending'[A] <=> player[A].pc # "gone")
      BY <1>2, <2>4, <2>6 DEF Other
    <3>3. player[A].pc = "gone" => player[A].current_function = total_functions
      BY <1>2 DEF InTurn, Settled
    <3>4. NoTurn' <=> player[A].pc = "gone"
      BY <1>2, <2>1, <3>2 DEF NoTurn, Players
    <3> QED  BY <1>2, <2>1, <2>2, <3>1, <3>2, <3>3, <3>4 DEF InOrder, Idle, Waits
  <2> QED  BY <2>5, <2>6 DEF Players
<1> QED  BY <1>8, <1>9, <1>10 DEF InTurn

(* The next function begins, with the limits and the buffers as the last    *)
(* one has left them.                                                       *)
LEMMA BeginInTurn ==
  ASSUME TurnInv, InTurn, NEW p \in Players, NEW ctx \in Ctx, NEW new \in Program, Put(p, new),
         new.current_function = player[p].current_function + 1,
         new.current_function \in 1..total_functions,
         new[ctx] = Begin(new.current_function),
         \A d \in Ctx : d # ctx => new[d] = player[p][d],
         new.buffer2 = player[p].buffer2, new.buffer3 = player[p].buffer3,
         new.pc \notin Early, new.pc \notin {"exit", "gone"}, new.peer = "read",
         \A q \in Players : Idle(q) /\ ~pending'[q],
         p = A => player[A].current_function = player[B].current_function,
         p = B => player[A].current_function = player[B].current_function + 1,
         limits' = limits, used' = used
  PROVE  InTurn'
<1> DEFINE f == player[p].current_function
<1>1. player'[p] = new /\ \A q \in Players : q # p => player'[q] = player[q]
  BY PutOne DEF TurnInv, Types
<1>2. A \in Players /\ B \in Players /\ A # B /\ f \in {0, 1, 2, 3}
  BY Distinct, PlayerTyped DEF Players, Ctx, total_functions
<1>3. \A d \in Ctx : player[p][d].at = "none" /\ player[p][d].ok
  BY DEF Idle, InTurn, Settled
<1>4. /\ new[ctx].at = "step" /\ new[ctx].ok /\ new[ctx].k = 1
      /\ new[ctx].f = new.current_function
  BY DEF Begin
<1>5. Where(new) = 1
  BY <1>3, <1>4, WhereRuns DEF Pos
<1>6. \A q \in Players : Where(player[q]) = 10
  BY WhereIdle DEF Idle
<1>7. \A q \in Players : Settled(player[q])'
  <2>1. Settled(new)
    BY <1>3, <1>4 DEF Settled
  <2> QED  BY <1>1, <2>1 DEF InTurn
<1>8. AsTheyDo'
  <2>1. LimitsAre(limits, player[A].current_function, 10)
    BY <1>2, <1>6 DEF InTurn, AsTheyDo
  <2>2. BuffersAre(player[B], used, player[B].current_function, 10)
    BY <1>2, <1>6 DEF InTurn, AsTheyDo
  <2>3. CASE p = A
    <3>1. LimitsAre(limits, f + 1, 1)
      BY <1>2, <2>1, <2>3 DEF LimitsAre, LimitOfB
    <3> QED  BY <1>1, <1>2, <1>5, <1>6, <2>2, <2>3, <3>1 DEF AsTheyDo
  <2>4. CASE p = B
    <3>1. BuffersAre(new, used, f + 1, 1)
      BY <1>2, <2>2, <2>4 DEF BuffersAre
    <3> QED  BY <1>1, <1>2, <1>5, <1>6, <2>1, <2>4, <3>1 DEF AsTheyDo
  <2> QED  BY <2>3, <2>4 DEF Players
<1>9. InOrder'
  <2>1. ~Idle(p)' /\ ~NoTurn'
    BY <1>1, <1>4 DEF Idle, NoTurn
  <2>2. \A q \in Players : q # p => Idle(q)'
    BY <1>1 DEF Idle
  <2>3. \A d \in Ctx : player'[p][d].at # "kill"
    BY <1>1, <1>3, <1>4
  <2>4. CASE p = A
    BY <1>1, <1>2, <2>1, <2>2, <2>3, <2>4 DEF InOrder, Idle
  <2>5. CASE p = B
    BY <1>1, <1>2, <2>1, <2>2, <2>3, <2>5 DEF InOrder, Idle
  <2> QED  BY <2>4, <2>5 DEF Players
<1> QED  BY <1>7, <1>8, <1>9 DEF InTurn

-----------------------------------------------------------------------------
(* The steps of A, when it knows B. *)

(* Each call with what it needs to succeed. *)
LEMMA AddWorks ==
  ASSUME Types, player[A].peer = "read", NEW q \in Pids, NEW mb \in Nat, NEW ok \in BOOLEAN,
         StepOfA(Add(q, mb), ok), limits[q] = None, Usage(q) \in Int, Usage(q) <= mb
  PROVE  ok /\ limits' = [limits EXCEPT ![q] = mb]
<1> DEFINE s == Add(q, mb)
<1>1. s.op = "add" /\ s.pid = q /\ s.mb = mb
  BY DEF Add
<1>2. Named(q) = q /\ q # None
  BY HandshakeAssumption DEF Named
<1>3. Called(s) = matus_add_memory_limit(q, mb)
  BY <1>1, <1>2 DEF Called
<1>4. matus_add_memory_limit(q, mb) = [limits |-> [limits EXCEPT ![q] = mb], ret |-> "0"]
  BY <1>2 DEF matus_add_memory_limit
<1>5. limits' = Called(s).limits /\ ok = (Called(s).ret = "0")
  BY <1>1 DEF StepOfA
<1> HIDE DEF s
<1>6. Called(s).limits = [limits EXCEPT ![q] = mb] /\ Called(s).ret = "0"
  BY <1>3, <1>4
<1> QED  BY <1>5, <1>6, Zenon

LEMMA ListedWorks ==
  ASSUME Types, player[A].peer = "read", NEW q \in Pids, NEW ok \in BOOLEAN, limits[q] # None
  PROVE  /\ \A mb \in Nat : StepOfA(Update(q, mb), ok) => ok /\ limits' = [limits EXCEPT ![q] = mb]
         /\ StepOfA(Remove(q), ok) => ok /\ limits' = [limits EXCEPT ![q] = None]
<1>1. Named(q) = q /\ q # None
  BY HandshakeAssumption DEF Named
<1>2. \A new : Listed(q, new) = [limits |-> [limits EXCEPT ![q] = new], ret |-> "0"]
  BY <1>1 DEF Listed
<1>3. ASSUME NEW mb \in Nat, StepOfA(Update(q, mb), ok)
      PROVE  ok /\ limits' = [limits EXCEPT ![q] = mb]
  <2> DEFINE s == Update(q, mb)
  <2>1. s.op = "update" /\ s.pid = q /\ s.mb = mb
    BY DEF Update
  <2>2. Called(s) = Listed(q, mb)
    BY <1>1, <2>1 DEF Called, matus_update_memory_limit
  <2>3. limits' = Called(s).limits /\ ok = (Called(s).ret = "0")
    BY <1>3, <2>1 DEF StepOfA
  <2> HIDE DEF s
  <2>4. Called(s).limits = [limits EXCEPT ![q] = mb] /\ Called(s).ret = "0"
    BY <1>2, <2>2
  <2> QED  BY <2>3, <2>4, Zenon
<1>4. ASSUME StepOfA(Remove(q), ok)
      PROVE  ok /\ limits' = [limits EXCEPT ![q] = None]
  <2> DEFINE s == Remove(q)
  <2>1. s.op = "remove" /\ s.pid = q
    BY DEF Remove
  <2>2. Called(s) = Listed(q, None)
    BY <1>1, <2>1 DEF Called, matus_remove_memory_limit
  <2>3. limits' = Called(s).limits /\ ok = (Called(s).ret = "0")
    BY <1>4, <2>1 DEF StepOfA
  <2> HIDE DEF s
  <2>4. Called(s).limits = [limits EXCEPT ![q] = None] /\ Called(s).ret = "0"
    BY <1>2, <2>2
  <2> QED  BY <2>3, <2>4, Zenon
<1> QED  BY <1>3, <1>4

LEMMA GetWorks ==
  ASSUME player[A].peer = "read", NEW lost \in {0, 1, 2}, NEW ok \in BOOLEAN,
         StepOfA(Get(lost), ok),
         \A q \in Expected(lost) : q \in Pids /\ limits[q] # None
  PROVE  ok /\ limits' = limits
<1>1. Get(lost).op = "get" /\ Get(lost).mb = lost
  BY DEF Get
<1>2. \A q \in Expected(lost) : Named(q) \in matus_get_memory_limits
  BY DEF Named, matus_get_memory_limits
<1>3. /\ limits' = limits
      /\ ok \in {\A q \in Expected(lost) : Named(q) \in matus_get_memory_limits}
                 \cup (IF lost = 0 THEN {TRUE} ELSE {})
  BY <1>1 DEF StepOfA
<1>4. (\A q \in Expected(lost) : Named(q) \in matus_get_memory_limits) = TRUE
  BY <1>2
<1> QED  BY <1>3, <1>4

(* Six processes, and whom a listing must show. *)
LEMMA PidsAre ==
  /\ A \in Pids /\ B \in Pids /\ C \in Pids
  /\ Waiters[1] \in Pids /\ Waiters[2] \in Pids /\ Waiters[3] \in Pids
  /\ Waiters[1] \notin {A, B, C} /\ Waiters[2] \notin {A, B, C} /\ Waiters[3] \notin {A, B, C}
  /\ Waiters[1] # Waiters[2] /\ Waiters[1] # Waiters[3] /\ Waiters[2] # Waiters[3]
  /\ None \notin Pids \cup Nat
<1>1. 1 \in 1..3 /\ 2 \in 1..3 /\ 3 \in 1..3
  OBVIOUS
<1>2. \A i \in 1..3 : Waiters[i] \in Dummies
  BY HandshakeAssumption DEF Dummies
<1> QED  BY <1>1, <1>2, Distinct, HandshakeAssumption DEF Pids

LEMMA ExpectedAre ==
  /\ Expected(0) = {Waiters[1], B, Waiters[2], Waiters[3]}
  /\ Expected(1) = {B, Waiters[2], Waiters[3]}
  /\ Expected(2) = {Waiters[2], Waiters[3]}
<1>1. (0 + 1)..4 = {1, 2, 3, 4} /\ (1 + 1)..4 = {2, 3, 4} /\ (2 + 1)..4 = {3, 4}
  OBVIOUS
<1> DEFINE all == <<Waiters[1], B, Waiters[2], Waiters[3]>>
<1>2. all[1] = Waiters[1] /\ all[2] = B /\ all[3] = Waiters[2] /\ all[4] = Waiters[3]
  OBVIOUS
<1>3. \A lost : Expected(lost) = {all[i] : i \in (lost + 1)..4}
  BY DEF Expected
<1> HIDE DEF all
<1>4. Expected(0) = {all[i] : i \in {1, 2, 3, 4}}
  BY <1>1, <1>3
<1>5. Expected(1) = {all[i] : i \in {2, 3, 4}}
  BY <1>1, <1>3
<1>6. Expected(2) = {all[i] : i \in {3, 4}}
  BY <1>1, <1>3
<1> QED  BY <1>2, <1>4, <1>5, <1>6

(* Where a function of n steps is after step k: at the next, or its label. *)
NextPos(n, k) == IF k < n THEN k + 1 ELSE 9

(* No call of A fails, and each leaves the limits as they are one step on. *)
LEMMA CallsSucceed ==
  ASSUME Types, player[A].peer = "read",
         NEW f \in 1..total_functions, NEW k \in 1..Len(Steps(A, f)), NEW ok \in BOOLEAN,
         StepOfA(Steps(A, f)[k], ok), LimitsAre(limits, f, k), f \in {1, 4} => used = Base
  PROVE  ok /\ LimitsAre(limits', f, NextPos(Len(Steps(A, f)), k))
<1>1. \A q \in Pids : Usage(q) \in Int /\ (q # B => Usage(q) = Base) /\ (q = B => Usage(q) = used)
  BY HandshakeAssumption DEF Usage, Types
<1>2. Base \in 1..9
  BY HandshakeAssumption
<1>3. DOMAIN limits = Pids /\ limits \in [Pids -> Nat \cup {None}]
  BY DEF Types
<1>4. CASE f = 1 /\ k = 1
  <2>1. StepOfA(Add(B, 10), ok)
    BY <1>4, StepsOfA
  <2>2. NextPos(Len(Steps(A, f)), k) = 9
    <3>1. NextPos(1, 1) = 9
      BY DEF NextPos
    <3>2. Len(Steps(A, f)) = 1
      BY <1>4, Lengths
    <3> QED  BY <1>4, <3>1, <3>2, Zenon
  <2>3. /\ limits[B] = None /\ limits[Waiters[1]] = None
        /\ limits[Waiters[2]] = None /\ limits[Waiters[3]] = None
    BY <1>4 DEF LimitsAre, LimitOfB
  <2>4. Usage(B) <= 10
    BY <1>1, <1>2, <1>4, PidsAre
  <2>5. ok /\ limits' = [limits EXCEPT ![B] = 10]
    BY <1>1, <2>1, <2>3, <2>4, PidsAre, AddWorks
  <2>6. /\ limits'[B] = 10 /\ limits'[Waiters[1]] = None
        /\ limits'[Waiters[2]] = None /\ limits'[Waiters[3]] = None
    BY <1>3, <2>3, <2>5, PidsAre
  <2>7. LimitsAre(limits', 1, 9)
    BY <2>6 DEF LimitsAre, LimitOfB
  <2> QED  BY <1>4, <2>2, <2>5, <2>7
<1>5. CASE f = 2 /\ k = 1
  <2>1. StepOfA(Update(B, 30), ok)
    BY <1>5, StepsOfA
  <2>2. NextPos(Len(Steps(A, f)), k) = 9
    <3>1. NextPos(1, 1) = 9
      BY DEF NextPos
    <3>2. Len(Steps(A, f)) = 1
      BY <1>5, Lengths
    <3> QED  BY <1>5, <3>1, <3>2, Zenon
  <2>3. /\ limits[B] = 10 /\ limits[Waiters[1]] = None
        /\ limits[Waiters[2]] = None /\ limits[Waiters[3]] = None
    BY <1>5 DEF LimitsAre, LimitOfB
  <2>4. limits[B] # None
    BY <2>3, PidsAre
  <2>5. ok /\ limits' = [limits EXCEPT ![B] = 30]
    BY <2>1, <2>4, PidsAre, ListedWorks
  <2>6. /\ limits'[B] = 30 /\ limits'[Waiters[1]] = None
        /\ limits'[Waiters[2]] = None /\ limits'[Waiters[3]] = None
    BY <1>3, <2>3, <2>5, PidsAre
  <2>7. LimitsAre(limits', 2, 9)
    BY <2>6 DEF LimitsAre, LimitOfB
  <2> QED  BY <1>5, <2>2, <2>5, <2>7
<1>6. CASE f = 3 /\ k = 1
  <2>1. StepOfA(Add(Waiters[1], 100), ok)
    BY <1>6, StepsOfA
  <2>2. NextPos(Len(Steps(A, f)), k) = 2
    <3>1. NextPos(8, 1) = 2
      BY DEF NextPos
    <3>2. Len(Steps(A, f)) = 8
      BY <1>6, Lengths
    <3> QED  BY <1>6, <3>1, <3>2, Zenon
  <2>3. /\ limits[B] = 30 /\ limits[Waiters[1]] = None
        /\ limits[Waiters[2]] = None /\ limits[Waiters[3]] = None
    BY <1>6 DEF LimitsAre, LimitOfB
  <2>4. Usage(Waiters[1]) <= 100
    BY <1>1, <1>2, <1>6, PidsAre
  <2>5. ok /\ limits' = [limits EXCEPT ![Waiters[1]] = 100]
    BY <1>1, <2>1, <2>3, <2>4, PidsAre, AddWorks
  <2>6. /\ limits'[B] = 30 /\ limits'[Waiters[1]] = 100
        /\ limits'[Waiters[2]] = None /\ limits'[Waiters[3]] = None
    BY <1>3, <2>3, <2>5, PidsAre
  <2>7. LimitsAre(limits', 3, 2)
    BY <2>6 DEF LimitsAre, LimitOfB
  <2> QED  BY <1>6, <2>2, <2>5, <2>7
<1>7. CASE f = 3 /\ k = 2
  <2>1. StepOfA(Add(Waiters[2], 1024), ok)
    BY <1>7, StepsOfA
  <2>2. NextPos(Len(Steps(A, f)), k) = 3
    <3>1. NextPos(8, 2) = 3
      BY DEF NextPos
    <3>2. Len(Steps(A, f)) = 8
      BY <1>7, Lengths
    <3> QED  BY <1>7, <3>1, <3>2, Zenon
  <2>3. /\ limits[B] = 30 /\ limits[Waiters[1]] = 100
        /\ limits[Waiters[2]] = None /\ limits[Waiters[3]] = None
    BY <1>7 DEF LimitsAre, LimitOfB
  <2>4. Usage(Waiters[2]) <= 1024
    BY <1>1, <1>2, <1>7, PidsAre
  <2>5. ok /\ limits' = [limits EXCEPT ![Waiters[2]] = 1024]
    BY <1>1, <2>1, <2>3, <2>4, PidsAre, AddWorks
  <2>6. /\ limits'[B] = 30 /\ limits'[Waiters[1]] = 100
        /\ limits'[Waiters[2]] = 1024 /\ limits'[Waiters[3]] = None
    BY <1>3, <2>3, <2>5, PidsAre
  <2>7. LimitsAre(limits', 3, 3)
    BY <2>6 DEF LimitsAre, LimitOfB
  <2> QED  BY <1>7, <2>2, <2>5, <2>7
<1>8. CASE f = 3 /\ k = 3
  <2>1. StepOfA(Add(Waiters[3], 421), ok)
    BY <1>8, StepsOfA
  <2>2. NextPos(Len(Steps(A, f)), k) = 4
    <3>1. NextPos(8, 3) = 4
      BY DEF NextPos
    <3>2. Len(Steps(A, f)) = 8
      BY <1>8, Lengths
    <3> QED  BY <1>8, <3>1, <3>2, Zenon
  <2>3. /\ limits[B] = 30 /\ limits[Waiters[1]] = 100
        /\ limits[Waiters[2]] = 1024 /\ limits[Waiters[3]] = None
    BY <1>8 DEF LimitsAre, LimitOfB
  <2>4. Usage(Waiters[3]) <= 421
    BY <1>1, <1>2, <1>8, PidsAre
  <2>5. ok /\ limits' = [limits EXCEPT ![Waiters[3]] = 421]
    BY <1>1, <2>1, <2>3, <2>4, PidsAre, AddWorks
  <2>6. /\ limits'[B] = 30 /\ limits'[Waiters[1]] = 100
        /\ limits'[Waiters[2]] = 1024 /\ limits'[Waiters[3]] = 421
    BY <1>3, <2>3, <2>5, PidsAre
  <2>7. LimitsAre(limits', 3, 4)
    BY <2>6 DEF LimitsAre, LimitOfB
  <2> QED  BY <1>8, <2>2, <2>5, <2>7
<1>9. CASE f = 3 /\ k = 4
  <2>1. StepOfA(Get(0), ok)
    BY <1>9, StepsOfA
  <2>2. NextPos(Len(Steps(A, f)), k) = 5
    <3>1. NextPos(8, 4) = 5
      BY DEF NextPos
    <3>2. Len(Steps(A, f)) = 8
      BY <1>9, Lengths
    <3> QED  BY <1>9, <3>1, <3>2, Zenon
  <2>3. /\ limits[B] = 30 /\ limits[Waiters[1]] = 100
        /\ limits[Waiters[2]] = 1024 /\ limits[Waiters[3]] = 421
    BY <1>9 DEF LimitsAre, LimitOfB
  <2>4. \A q \in Expected(0) : q \in Pids /\ limits[q] # None
    BY <2>3, PidsAre, ExpectedAre
  <2>5. ok /\ limits' = limits
    BY <2>1, <2>4, GetWorks
  <2>6. /\ limits'[B] = 30 /\ limits'[Waiters[1]] = 100
        /\ limits'[Waiters[2]] = 1024 /\ limits'[Waiters[3]] = 421
    BY <2>3, <2>5
  <2>7. LimitsAre(limits', 3, 5)
    BY <2>6 DEF LimitsAre, LimitOfB
  <2> QED  BY <1>9, <2>2, <2>5, <2>7
<1>10. CASE f = 3 /\ k = 5
  <2>1. StepOfA(Remove(Waiters[1]), ok)
    BY <1>10, StepsOfA
  <2>2. NextPos(Len(Steps(A, f)), k) = 6
    <3>1. NextPos(8, 5) = 6
      BY DEF NextPos
    <3>2. Len(Steps(A, f)) = 8
      BY <1>10, Lengths
    <3> QED  BY <1>10, <3>1, <3>2, Zenon
  <2>3. /\ limits[B] = 30 /\ limits[Waiters[1]] = 100
        /\ limits[Waiters[2]] = 1024 /\ limits[Waiters[3]] = 421
    BY <1>10 DEF LimitsAre, LimitOfB
  <2>4. limits[Waiters[1]] # None
    BY <2>3, PidsAre
  <2>5. ok /\ limits' = [limits EXCEPT ![Waiters[1]] = None]
    BY <2>1, <2>4, PidsAre, ListedWorks
  <2>6. /\ limits'[B] = 30 /\ limits'[Waiters[1]] = None
        /\ limits'[Waiters[2]] = 1024 /\ limits'[Waiters[3]] = 421
    BY <1>3, <2>3, <2>5, PidsAre
  <2>7. LimitsAre(limits', 3, 6)
    BY <2>6 DEF LimitsAre, LimitOfB
  <2> QED  BY <1>10, <2>2, <2>5, <2>7
<1>11. CASE f = 3 /\ k = 6
  <2>1. StepOfA(Get(1), ok)
    BY <1>11, StepsOfA
  <2>2. NextPos(Len(Steps(A, f)), k) = 7
    <3>1. NextPos(8, 6) = 7
      BY DEF NextPos
    <3>2. Len(Steps(A, f)) = 8
      BY <1>11, Lengths
    <3> QED  BY <1>11, <3>1, <3>2, Zenon
  <2>3. /\ limits[B] = 30 /\ limits[Waiters[1]] = None
        /\ limits[Waiters[2]] = 1024 /\ limits[Waiters[3]] = 421
    BY <1>11 DEF LimitsAre, LimitOfB
  <2>4. \A q \in Expected(1) : q \in Pids /\ limits[q] # None
    BY <2>3, PidsAre, ExpectedAre
  <2>5. ok /\ limits' = limits
    BY <2>1, <2>4, GetWorks
  <2>6. /\ limits'[B] = 30 /\ limits'[Waiters[1]] = None
        /\ limits'[Waiters[2]] = 1024 /\ limits'[Waiters[3]] = 421
    BY <2>3, <2>5
  <2>7. LimitsAre(limits', 3, 7)
    BY <2>6 DEF LimitsAre, LimitOfB
  <2> QED  BY <1>11, <2>2, <2>5, <2>7
<1>12. CASE f = 3 /\ k = 7
  <2>1. StepOfA(Remove(B), ok)
    BY <1>12, StepsOfA
  <2>2. NextPos(Len(Steps(A, f)), k) = 8
    <3>1. NextPos(8, 7) = 8
      BY DEF NextPos
    <3>2. Len(Steps(A, f)) = 8
      BY <1>12, Lengths
    <3> QED  BY <1>12, <3>1, <3>2, Zenon
  <2>3. /\ limits[B] = 30 /\ limits[Waiters[1]] = None
        /\ limits[Waiters[2]] = 1024 /\ limits[Waiters[3]] = 421
    BY <1>12 DEF LimitsAre, LimitOfB
  <2>4. limits[B] # None
    BY <2>3, PidsAre
  <2>5. ok /\ limits' = [limits EXCEPT ![B] = None]
    BY <2>1, <2>4, PidsAre, ListedWorks
  <2>6. /\ limits'[B] = None /\ limits'[Waiters[1]] = None
        /\ limits'[Waiters[2]] = 1024 /\ limits'[Waiters[3]] = 421
    BY <1>3, <2>3, <2>5, PidsAre
  <2>7. LimitsAre(limits', 3, 8)
    BY <2>6 DEF LimitsAre, LimitOfB
  <2> QED  BY <1>12, <2>2, <2>5, <2>7
<1>13. CASE f = 3 /\ k = 8
  <2>1. StepOfA(Get(2), ok)
    BY <1>13, StepsOfA
  <2>2. NextPos(Len(Steps(A, f)), k) = 9
    <3>1. NextPos(8, 8) = 9
      BY DEF NextPos
    <3>2. Len(Steps(A, f)) = 8
      BY <1>13, Lengths
    <3> QED  BY <1>13, <3>1, <3>2, Zenon
  <2>3. /\ limits[B] = None /\ limits[Waiters[1]] = None
        /\ limits[Waiters[2]] = 1024 /\ limits[Waiters[3]] = 421
    BY <1>13 DEF LimitsAre, LimitOfB
  <2>4. \A q \in Expected(2) : q \in Pids /\ limits[q] # None
    BY <2>3, PidsAre, ExpectedAre
  <2>5. ok /\ limits' = limits
    BY <2>1, <2>4, GetWorks
  <2>6. /\ limits'[B] = None /\ limits'[Waiters[1]] = None
        /\ limits'[Waiters[2]] = 1024 /\ limits'[Waiters[3]] = 421
    BY <2>3, <2>5
  <2>7. LimitsAre(limits', 3, 9)
    BY <2>6 DEF LimitsAre, LimitOfB
  <2> QED  BY <1>13, <2>2, <2>5, <2>7
<1>14. CASE f = 4 /\ k = 1
  <2>1. StepOfA(Add(B, 100), ok)
    BY <1>14, StepsOfA
  <2>2. NextPos(Len(Steps(A, f)), k) = 9
    <3>1. NextPos(1, 1) = 9
      BY DEF NextPos
    <3>2. Len(Steps(A, f)) = 1
      BY <1>14, Lengths
    <3> QED  BY <1>14, <3>1, <3>2, Zenon
  <2>3. /\ limits[B] = None /\ limits[Waiters[1]] = None
        /\ limits[Waiters[2]] = 1024 /\ limits[Waiters[3]] = 421
    BY <1>14 DEF LimitsAre, LimitOfB
  <2>4. Usage(B) <= 100
    BY <1>1, <1>2, <1>14, PidsAre
  <2>5. ok /\ limits' = [limits EXCEPT ![B] = 100]
    BY <1>1, <2>1, <2>3, <2>4, PidsAre, AddWorks
  <2>6. /\ limits'[B] = 100 /\ limits'[Waiters[1]] = None
        /\ limits'[Waiters[2]] = 1024 /\ limits'[Waiters[3]] = 421
    BY <1>3, <2>3, <2>5, PidsAre
  <2>7. LimitsAre(limits', 4, 9)
    BY <2>6 DEF LimitsAre, LimitOfB
  <2> QED  BY <1>14, <2>2, <2>5, <2>7
<1> QED  BY <1>4, <1>5, <1>6, <1>7, <1>8, <1>9, <1>10, <1>11, <1>12, <1>13, <1>14, PlaceInA

(* The allocations of B: those that it expects to be denied are, and the    *)
(* others are not.                                                          *)
LEMMA AllocationsAsExpected ==
  ASSUME player[B] \in Program,
         NEW f \in 1..total_functions, NEW k \in 1..Len(Steps(B, f)), NEW ok \in BOOLEAN,
         NEW new, StepOfB(Steps(B, f)[k], new, ok),
         LimitsAre(limits, f, 10), BuffersAre(player[B], used, f, k)
  PROVE  ok /\ BuffersAre(new, used', f, NextPos(Len(Steps(B, f)), k)) /\ limits' = limits
<1>1. limits' = limits
  BY DEF StepOfB
<1>2. Base \in 1..9 /\ None \notin Nat
  BY HandshakeAssumption
<1>3. CASE f = 1 /\ k = 1
  <2> DEFINE s == Alloc("expect_null", 20)
  <2>1. StepOfB(s, new, ok)
    BY <1>3, StepsOfB
  <2>2. NextPos(Len(Steps(B, f)), k) = 9
    <3>1. NextPos(1, 1) = 9
      BY DEF NextPos
    <3>2. Len(Steps(B, f)) = 1
      BY <1>3, Lengths
    <3> QED  BY <1>3, <3>1, <3>2, Zenon
  <2>3. s.op = "expect_null" /\ s.mb = 20
    BY DEF Alloc
  <2>4. limits[B] = 10
    BY <1>3 DEF LimitsAre, LimitOfB
  <2>5. player[B].buffer2 = 0 /\ player[B].buffer3 = 0 /\ used = Base + 0
    BY <1>2, <1>3 DEF BuffersAre
  <2>6. Denied(20)
    BY <1>2, <2>4, <2>5 DEF Denied
  <2> HIDE DEF s
  <2>7. ok /\ new = player[B] /\ used' = used
    BY <2>1, <2>3, <2>6 DEF StepOfB
  <2>8. new.buffer2 = 0 /\ new.buffer3 = 0 /\ used' = Base + 0
    BY <2>5, <2>7
  <2>9. BuffersAre(new, used', 1, 9)
    BY <1>2, <2>8 DEF BuffersAre
  <2> QED  BY <1>1, <1>3, <2>2, <2>7, <2>9
<1>4. CASE f = 2 /\ k = 1
  <2> DEFINE s == Alloc("buffer2", 20)
  <2>1. StepOfB(s, new, ok)
    BY <1>4, StepsOfB
  <2>2. NextPos(Len(Steps(B, f)), k) = 2
    <3>1. NextPos(2, 1) = 2
      BY DEF NextPos
    <3>2. Len(Steps(B, f)) = 2
      BY <1>4, Lengths
    <3> QED  BY <1>4, <3>1, <3>2, Zenon
  <2>3. s.op = "buffer2" /\ s.mb = 20
    BY DEF Alloc
  <2>4. limits[B] = 30
    BY <1>4 DEF LimitsAre, LimitOfB
  <2>5. player[B].buffer2 = 0 /\ player[B].buffer3 = 0 /\ used = Base + 0
    BY <1>2, <1>4 DEF BuffersAre
  <2>6. ~Denied(20)
    BY <1>2, <2>4, <2>5 DEF Denied
  <2> HIDE DEF s
  <2>7. ok /\ new = [player[B] EXCEPT !.buffer2 = 20] /\ used' = used + 20
    BY <2>1, <2>3, <2>6 DEF StepOfB
  <2>8. new.buffer2 = 20 /\ new.buffer3 = 0 /\ used' = Base + 20
    BY <1>2, <2>5, <2>7, BuffersOf
  <2>9. BuffersAre(new, used', 2, 2)
    BY <1>2, <2>8 DEF BuffersAre
  <2> QED  BY <1>1, <1>4, <2>2, <2>7, <2>9
<1>5. CASE f = 2 /\ k = 2
  <2> DEFINE s == Alloc("expect_null", 20)
  <2>1. StepOfB(s, new, ok)
    BY <1>5, StepsOfB
  <2>2. NextPos(Len(Steps(B, f)), k) = 9
    <3>1. NextPos(2, 2) = 9
      BY DEF NextPos
    <3>2. Len(Steps(B, f)) = 2
      BY <1>5, Lengths
    <3> QED  BY <1>5, <3>1, <3>2, Zenon
  <2>3. s.op = "expect_null" /\ s.mb = 20
    BY DEF Alloc
  <2>4. limits[B] = 30
    BY <1>5 DEF LimitsAre, LimitOfB
  <2>5. player[B].buffer2 = 20 /\ player[B].buffer3 = 0 /\ used = Base + 20
    BY <1>2, <1>5 DEF BuffersAre
  <2>6. Denied(20)
    BY <1>2, <2>4, <2>5 DEF Denied
  <2> HIDE DEF s
  <2>7. ok /\ new = player[B] /\ used' = used
    BY <2>1, <2>3, <2>6 DEF StepOfB
  <2>8. new.buffer2 = 20 /\ new.buffer3 = 0 /\ used' = Base + 20
    BY <2>5, <2>7
  <2>9. BuffersAre(new, used', 2, 9)
    BY <1>2, <2>8 DEF BuffersAre
  <2> QED  BY <1>1, <1>5, <2>2, <2>7, <2>9
<1>6. CASE f = 3 /\ k = 1
  <2> DEFINE s == Alloc("buffer3", 35)
  <2>1. StepOfB(s, new, ok)
    BY <1>6, StepsOfB
  <2>2. NextPos(Len(Steps(B, f)), k) = 9
    <3>1. NextPos(1, 1) = 9
      BY DEF NextPos
    <3>2. Len(Steps(B, f)) = 1
      BY <1>6, Lengths
    <3> QED  BY <1>6, <3>1, <3>2, Zenon
  <2>3. s.op = "buffer3" /\ s.mb = 35
    BY DEF Alloc
  <2>4. limits[B] = None
    BY <1>6 DEF LimitsAre, LimitOfB
  <2>5. player[B].buffer2 = 20 /\ player[B].buffer3 = 0 /\ used = Base + 20
    BY <1>2, <1>6 DEF BuffersAre
  <2>6. ~Denied(35)
    BY <1>2, <2>4, <2>5 DEF Denied
  <2> HIDE DEF s
  <2>7. ok /\ new = [player[B] EXCEPT !.buffer3 = 35] /\ used' = used + 35
    <3>1. /\ ok = (player[B].buffer2 # 0)
          /\ new = IF Denied(s.mb) THEN player[B] ELSE [player[B] EXCEPT !.buffer3 = s.mb]
          /\ used' = used + (IF Denied(s.mb) THEN 0 ELSE s.mb)
      BY <2>1, <2>3 DEF StepOfB
    <3>2. (player[B].buffer2 # 0) = TRUE /\ Denied(s.mb) = FALSE
      BY <2>3, <2>5, <2>6
    <3>3. ok
      BY <3>1, <3>2
    <3> QED  BY <2>3, <3>1, <3>2, <3>3
  <2>8. new.buffer2 = 20 /\ new.buffer3 = 35 /\ used' = Base + 55
    BY <1>2, <2>5, <2>7, BuffersOf
  <2>9. BuffersAre(new, used', 3, 9)
    BY <1>2, <2>8 DEF BuffersAre
  <2> QED  BY <1>1, <1>6, <2>2, <2>7, <2>9
<1>7. CASE f = 4 /\ k = 1
  <2> DEFINE s == Alloc("buffer2", 90)
  <2>1. StepOfB(s, new, ok)
    BY <1>7, StepsOfB
  <2>2. NextPos(Len(Steps(B, f)), k) = 2
    <3>1. NextPos(2, 1) = 2
      BY DEF NextPos
    <3>2. Len(Steps(B, f)) = 2
      BY <1>7, Lengths
    <3> QED  BY <1>7, <3>1, <3>2, Zenon
  <2>3. s.op = "buffer2" /\ s.mb = 90
    BY DEF Alloc
  <2>4. limits[B] = 100
    BY <1>7 DEF LimitsAre, LimitOfB
  <2>5. player[B].buffer2 = 0 /\ player[B].buffer3 = 0 /\ used = Base + 0
    BY <1>2, <1>7 DEF BuffersAre
  <2>6. ~Denied(90)
    BY <1>2, <2>4, <2>5 DEF Denied
  <2> HIDE DEF s
  <2>7. ok /\ new = [player[B] EXCEPT !.buffer2 = 90] /\ used' = used + 90
    BY <2>1, <2>3, <2>6 DEF StepOfB
  <2>8. new.buffer2 = 90 /\ new.buffer3 = 0 /\ used' = Base + 90
    BY <1>2, <2>5, <2>7, BuffersOf
  <2>9. BuffersAre(new, used', 4, 2)
    BY <1>2, <2>8 DEF BuffersAre
  <2> QED  BY <1>1, <1>7, <2>2, <2>7, <2>9
<1>8. CASE f = 4 /\ k = 2
  <2> DEFINE s == Alloc("expect_null", 30)
  <2>1. StepOfB(s, new, ok)
    BY <1>8, StepsOfB
  <2>2. NextPos(Len(Steps(B, f)), k) = 9
    <3>1. NextPos(2, 2) = 9
      BY DEF NextPos
    <3>2. Len(Steps(B, f)) = 2
      BY <1>8, Lengths
    <3> QED  BY <1>8, <3>1, <3>2, Zenon
  <2>3. s.op = "expect_null" /\ s.mb = 30
    BY DEF Alloc
  <2>4. limits[B] = 100
    BY <1>8 DEF LimitsAre, LimitOfB
  <2>5. player[B].buffer2 = 90 /\ player[B].buffer3 = 0 /\ used = Base + 90
    BY <1>2, <1>8 DEF BuffersAre
  <2>6. Denied(30)
    BY <1>2, <2>4, <2>5 DEF Denied
  <2> HIDE DEF s
  <2>7. ok /\ new = player[B] /\ used' = used
    BY <2>1, <2>3, <2>6 DEF StepOfB
  <2>8. new.buffer2 = 90 /\ new.buffer3 = 0 /\ used' = Base + 90
    BY <2>5, <2>7
  <2>9. BuffersAre(new, used', 4, 9)
    BY <1>2, <2>8 DEF BuffersAre
  <2> QED  BY <1>1, <1>8, <2>2, <2>7, <2>9
<1> QED  BY <1>3, <1>4, <1>5, <1>6, <1>7, <1>8, PlaceInB

(* A function that has not failed goes on, or is at its label. *)
LEMMA AfterIs ==
  ASSUME NEW p \in Players, NEW r \in Run, NEW ok \in BOOLEAN, ok, r.at = "step", r.ok, RunIs(p, r)
  PROVE  /\ After(p, r, ok).ok /\ After(p, r, ok).at \in {"step", "exit"}
         /\ Pos(r) = r.k
         /\ Pos(After(p, r, ok)) = NextPos(Len(Steps(p, r.f)), r.k)
<1> DEFINE n == Len(Steps(p, r.f))
           go == [r EXCEPT !.k = @ + 1]
           out == [r EXCEPT !.at = "exit", !.ok = ok]
<1>1. r.k \in Nat /\ n \in Nat
  BY StepTyped DEF RunIs, Run
<1>2. After(p, r, ok) = IF ok /\ r.k < n THEN go ELSE out
  BY DEF After
<1>3. go.ok /\ go.at = "step" /\ go.k = r.k + 1
  BY DEF Run
<1>4. out.ok /\ out.at = "exit"
  BY DEF Run
<1>5. Pos(r) = r.k /\ Pos(go) = r.k + 1 /\ Pos(out) = 9
  BY <1>3, <1>4 DEF Pos
<1> HIDE DEF go, out, n
<1>6. CASE r.k < n
  <2>1. After(p, r, ok) = go /\ NextPos(n, r.k) = r.k + 1
    BY <1>2, <1>6 DEF NextPos
  <2> QED  BY <1>3, <1>5, <2>1 DEF n
<1>7. CASE ~(r.k < n)
  <2>1. After(p, r, ok) = out /\ NextPos(n, r.k) = 9
    BY <1>2, <1>7 DEF NextPos
  <2> QED  BY <1>4, <1>5, <2>1 DEF n
<1> QED  BY <1>6, <1>7

LEMMA FunctionStepInTurn ==
  ASSUME TurnInv, InTurn, NEW p \in Players, NEW ctx \in Ctx, FunctionStep(p, ctx)
  PROVE  InTurn'
<1> DEFINE r == player[p][ctx]
           s == Steps(p, r.f)[r.k]
<1>1. /\ r.at = "step" /\ pending' = pending
      /\ \E ok \in BOOLEAN :
           \/ p = A /\ StepOfA(s, ok) /\ Put(p, [player[p] EXCEPT ![ctx] = After(p, r, ok)])
           \/ p = B /\ \E new \in WithBuffers(s.mb) :
                         StepOfB(s, new, ok) /\ Put(p, [new EXCEPT ![ctx] = After(p, r, ok)])
  BY DEF FunctionStep
<1>2. PICK ok \in BOOLEAN :
        \/ p = A /\ StepOfA(s, ok) /\ Put(p, [player[p] EXCEPT ![ctx] = After(p, r, ok)])
        \/ p = B /\ \E new \in WithBuffers(s.mb) :
                      StepOfB(s, new, ok) /\ Put(p, [new EXCEPT ![ctx] = After(p, r, ok)])
  BY <1>1
<1>3. /\ player[p] \in Program /\ r \in Run /\ RunIs(p, r) /\ r.at # "none"
      /\ r.f \in 1..total_functions /\ r.k \in 1..Len(Steps(p, r.f))
  BY <1>1, PlayerTyped DEF RunIs
<1>4. r.ok /\ r.f = player[p].current_function /\ Settled(player[p])
  BY <1>3 DEF InTurn, Settled
<1>5. /\ After(p, r, ok) \in Run /\ RunIs(p, After(p, r, ok))
      /\ After(p, r, ok).at # "none" /\ After(p, r, ok).f = r.f
  BY <1>1, <1>3, NextStep
<1>6. /\ ~Idle(p) /\ Where(player[p]) = Pos(r)
      /\ \A q \in Players : q # p => Where(player[q]) = 10
  BY <1>3, WhoRuns
<1>7. Pos(r) = r.k
  BY <1>1 DEF Pos
<1>8. A \in Players /\ B \in Players /\ A # B /\ player[B] \in Program
  BY Distinct, PlayerTyped DEF Players, Ctx
<1>9. ok => /\ After(p, r, ok).ok /\ After(p, r, ok).at \in {"step", "exit"}
            /\ Pos(After(p, r, ok)) = NextPos(Len(Steps(p, r.f)), r.k)
  BY <1>1, <1>3, <1>4, AfterIs
<1> HIDE DEF r
<1>10. CASE p = A /\ StepOfA(s, ok) /\ Put(p, [player[p] EXCEPT ![ctx] = After(p, r, ok)])
  <2>1. player[A].peer = "read"
    <3>1. player[A].pc \notin Early
      BY <1>6, <1>8, <1>10 DEF TurnInv, NotBegun, NoTurn
    <3> QED  BY <1>4, <1>10, <3>1 DEF Settled
  <2>2. player[B].current_function = r.f - 1 /\ r.f \in {1, 2, 3, 4}
    <3>1. player[A].current_function = player[B].current_function + 1
      BY <1>6, <1>10 DEF InTurn, InOrder
    <3>2. player[B].current_function \in Int
      BY <1>8 DEF Program
    <3> QED  BY <1>3, <1>4, <1>10, <3>1, <3>2 DEF total_functions
  <2>3. r.f \in {1, 4} => used = Base
    <3>1. BuffersAre(player[B], used, r.f - 1, 10)
      BY <1>6, <1>8, <1>10, <2>2 DEF InTurn, AsTheyDo
    <3>2. ASSUME r.f \in {1, 4} PROVE player[B].buffer2 = 0 /\ player[B].buffer3 = 0
      BY <3>1, <3>2 DEF BuffersAre
    <3> QED  BY <3>1, <3>2, HandshakeAssumption DEF BuffersAre
  <2>4. LimitsAre(limits, r.f, r.k)
    BY <1>4, <1>6, <1>7, <1>10 DEF InTurn, AsTheyDo
  <2>5. ok /\ LimitsAre(limits', r.f, NextPos(Len(Steps(A, r.f)), r.k))
    BY <1>3, <1>10, <2>1, <2>3, <2>4, CallsSucceed DEF TurnInv
  <2>6. used' = used
    BY <1>10 DEF StepOfA
  <2> DEFINE next == After(p, r, ok)
  <2>7. /\ next \in Run /\ next.at # "none" /\ next.at # "kill" /\ next.ok /\ next.f = r.f
        /\ LimitsAre(limits', next.f, Pos(next))
    BY <1>5, <1>9, <1>10, <2>5
  <2>8. Put(p, [player[p] EXCEPT ![ctx] = next])
    BY <1>10
  <2> HIDE DEF next
  <2>9. /\ pending' = pending /\ player[p][ctx].at # "none" /\ next.f = player[p][ctx].f
        /\ p # B /\ player[p] \in Program
    BY <1>1, <1>3, <1>8, <1>10, <2>7 DEF r
  <2> QED  BY <2>6, <2>7, <2>8, <2>9, RunInTurn
<1>11. ASSUME p = B, NEW new \in WithBuffers(s.mb),
              StepOfB(s, new, ok), Put(p, [new EXCEPT ![ctx] = After(p, r, ok)])
       PROVE  InTurn'
  <2>1. /\ new \in Program /\ new.pc = player[p].pc /\ new.peer = player[p].peer
        /\ new.current_function = player[p].current_function
        /\ \A d \in Ctx : new[d] = player[p][d]
    <3>1. s.mb \in Nat
      BY <1>3, StepTyped
    <3> QED  BY <1>8, <1>11, <3>1, WithBuffersTyped
  <2>2. LimitsAre(limits, r.f, 10) /\ BuffersAre(player[B], used, r.f, r.k)
    <3>1. player[A].current_function = player[B].current_function
      BY <1>6, <1>11 DEF InTurn, InOrder
    <3> QED  BY <1>4, <1>6, <1>7, <1>8, <1>11, <3>1 DEF InTurn, AsTheyDo
  <2>3. /\ ok /\ limits' = limits
        /\ BuffersAre(new, used', r.f, NextPos(Len(Steps(B, r.f)), r.k))
    BY <1>3, <1>8, <1>11, <2>2, AllocationsAsExpected
  <2> DEFINE next == After(p, r, ok)
  <2>4. /\ next \in Run /\ next.at # "none" /\ next.at # "kill" /\ next.ok /\ next.f = r.f
        /\ BuffersAre(new, used', next.f, Pos(next))
    BY <1>5, <1>9, <1>11, <2>3
  <2>5. Put(p, [new EXCEPT ![ctx] = next])
    BY <1>11
  <2> HIDE DEF next
  <2>6. /\ pending' = pending /\ player[p][ctx].at # "none" /\ next.f = player[p][ctx].f
        /\ \A d \in Ctx : new[d] = player[p][d]
    BY <1>1, <1>3, <2>1, <2>4 DEF r
  <2>7. p # A /\ limits' = limits /\ BuffersAre(new, used', next.f, Pos(next))
    BY <1>8, <1>11, <2>3, <2>4
  <2> QED  BY <2>1, <2>4, <2>5, <2>6, <2>7, RunInTurn
<1> QED  BY <1>2, <1>10, <1>11

LEMMA FunctionExitInTurn ==
  ASSUME TurnInv, InTurn, NEW p \in Players, NEW ctx \in Ctx, FunctionExit(p, ctx)
  PROVE  InTurn'
<1> DEFINE r == player[p][ctx]
           asleep == [r EXCEPT !.at = "sleep"]
           frees == Frees(p, r.f)
<1>1. /\ r.at = "exit" /\ pending' = pending /\ limits' = limits
      /\ used' = IF frees THEN used - player[p].buffer2 - player[p].buffer3 ELSE used
  BY DEF FunctionExit
<1>2. /\ player[p] \in Program /\ r \in Run /\ r.at # "none" /\ r.f \in 1..total_functions
      /\ player[p].buffer2 \in Nat /\ player[p].buffer3 \in Nat
  BY <1>1, PlayerTyped DEF RunIs
<1>3. r.ok /\ r.f = player[p].current_function
  BY <1>2 DEF InTurn, Settled
<1>4. asleep \in Run /\ asleep.at = "sleep" /\ asleep.ok = r.ok /\ asleep.f = r.f
  BY <1>2 DEF Run, Ats
<1>5. Pos(r) = 9 /\ Pos(asleep) = 10
  BY <1>1, <1>4 DEF Pos
<1>6. /\ ~Idle(p) /\ Where(player[p]) = Pos(r)
      /\ \A q \in Players : q # p => Where(player[q]) = 10
  BY <1>2, WhoRuns
<1>7. PICK b \in Program :
        /\ b.pc = player[p].pc /\ b.current_function = player[p].current_function
        /\ b.peer = player[p].peer /\ \A d \in Ctx : b[d] = player[p][d]
        /\ b.buffer2 = (IF frees THEN 0 ELSE player[p].buffer2)
        /\ b.buffer3 = (IF frees THEN 0 ELSE player[p].buffer3)
        /\ Put(p, [b EXCEPT ![ctx] = asleep])
  BY ExitAs
<1>8. A \in Players /\ B \in Players /\ A # B
  BY Distinct DEF Players
<1> HIDE DEF r, asleep
<1>9. ASSUME p = A PROVE LimitsAre(limits', asleep.f, Pos(asleep)) /\ used' = used
  <2>1. LimitsAre(limits, r.f, 9)
    BY <1>3, <1>5, <1>6, <1>9 DEF InTurn, AsTheyDo
  <2>2. LimitsAre(limits, r.f, 10)
    BY <1>2, <2>1 DEF LimitsAre, LimitOfB, total_functions
  <2> QED  BY <1>1, <1>4, <1>5, <1>8, <1>9, <2>2 DEF Frees
<1>10. ASSUME p = B PROVE limits' = limits /\ BuffersAre(b, used', asleep.f, Pos(asleep))
  <2>1. BuffersAre(player[B], used, r.f, 9)
    BY <1>3, <1>5, <1>6, <1>10 DEF InTurn, AsTheyDo
  <2>2. Base \in 1..9
    BY HandshakeAssumption
  <2>3. CASE r.f \in {1, 2}
    <3>1. ~frees
      BY <1>10, <2>3 DEF Frees
    <3>2. b.buffer2 = player[B].buffer2 /\ b.buffer3 = player[B].buffer3 /\ used' = used
      BY <1>1, <1>7, <1>10, <3>1
    <3>3. BuffersAre(b, used', r.f, 10)
      BY <2>1, <2>3, <3>2 DEF BuffersAre
    <3> QED  BY <1>1, <1>4, <1>5, <3>3
  <2>4. CASE r.f \in {3, 4}
    <3>1. frees
      BY <1>10, <2>4 DEF Frees
    <3>2. b.buffer2 = 0 /\ b.buffer3 = 0
      BY <1>7, <3>1
    <3>3. used' = Base
      BY <1>1, <1>2, <1>10, <2>1, <2>2, <3>1 DEF BuffersAre
    <3>4. BuffersAre(b, used', r.f, 10)
      BY <2>2, <2>4, <3>2, <3>3 DEF BuffersAre
    <3> QED  BY <1>1, <1>4, <1>5, <3>4
  <2> QED  BY <1>2, <2>3, <2>4 DEF total_functions
<1> QED  BY <1>1, <1>2, <1>3, <1>4, <1>7, <1>9, <1>10, RunInTurn DEF r

LEMMA SleepInTurn ==
  ASSUME TurnInv, InTurn, timely, NEW p \in Players, NEW ctx \in Ctx, Sleep(p, ctx)
  PROVE  InTurn'
<1> DEFINE r == player[p][ctx]
           up == [r EXCEPT !.at = "kill"]
<1>1. /\ r.at = "sleep" /\ pending' = pending /\ limits' = limits /\ used' = used
      /\ Ready(Other(p))
  BY DEF Sleep
<1>2. player[p] \in Program /\ r \in Run /\ r.at # "none"
  BY <1>1, PlayerTyped
<1>3. Put(p, [player[p] EXCEPT ![ctx] = up])
  BY <1>2 DEF Sleep, Program, Ctx
<1>4. r.ok /\ r.f = player[p].current_function
  BY <1>2 DEF InTurn, Settled
<1>5. up \in Run /\ up.at = "kill" /\ up.ok = r.ok /\ up.f = r.f
  BY <1>2 DEF Run, Ats
<1>6. Pos(r) = 10 /\ Pos(up) = 10
  BY <1>1, <1>5 DEF Pos
<1>7. Where(player[p]) = Pos(r)
  BY <1>2, WhoRuns
<1>8. player[Other(p)].pc \in Waits
  BY <1>1 DEF Ready, Waits
<1> HIDE DEF r, up
<1>9. p = A => LimitsAre(limits', up.f, Pos(up)) /\ used' = used
  BY <1>1, <1>4, <1>5, <1>6, <1>7 DEF InTurn, AsTheyDo
<1>10. p = B => limits' = limits /\ BuffersAre(player[p], used', up.f, Pos(up))
  BY <1>1, <1>4, <1>5, <1>6, <1>7 DEF InTurn, AsTheyDo
<1> QED  BY <1>1, <1>2, <1>3, <1>4, <1>5, <1>8, <1>9, <1>10, RunInTurn DEF r

LEMMA PlayersAre ==
  ASSUME TurnInv
  PROVE  /\ A \in Players /\ B \in Players /\ A # B /\ Players = {A, B}
         /\ player[A] \in Program /\ player[B] \in Program
         /\ player[A].current_function \in 0..total_functions
         /\ player[B].current_function \in 0..total_functions
  BY Distinct, PlayerTyped DEF Players, Ctx

LEMMA read_pidInTurn ==
  ASSUME TurnInv, InTurn, timely, NEW p \in Players, read_pid(p)
  PROVE  InTurn'
<1>1. /\ player[p].pc = "read_pid" /\ player[p].handler = NoRun /\ player[p].main = NoRun
      /\ pid_file[Other(p)] = "written"
      /\ pending' = pending /\ limits' = limits /\ used' = used
  BY DEF read_pid, InMain
<1>2. Put(p, [player[p] EXCEPT
                !.pc = "loop", !.peer = "read",
                !.main = IF p = A THEN Begin(@.f + 1) ELSE NoRun,
                !.current_function = IF p = A THEN @ + 1 ELSE @])
  BY <1>1 DEF read_pid
<1>3. player[p].pc \in Early
  BY <1>1 DEF Early
<1>4. NoRun.f = 0 /\ NoRun \in Run /\ "loop" \in Pcs
  BY NoRunIs DEF NoRun, Pcs
<1>5. CASE p = A
  <2>1. NoTurn /\ player[A].current_function = 0
    BY <1>3, <1>5 DEF TurnInv, NotBegun
  <2>2. player[B].current_function = 0
    BY <2>1 DEF InTurn, InOrder
  <2>3. Begin(1) \in Run /\ 1 \in 1..total_functions
    BY <1>5, BeginsWithin DEF total_functions
  <2> DEFINE new == [player[p] EXCEPT !.pc = "loop", !.peer = "read", !.main = Begin(1),
                                      !.current_function = 1]
  <2>4. Put(p, new)
    <3>1. player[p].main.f + 1 = 1 /\ player[p].current_function + 1 = 1
      BY <1>1, <1>4, <1>5, <2>1
    <3> QED  BY <1>2, <1>5, <3>1
  <2>5. /\ new \in Program /\ new.pc = "loop" /\ new.peer = "read" /\ new.current_function = 1
        /\ new.main = Begin(1) /\ new.handler = player[p].handler
        /\ new.buffer2 = player[p].buffer2 /\ new.buffer3 = player[p].buffer3
    BY <1>4, <1>5, <2>3, PlayersAre DEF Program
  <2> HIDE DEF new
  <2>6. /\ "main" \in Ctx /\ new["main"] = Begin(new.current_function)
        /\ \A d \in Ctx : d # "main" => new[d] = player[p][d]
    BY <2>5 DEF Ctx
  <2>7. \A q \in Players : Idle(q) /\ ~pending'[q]
    BY <1>1, <2>1 DEF NoTurn
  <2>8. new.pc \notin Early /\ new.pc \notin {"exit", "gone"}
    BY <2>5 DEF Early
  <2> QED  BY <1>1, <1>5, <2>1, <2>2, <2>3, <2>4, <2>5, <2>6, <2>7, <2>8, PlayersAre, BeginInTurn
<1>6. CASE p = B
  <2> DEFINE new == [player[p] EXCEPT !.pc = "loop", !.peer = "read"]
  <2>1. Put(p, new)
    <3>1. new = [player[p] EXCEPT
                   !.pc = "loop", !.peer = "read",
                   !.main = IF p = A THEN Begin(@.f + 1) ELSE NoRun,
                   !.current_function = IF p = A THEN @ + 1 ELSE @]
      BY <1>1, <1>6, PlayersAre DEF Program
    <3> QED  BY <1>2, <3>1
  <2>2. /\ new \in Program /\ new.pc = "loop" /\ new.peer = "read"
        /\ new.current_function = player[B].current_function
        /\ new.main = player[B].main /\ new.handler = player[B].handler
        /\ new.buffer2 = player[B].buffer2 /\ new.buffer3 = player[B].buffer3
    BY <1>4, <1>6, PlayersAre DEF Program
  <2>3. player'[B] = new /\ player'[A] = player[A]
    BY <1>6, <2>1, <2>2, PutOne, PlayersAre DEF TurnInv, Types
  <2> HIDE DEF new
  <2>4. \A d \in Ctx : new[d] = player[B][d]
    BY <2>2 DEF Ctx
  <2>5. Idle(B) /\ ~pending[B] /\ \A d \in Ctx : player[A][d].at # "kill"
    BY <1>1, <1>3, <1>6 DEF InTurn, InOrder
  <2>6. \A q \in Players : Settled(player[q])'
    <3>1. Settled(new)
      BY <2>2, <2>4, PlayersAre DEF InTurn, Settled
    <3> QED  BY <2>3, <3>1, PlayersAre DEF InTurn
  <2>7. AsTheyDo'
    BY <1>1, <2>2, <2>3 DEF InTurn, AsTheyDo, Where, BuffersAre
  <2>8. InOrder'
    <3>1. Idle(B)' /\ (Idle(A)' <=> Idle(A))
      BY <2>3, <2>4, <2>5 DEF Idle
    <3>2. NoTurn' <=> NoTurn
      BY <1>1, <2>5, <3>1, PlayersAre DEF NoTurn
    <3> QED  BY <1>1, <2>2, <2>3, <2>5, <3>1, <3>2 DEF InTurn, InOrder, Idle
  <2> QED  BY <2>6, <2>7, <2>8 DEF InTurn
<1> QED  BY <1>5, <1>6 DEF Players

LEMMA handle_signalInTurn ==
  ASSUME TurnInv, InTurn, NEW p \in Players, handle_signal(p)
  PROVE  InTurn'
<1> DEFINE pc == IF player[p].pc = "pause" THEN "loop" ELSE player[p].pc
           f == player[p].current_function
<1>1. /\ pending[p] /\ pending' = [pending EXCEPT ![p] = FALSE]
      /\ limits' = limits /\ used' = used
  BY DEF handle_signal
<1>2. Settled(player[p])
  BY DEF InTurn
<1>3. \A q \in Players : Idle(q) /\ ~pending'[q]
  <2>1. \A q \in Players : Idle(q) /\ (pending[q] => p = q)
    BY <1>1 DEF TurnInv, AtMostOne
  <2> QED  BY <1>1, <2>1 DEF TurnInv, Types
<1>4. CASE ~(f < total_functions)
  <2>1. f = total_functions
    BY <1>4, PlayersAre DEF total_functions
  <2>2. p = A
    <3>1. ASSUME p = B PROVE FALSE
      <4>1. player[A].current_function = player[B].current_function + 1
        BY <1>1, <3>1 DEF InTurn, InOrder
      <4> QED  BY <2>1, <3>1, <4>1, PlayersAre DEF total_functions
    <3> QED  BY <3>1 DEF Players
  <2>3. player[A].pc \in {"pause", "exit"}
    BY <1>1, <2>2 DEF InTurn, InOrder
  <2>4. pc \in Pcs /\ Goto(p, pc)
    BY <1>4, HandlerAs
  <2>5. /\ pc \notin Early /\ player[p].pc \notin Early
    BY <2>2, <2>3 DEF Early
  <2> HIDE DEF pc
  <2> QED  BY <1>1, <2>1, <2>2, <2>4, <2>5, PlayersAre, GotoInTurn
<1>5. CASE f < total_functions
  <2>1. player[p].pc = "pause"
    BY <1>1, <1>2, <1>5 DEF InTurn, InOrder, Settled, Players, total_functions
  <2>2. pc = "loop" /\ player[p].peer = "read"
    BY <1>2, <2>1 DEF Settled, Early
  <2>3. PICK new \in Program :
          /\ Put(p, new) /\ new.pc = pc /\ new.peer = player[p].peer
          /\ new.current_function = f + 1
          /\ new.main = player[p].main /\ new.handler = Begin(new.current_function)
          /\ new.buffer2 = player[p].buffer2 /\ new.buffer3 = player[p].buffer3
    BY <1>5, HandlerAs
  <2>4. new.current_function \in 1..total_functions
    BY <1>5, <2>3, PlayersAre DEF total_functions
  <2>5. /\ "handler" \in Ctx /\ new["handler"] = Begin(new.current_function)
        /\ \A d \in Ctx : d # "handler" => new[d] = player[p][d]
    BY <2>3 DEF Ctx
  <2>6. new.pc \notin Early /\ new.pc \notin {"exit", "gone"} /\ new.peer = "read"
    BY <2>2, <2>3 DEF Early
  <2>7. /\ p = A => player[A].current_function = player[B].current_function
        /\ p = B => player[A].current_function = player[B].current_function + 1
    BY <1>1 DEF InTurn, InOrder
  <2> QED  BY <1>1, <1>3, <2>3, <2>4, <2>5, <2>6, <2>7, BeginInTurn
<1> QED  BY <1>4, <1>5

LEMMA MainInTurn ==
  ASSUME TurnInv, InTurn, NEW p \in Players,
         \/ CreatePidFile(p) \/ WritePidFile(p) \/ Sigaction(p)
         \/ Loop(p) \/ ExitProcess(p) \/ Terminated(p)
  PROVE  InTurn'
<1>1. /\ pending[A] => player[A].pc \in {"pause", "exit"}
      /\ pending[B] => player[B].pc = "pause"
  BY DEF InTurn, InOrder
<1>2. limits' = limits /\ used' = used
  BY DEF CreatePidFile, WritePidFile, Sigaction, Loop, ExitProcess, Terminated
<1>3. ~Terminated(p)
  BY <1>1 DEF Terminated, Players
<1>4. Settled(player[p])
  BY DEF InTurn
<1>5. CASE ExitProcess(p)
  <2>1. /\ player[p].pc = "exit" /\ Goto(p, "gone") /\ pending' = [pending EXCEPT ![p] = FALSE]
    BY <1>5 DEF ExitProcess, InMain
  <2>2. player[p].current_function = total_functions
    BY <1>4, <2>1 DEF Settled
  <2>3. pending[p] => p = A
    BY <1>1, <2>1 DEF Players
  <2>4. "gone" \in Pcs /\ "gone" \notin Early /\ "exit" \notin Early /\ "gone" \in Waits
    BY DEF Pcs, Early, Waits
  <2> QED  BY <1>2, <2>1, <2>2, <2>3, <2>4, GotoInTurn
<1>6. CASE CreatePidFile(p) \/ WritePidFile(p) \/ Sigaction(p) \/ Loop(p)
  <2>1. /\ player[p].pc \in {"create", "write", "sigaction", "loop"} /\ pending' = pending
    BY <1>6 DEF CreatePidFile, WritePidFile, Sigaction, Loop, InMain
  <2>2. ~pending[p]
    BY <1>1, <2>1 DEF Players
  <2>3. pending' = [pending EXCEPT ![p] = FALSE]
    BY <2>1, <2>2 DEF TurnInv, Types
  <2>4. player[p].pc \notin Waits
    BY <2>1 DEF Waits
  <2>5. PICK pc \in Pcs : /\ Goto(p, pc) /\ (pc \in Early <=> player[p].pc \in Early)
                          /\ pc \in {"exit", "gone"} =>
                               player[p].current_function = total_functions
    <3>1. CASE CreatePidFile(p)
      BY <3>1 DEF CreatePidFile, InMain, Pcs, Early
    <3>2. CASE WritePidFile(p)
      BY <3>2 DEF WritePidFile, InMain, Pcs, Early
    <3>3. CASE Sigaction(p)
      BY <3>3 DEF Sigaction, InMain, Pcs, Early
    <3>4. CASE Loop(p)
      <4>1. player[p].current_function \in 0..total_functions
        BY PlayersAre
      <4>2. CASE player[p].current_function < total_functions
        BY <3>4, <4>2 DEF Loop, InMain, Pcs, Early
      <4>3. CASE player[p].current_function = total_functions
        <5>1. Goto(p, "exit")
          BY <3>4, <4>3 DEF Loop, total_functions
        <5> QED  BY <3>4, <4>3, <5>1 DEF Loop, InMain, Pcs, Early
      <4> QED  BY <4>1, <4>2, <4>3 DEF total_functions
    <3> QED  BY <1>6, <3>1, <3>2, <3>3, <3>4
  <2>6. /\ p = B => player[B].pc # "pause"
        /\ p = A /\ player[A].pc \in Waits => pc \in Waits \/ pending[A]
    BY <2>1, <2>4
  <2>7. /\ Goto(p, pc) /\ (pc \in Early <=> player[p].pc \in Early)
        /\ pc \in {"exit", "gone"} => player[p].current_function = total_functions
    BY <2>5
  <2> QED  BY <1>2, <2>2, <2>3, <2>6, <2>7, GotoInTurn
<1> QED  BY <1>3, <1>5, <1>6

-----------------------------------------------------------------------------
(* C and the two others keep to their own limits. *)

(* A never names C. *)
LEMMA OthersAreNotC ==
  /\ B # C /\ None # C
  /\ \A f \in 1..total_functions : \A k \in 1..Len(Steps(A, f)) :
       /\ Steps(A, f)[k].pid # C
       /\ Steps(A, f)[k].op \in {"add", "update", "remove", "get"}
<1>1. C \in Pids /\ B # C /\ None # C /\ \A i \in 1..3 : Waiters[i] # C
  BY PidsAre, Distinct
<1> SUFFICES ASSUME NEW f \in 1..total_functions, NEW k \in 1..Len(Steps(A, f))
             PROVE  /\ Steps(A, f)[k].pid # C
                    /\ Steps(A, f)[k].op \in {"add", "update", "remove", "get"}
  BY <1>1
<1>2. Waiters[1] # C /\ Waiters[2] # C /\ Waiters[3] # C
  BY <1>1
<1> QED  BY <1>1, <1>2, CallsOfA

(* A call for another process leaves the limit of C. *)
LEMMA CalledFor ==
  ASSUME Types, NEW s, s.pid # C, s.op \in {"add", "update", "remove"}
  PROVE  Called(s).limits[C] = limits[C]
<1> DEFINE q == Named(s.pid)
<1>1. q # C /\ C \in Pids
  BY OthersAreNotC DEF Named, Pids
<1> HIDE DEF q
<1>2. \A mb : matus_add_memory_limit(q, mb).limits \in {limits, [limits EXCEPT ![q] = mb]}
  BY DEF matus_add_memory_limit
<1>3. \A new : Listed(q, new).limits \in {limits, [limits EXCEPT ![q] = new]}
  BY DEF Listed
<1>4. \A new : [limits EXCEPT ![q] = new][C] = limits[C]
  BY <1>1 DEF Types
<1>5. Called(s) \in {matus_add_memory_limit(q, s.mb), Listed(q, s.mb), Listed(q, None)}
  BY DEF Called, q, matus_update_memory_limit, matus_remove_memory_limit
<1>6. \A mb : matus_add_memory_limit(q, mb).limits[C] = limits[C]
  BY <1>2, <1>4
<1>7. \A new : Listed(q, new).limits[C] = limits[C]
  BY <1>3, <1>4
<1> QED  BY <1>5, <1>6, <1>7

LEMMA PlayKeepsChecked ==
  ASSUME TurnInv, NEW p \in Players, Play(p)
  PROVE  checker' = checker /\ limits'[C] = limits[C]
<1>1. ASSUME NEW ctx \in Ctx, FunctionStep(p, ctx)
      PROVE  checker' = checker /\ limits'[C] = limits[C]
  <2> DEFINE r == player[p][ctx]
             s == Steps(p, r.f)[r.k]
  <2>1. /\ checker' = checker /\ r.at # "none"
        /\ \E ok \in BOOLEAN :
             \/ p = A /\ StepOfA(s, ok)
             \/ p = B /\ \E new \in WithBuffers(s.mb) : StepOfB(s, new, ok)
    BY <1>1 DEF FunctionStep
  <2>2. r.f \in 1..total_functions /\ r.k \in 1..Len(Steps(p, r.f))
    BY <2>1, PlayerTyped DEF RunIs
  <2> HIDE DEF r
  <2>3. CASE \E ok \in BOOLEAN : p = A /\ StepOfA(s, ok)
    <3>1. s.pid # C /\ s.op \in {"add", "update", "remove", "get"}
      BY <2>2, <2>3, OthersAreNotC
    <3>2. limits' = limits \/ (s.op # "get" /\ limits' = Called(s).limits)
      BY <2>3 DEF StepOfA
    <3> HIDE DEF s
    <3> QED  BY <2>1, <3>1, <3>2, CalledFor DEF TurnInv
  <2>4. CASE \E ok \in BOOLEAN : \E new : StepOfB(s, new, ok)
    BY <2>1, <2>4 DEF StepOfB
  <2> QED  BY <2>1, <2>3, <2>4
<1>2. ASSUME NEW ctx \in Ctx, FunctionExit(p, ctx) \/ Sleep(p, ctx) \/ Kill(p, ctx)
      PROVE  checker' = checker /\ limits'[C] = limits[C]
  BY <1>2 DEF FunctionExit, Sleep, Kill
<1>3. ASSUME \/ CreatePidFile(p) \/ WritePidFile(p) \/ Sigaction(p) \/ read_pid(p)
             \/ Loop(p) \/ ExitProcess(p) \/ Terminated(p) \/ handle_signal(p)
      PROVE  checker' = checker /\ limits'[C] = limits[C]
  BY <1>3 DEF CreatePidFile, WritePidFile, Sigaction, read_pid, Loop, ExitProcess, Terminated,
              handle_signal
<1> QED  BY <1>1, <1>2, <1>3 DEF Play

(* What each of its tests returns and leaves. *)
LEMMA ErrorHandlingAs ==
  ASSUME TurnInv, Checked, ErrorHandling
  PROVE  /\ Checked' /\ \A q \in Pids : q # C => limits'[q] = limits[q]
<1>1. /\ limits \in [Pids -> Nat \cup {None}] /\ C \in Pids /\ None \notin Pids \cup Nat
      /\ Base \in 1..9 /\ C # B
  BY PidsAre, Distinct, HandshakeAssumption DEF TurnInv, Types
<1>2. Usage(C) = Base /\ C # None
  BY <1>1 DEF Usage
<1>3. CASE CheckCall(1, AddAs(FALSE, FALSE, C, 10), "EPERM")
  <2> DEFINE result == AddAs(FALSE, FALSE, C, 10)
  <2>1. result.limits = limits /\ result.ret = "EPERM"
    BY <1>2 DEF AddAs
  <2>2. Check(1, result.ret, result.limits, "EPERM")
    BY <1>3 DEF CheckCall
  <2> HIDE DEF result
  <2> QED  BY <2>1, <2>2 DEF Check, Checked, Errno
<1>4. CASE CheckCall(2, AddAs(TRUE, TRUE, C, 10), "EINVAL")
  <2> DEFINE result == AddAs(TRUE, TRUE, C, 10)
  <2>1. result.limits = limits /\ result.ret = "EINVAL"
    BY DEF AddAs
  <2>2. Check(2, result.ret, result.limits, "EINVAL")
    BY <1>4 DEF CheckCall
  <2> HIDE DEF result
  <2> QED  BY <2>1, <2>2 DEF Check, Checked, Errno
<1>5. CASE CheckCall(3, AddAs(TRUE, FALSE, None, 10), "ESRCH")
  <2> DEFINE result == AddAs(TRUE, FALSE, None, 10)
  <2>1. result.limits = limits /\ result.ret = "ESRCH"
    BY DEF AddAs, matus_add_memory_limit
  <2>2. Check(3, result.ret, result.limits, "ESRCH")
    BY <1>5 DEF CheckCall
  <2> HIDE DEF result
  <2> QED  BY <2>1, <2>2 DEF Check, Checked, Errno
<1>6. CASE CheckCall(4, matus_remove_memory_limit(C), "-102")
  <2> DEFINE result == matus_remove_memory_limit(C)
  <2>1. checker.test = 4 /\ Check(4, result.ret, result.limits, "-102")
    BY <1>6 DEF CheckCall, Check
  <2>2. limits[C] = None
    BY <2>1 DEF Checked
  <2>3. result.limits = limits /\ result.ret = "-102"
    BY <2>2 DEF matus_remove_memory_limit, Listed
  <2> HIDE DEF result
  <2> QED  BY <2>1, <2>3 DEF Check, Checked, Errno
<1>7. CASE CheckCall(5, matus_update_memory_limit(C, 10), "-102")
  <2> DEFINE result == matus_update_memory_limit(C, 10)
  <2>1. checker.test = 5 /\ Check(5, result.ret, result.limits, "-102")
    BY <1>7 DEF CheckCall, Check
  <2>2. limits[C] = None
    BY <2>1 DEF Checked
  <2>3. result.limits = limits /\ result.ret = "-102"
    BY <2>2 DEF matus_update_memory_limit, Listed
  <2> HIDE DEF result
  <2> QED  BY <2>1, <2>3 DEF Check, Checked, Errno
<1>8. CASE CheckCall(6, matus_add_memory_limit(C, 20), "not looked at")
  <2> DEFINE result == matus_add_memory_limit(C, 20)
  <2>1. Check(6, result.ret, result.limits, "not looked at")
    BY <1>8 DEF CheckCall
  <2>2. checker.test = 6
    BY <2>1 DEF Check
  <2>3. limits[C] = None /\ checker.errno = "-102" /\ checker.score = 5
    BY <2>2 DEF Checked
  <2>4. result.limits = [limits EXCEPT ![C] = 20] /\ result.ret = "0"
    BY <1>1, <1>2, <2>3 DEF matus_add_memory_limit
  <2> HIDE DEF result
  <2>5. limits' = result.limits
    BY <2>1 DEF Check
  <2>6. limits'[C] = 20 /\ \A q \in Pids : q # C => limits'[q] = limits[q]
    BY <1>1, <2>4, <2>5
  <2>7. Errno(result.ret) = "-102"
    BY <2>3, <2>4 DEF Errno
  <2>8. checker' = [test |-> 6 + 1, errno |-> Errno(result.ret),
                    score |-> checker.score
                                + (IF Errno(result.ret) = "not looked at" THEN 1 ELSE 0)]
    BY <2>1 DEF Check
  <2>9. checker'.test = 7 /\ checker'.errno = "-102" /\ checker'.score = 5
    BY <2>3, <2>7, <2>8
  <2> QED  BY <2>6, <2>9 DEF Checked
<1>9. CASE CheckCall(7, matus_add_memory_limit(C, 20), "-101")
  <2> DEFINE result == matus_add_memory_limit(C, 20)
  <2>1. checker.test = 7 /\ Check(7, result.ret, result.limits, "-101")
    BY <1>9 DEF CheckCall, Check
  <2>2. limits[C] # None
    BY <1>1, <2>1 DEF Checked
  <2>3. result.limits = limits /\ result.ret = "-101"
    BY <1>1, <1>2, <2>2 DEF matus_add_memory_limit
  <2> HIDE DEF result
  <2> QED  BY <2>1, <2>3 DEF Check, Checked, Errno
<1> QED  BY <1>3, <1>4, <1>5, <1>6, <1>7, <1>8, <1>9 DEF ErrorHandling

LEMMA ErrorHandlingInTurn ==
  ASSUME TurnInv, InTurn, Checked, ErrorHandling
  PROVE  InTurn'
<1>1. \A q \in Pids : q # C => limits'[q] = limits[q]
  BY ErrorHandlingAs
<1>2. used' = used /\ player' = player /\ pending' = pending
  BY DEF ErrorHandling, Check, CheckCall
<1>3. \A f, k : LimitsAre(limits, f, k) => LimitsAre(limits', f, k)
  BY <1>1, PidsAre, Distinct DEF LimitsAre
<1> QED  BY <1>2, <1>3 DEF InTurn, InOrder, AsTheyDo, NoTurn, Idle

(* The invariant of the tests. *)
TestsInv == TurnInv /\ (timely => InTurn) /\ Checked

LEMMA TestsInvInit == Init => TestsInv
<1> SUFFICES ASSUME Init PROVE TestsInv
  OBVIOUS
<1>1. TurnInv
  BY TurnInvInit
<1>2. \A p \in Players : player[p] = Start /\ ~pending[p]
  BY DEF Init
<1>3. /\ Start.main = NoRun /\ Start.handler = NoRun /\ Start.pc = "create"
      /\ Start.current_function = 0 /\ Start.buffer2 = 0 /\ Start.buffer3 = 0
      /\ NoRun.at = "none" /\ NoRun.ok = TRUE /\ "create" \in Early
  BY DEF Start, NoRun, Early
<1>4. \A ctx \in Ctx : Start[ctx] = NoRun
  BY <1>3 DEF Ctx
<1>5. Where(Start) = 10
  BY <1>3, <1>4, WhereIdle
<1>6. Settled(Start)
  BY <1>3, <1>4 DEF Settled
<1>7. LimitsAre(limits, 0, 10)
  BY PidsAre DEF Init, LimitsAre, LimitOfB
<1>8. BuffersAre(Start, used, 0, 10)
  BY <1>3, HandshakeAssumption DEF Init, BuffersAre
<1>9. \A p \in Players : Idle(p) /\ ~pending[p]
  BY <1>2, <1>3, <1>4 DEF Idle
<1>10. InOrder
  BY <1>1, <1>2, <1>3, <1>9, PlayersAre DEF InOrder, Idle
<1>11. InTurn
  BY <1>1, <1>2, <1>3, <1>5, <1>6, <1>7, <1>8, <1>10, PlayersAre DEF InTurn, AsTheyDo
<1>12. Checked
  BY PidsAre DEF Init, Checked
<1> QED  BY <1>1, <1>11, <1>12 DEF TestsInv

LEMMA TestsInvNext == TestsInv /\ [Next]_vars => TestsInv'
<1> SUFFICES ASSUME TestsInv, [Next]_vars PROVE TestsInv'
  OBVIOUS
<1>1. TurnInv'
  BY TurnInvNext DEF TestsInv
<1>2. CASE UNCHANGED vars
  BY <1>1, <1>2 DEF TestsInv, vars, InTurn, InOrder, AsTheyDo, NoTurn, Idle, Checked
<1>3. ASSUME NEW p \in Players, Play(p) PROVE TestsInv'
  <2>1. timely' = timely
    BY <1>3 DEF Play, CreatePidFile, WritePidFile, Sigaction, read_pid, Loop, ExitProcess,
                Terminated, handle_signal, FunctionStep, FunctionExit, Sleep, Kill
  <2>2. Checked'
    BY <1>3, PlayKeepsChecked DEF TestsInv, Checked
  <2>3. ASSUME timely PROVE InTurn'
    <3>1. InTurn
      BY <2>3 DEF TestsInv
    <3>2. ASSUME NEW ctx \in Ctx,
                 FunctionStep(p, ctx) \/ FunctionExit(p, ctx) \/ Sleep(p, ctx) \/ Kill(p, ctx)
          PROVE  InTurn'
      BY <2>3, <3>1, <3>2, FunctionStepInTurn, FunctionExitInTurn, SleepInTurn, KillInTurn
         DEF TestsInv
    <3> QED  BY <1>3, <2>3, <3>1, <3>2, MainInTurn, read_pidInTurn, handle_signalInTurn
                DEF TestsInv, Play
  <2> QED  BY <1>1, <2>1, <2>2, <2>3 DEF TestsInv
<1>4. ASSUME ErrorHandling PROVE TestsInv'
  <2>1. timely' = timely
    BY <1>4 DEF ErrorHandling, Check, CheckCall
  <2> QED  BY <1>1, <1>4, <2>1, ErrorHandlingAs, ErrorHandlingInTurn DEF TestsInv
<1> QED  BY <1>2, <1>3, <1>4 DEF Next

(* Whatever the timing C keeps to its own limit; and when two seconds are   *)
(* enough the limits and the buffers are those that belong to the turn.     *)
THEOREM TestsInvariant == Spec => []TestsInv
  BY TestsInvInit, TestsInvNext, PTL DEF Spec

(* When two seconds are enough no function of the tests fails and A is at   *)
(* most one function ahead of B: the limits that A has set are those that B *)
(* expects to allocate under.  And the calls of C that must fail all do.    *)
THEOREM TestsAlwaysPass == Spec => []TestsPass
<1>1. TestsInv => TestsPass
  <2> SUFFICES ASSUME TestsInv PROVE TestsPass
    OBVIOUS
  <2>1. checker.test = 8 => checker.score = 6
    BY DEF TestsInv, Checked
  <2>2. ASSUME timely
        PROVE  \/ player[A].current_function = player[B].current_function
               \/ player[A].current_function = player[B].current_function + 1
    BY <2>2 DEF TestsInv, InTurn, InOrder, NoTurn, Players
  <2>3. ASSUME timely PROVE \A p \in Players : \A ctx \in Ctx : player[p][ctx].ok
    BY <2>3 DEF TestsInv, InTurn, Settled
  <2>4. TurnInv
    BY DEF TestsInv
  <2> QED  BY <2>1, <2>2, <2>3, <2>4, PlayersAre DEF TestsPass, total_functions
<1> QED  BY <1>1, TestsInvariant, PTL
=============================================================================
