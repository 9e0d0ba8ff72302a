----------------------------- MODULE FreeMemory -----------------------------
(***************************************************************************)
(* Who reads the page counters of the kernel, which nobody stops: the      *)
(* system call matus_capture_memory_snapshot (kernel/usac/project1/        *)
(* syscall1.c), one counter after the other, and the reserves of free      *)
(* memory of mm/mmap.c, set at boot and again when memory is added or      *)
(* removed, which the administrator may set too.                           *)
(***************************************************************************)
EXTENDS Integers, Sequences

CONSTANTS
  Pages,         \* bound: pages, on and off line
  KPerPage,      \* kbytes of a page
  UserMax,       \* 1 << 17
  AdminMax,      \* 1 << 13
  ReserveArgs,   \* bound: what the administrator sets
  MaxMoves       \* bound: pages that change during a call

ASSUME MemoryAssumption ==
  /\ Pages \in Nat \ {0} /\ KPerPage \in Nat \ {0} /\ MaxMoves \in Nat
  /\ UserMax \in Nat \ {0} /\ AdminMax \in 1..UserMax /\ ReserveArgs \subseteq Nat

VARIABLES
  count,     \* pages in each state
  snapshot,  \* the call: the next counter, what has been read, pages moved since
  reserve,   \* sysctl_user_reserve_kbytes and sysctl_admin_reserve_kbytes
  notifier   \* reserve_mem_notifier(): where it is, the free_kbytes it has read

memoryVars == <<count, snapshot, reserve, notifier>>

(* A page is free, active anonymous memory, of a file that is active or not,*)
(* or in the swap cache.                                                    *)
PageStates == {"offline", "free", "active_anon", "file", "active_file", "swapcache"}
Online     == PageStates \ {"offline"}

Cached       == count["file"] + count["active_file"] + count["swapcache"]
Total        == count["free"] + count["active_anon"] + Cached
K(pages)     == KPerPage * pages
Least(x, y)  == IF x < y THEN x ELSE y

(* Faulty variant: what can be reclaimed counts as free. *)
Counters_Available ==
  [total |-> Total, free |-> count["free"] + count["file"],
   active_anon |-> count["active_anon"], active_file |-> count["active_file"],
   cache |-> Cached, swap |-> count["swapcache"]]

(* What the kernel counts: NR_FILE_PAGES has the swap cache in it. *)
Counters ==
  [total |-> Total, free |-> count["free"],
   active_anon |-> count["active_anon"], active_file |-> count["active_file"],
   cache |-> Cached, swap |-> count["swapcache"]]

Order == <<"total", "free", "active_anon", "active_file", "cache", "swap">>

-----------------------------------------------------------------------------
(* The pages *)

SnapshotSees(pages) ==
  /\ snapshot.moved + pages <= MaxMoves
  /\ snapshot' = [snapshot EXCEPT !.moved = IF snapshot.next > 1 THEN @ + pages ELSE @]

(* A page is allocated, freed, read, activated, swapped, ... *)
Move(from, to) ==
  /\ from # to /\ count[from] > 0 /\ {from, to} \subseteq Online
  /\ notifier.moved < MaxMoves /\ SnapshotSees(1)
  /\ count' = [count EXCEPT ![from] = @ - 1, ![to] = @ + 1]
  /\ notifier' = [notifier EXCEPT !.moved = IF notifier.at # "idle" THEN @ + 1 ELSE @]
  /\ UNCHANGED reserve

-----------------------------------------------------------------------------
(* matus_capture_memory_snapshot() *)

NoFields   == [f \in {Order[i] : i \in 1..6} |-> 0]
NoSnapshot == [next |-> 1, read |-> NoFields, moved |-> 0]

(* The counters are read one by one, the first two by si_meminfo(). *)
Capture ==
  LET f == Order[snapshot.next] IN
  /\ snapshot.next \in DOMAIN Order
  /\ snapshot' = [snapshot EXCEPT !.next = @ + 1, !.read[f] = Counters[f]]
  /\ UNCHANGED <<count, reserve, notifier>>

(* copy_to_user(), whether it fails or not *)
CaptureReturn ==
  /\ snapshot.next > Len(Order) /\ snapshot' = NoSnapshot
  /\ UNCHANGED <<count, reserve, notifier>>

-----------------------------------------------------------------------------
(* The reserves *)

NoNotifier == [at |-> "idle", free |-> 0, moved |-> 0, set |-> FALSE]

MaxOf == [user |-> UserMax, admin |-> AdminMax]

(* init_user_reserve() and init_admin_reserve() *)
InitReserve(r) == Least(K(count["free"]) \div 32, MaxOf[r])

(* The administrator writes the sysctl. *)
SetReserve(r, kbytes) ==
  /\ reserve' = [reserve EXCEPT ![r] = kbytes]
  /\ notifier' = [notifier EXCEPT !.set = notifier.at # "idle"]
  /\ UNCHANGED <<count, snapshot>>

(* Free pages come or go, and the notifier runs. *)
MemOnline(pages) ==
  /\ notifier.at = "idle" /\ pages \in 1..count["offline"] /\ SnapshotSees(pages)
  /\ count' = [count EXCEPT !["offline"] = @ - pages, !["free"] = @ + pages]
  /\ notifier' = [NoNotifier EXCEPT !.at = "online_user"]
  /\ UNCHANGED reserve

MemOffline(pages) ==
  /\ notifier.at = "idle" /\ pages \in 1..count["free"] /\ SnapshotSees(pages)
  /\ count' = [count EXCEPT !["offline"] = @ + pages, !["free"] = @ - pages]
  /\ notifier' = [NoNotifier EXCEPT !.at = "offline_read"]
  /\ UNCHANGED reserve

Then(at, next) == notifier.at = at /\ notifier' = [notifier EXCEPT !.at = next]
InitOrKeep(init, r) ==
  reserve' = IF init THEN [reserve EXCEPT ![r] = InitReserve(r)] ELSE reserve

(* "Leave alone if modified by operator": eliminated, or above the default. *)
Untrusted(r) == 0 < reserve[r] /\ reserve[r] < MaxOf[r]

OnlineUser ==
  /\ Then("online_user", "online_admin") /\ InitOrKeep(Untrusted("user"), "user")
  /\ UNCHANGED <<count, snapshot>>

OnlineAdmin ==
  /\ Then("online_admin", "done") /\ InitOrKeep(Untrusted("admin"), "admin")
  /\ UNCHANGED <<count, snapshot>>

OfflineRead ==
  /\ notifier.at = "offline_read"
  /\ notifier' = [notifier EXCEPT !.at = "offline_user", !.free = K(count["free"])]
  /\ UNCHANGED <<count, snapshot, reserve>>

(* Faulty variant: it is done once the reserve of the user is right. *)
OfflineUser_Returns ==
  /\ Then("offline_user", "done_offline") /\ InitOrKeep(reserve.user > notifier.free, "user")
  /\ UNCHANGED <<count, snapshot>>

OfflineUser ==
  /\ Then("offline_user", "offline_admin") /\ InitOrKeep(reserve.user > notifier.free, "user")
  /\ UNCHANGED <<count, snapshot>>

OfflineAdmin ==
  /\ Then("offline_admin", "done_offline")
  /\ InitOrKeep(reserve.admin > notifier.free, "admin")
  /\ UNCHANGED <<count, snapshot>>

NotifierReturn ==
  /\ notifier.at \in {"done", "done_offline"} /\ notifier' = NoNotifier
  /\ UNCHANGED <<count, snapshot, reserve>>

-----------------------------------------------------------------------------
MemoryInit ==
  /\ count \in [PageStates -> 0..Pages] /\ count["offline"] + Total = Pages
  /\ snapshot = NoSnapshot /\ notifier = NoNotifier
  /\ reserve = [r \in {"user", "admin"} |-> InitReserve(r)]

MovePages == \E from, to \in PageStates : Move(from, to)
Snapshot  == Capture \/ CaptureReturn
Hotplug   ==
  \/ \E pages \in 1..Pages : MemOnline(pages) \/ MemOffline(pages)
  \/ OnlineUser \/ OnlineAdmin \/ OfflineRead \/ OfflineUser \/ OfflineAdmin \/ NotifierReturn
Administer == \E r \in {"user", "admin"}, kbytes \in ReserveArgs : SetReserve(r, kbytes)

MemoryNext == MovePages \/ Snapshot \/ Hotplug \/ Administer
MemorySpec == MemoryInit /\ [][MemoryNext]_memoryVars

-----------------------------------------------------------------------------
(* Properties *)

(* Every variable keeps its type, and no page is lost.                      *)
MemoryTypeOK ==
  /\ count \in [PageStates -> 0..Pages] /\ count["offline"] + Total = Pages
  /\ snapshot.next \in 1..7 /\ snapshot.moved \in 0..MaxMoves
  /\ snapshot.read \in [DOMAIN NoFields -> 0..Pages]
  /\ reserve \in [{"user", "admin"} -> Nat]
  /\ notifier.at \in {"idle", "online_user", "online_admin", "offline_read", "offline_user",
                      "offline_admin", "done", "done_offline"}

(* How far a snapshot may be off: what is read counter by counter was never *)
(* true at once, but free and cached pages exceed the total, active ones    *)
(* what is not free, and the swap cache the cache, by no more than the      *)
(* pages that have moved during the call.  The counters are taken as exact: *)
(* those of the kernel lag behind moves before the call by what each CPU    *)
(* has not added to them yet, which comes on top.                           *)
SnapshotIsOffByMoves ==
  snapshot.next > 6 =>
    LET s == snapshot.read  m == snapshot.moved IN
    /\ s.free + s.cache <= s.total + m
    /\ s.free + s.active_anon + s.active_file <= s.total + m
    /\ s.swap <= s.cache + m

(* "If memory is removed and there isn't enough free memory, then we need   *)
(* to reset the reserves": when the notifier is through and nothing has     *)
(* been allocated or set meanwhile, what is reserved is there.              *)
ReservesAreThere ==
  notifier.at = "done_offline" /\ notifier.moved = 0 /\ ~notifier.set =>
    \A r \in {"user", "admin"} : reserve[r] <= K(count["free"])
=============================================================================
