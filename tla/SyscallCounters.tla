--------------------------- MODULE SyscallCounters ---------------------------
(***************************************************************************)
(* The counters of project1/syscall2.c: do_syscall_64() hands the number   *)
(* of every call that ends to track_syscall(), and the system call         *)
(* matus_track_syscall_usage() allocates the counters when first asked for *)
(* them.  There is no lock: tasks on several CPUs read and write the       *)
(* pointer and the entries in single words.  Where the compiler may keep   *)
(* the pointer in a register or load it again, the step chooses.           *)
(***************************************************************************)
EXTENDS Integers, FiniteSets

CONSTANTS
  Tasks,
  Numbers,      \* the system call numbers the tasks use
  Statistics,   \* the number of matus_track_syscall_usage
  MaxCalls,     \* bound: whitelisted calls, all tasks together
  MaxArrays,    \* bound: arrays kzalloc() gives
  MaxFailures   \* bound: times kzalloc() fails

NULL == 0
Index == 0..3
syscall_whitelist == [i \in Index |-> CASE i = 0 -> 0 [] i = 1 -> 1 [] i = 2 -> 2 [] OTHER -> 56]

Counted(id) == \E i \in Index : syscall_whitelist[i] = id

ASSUME CountersAssumption ==
  /\ IsFiniteSet(Tasks)
  /\ Numbers \subseteq Nat /\ Statistics \in Nat /\ ~Counted(Statistics)
  /\ MaxCalls \in Nat /\ MaxArrays \in Nat /\ MaxFailures \in Nat

VARIABLES
  syscall_counters,  \* NULL or the number of an array
  allocs, failures,  \* history: arrays kzalloc() gave; times it failed
  count,             \* count[a][i], of array a
  time_last_used,    \* time_last_used[a][i]: seconds and nanoseconds
  clock,             \* the instant; two to the second
  pc, nr,            \* where each task is in do_syscall_64(), and its call
  ptr,               \* ptr[t]: the pointer t loaded last
  reg,               \* reg[t]: the count, or the time, t is about to store
  ret,               \* ret[t]: what the last statistics call of t answered
  made,              \* history: calls made of each number
  base,              \* history: `made' when the first array was allocated
  last,              \* history: last[i]: the instant the last call of entry i read
  overlap            \* history: two calls were in the kernel together

pointer == <<syscall_counters, allocs, failures>>
history == <<made, base, last, overlap>>
vars    == <<pointer, count, time_last_used, clock, pc, nr, ptr, reg, ret, history>>

Arrays == 1..MaxArrays
Pcs    == {"user", "track_test", "count_load", "count_store", "get_time", "store_sec",
           "store_nsec", "stat_test", "stat_alloc", "stat_retest", "stat_copy", "oops"}
Time(k)     == [sec |-> k \div 2, nsec |-> k % 2]
Instant(ts) == 2 * ts.sec + ts.nsec

(* Faulty variant: a call that is not on the whitelist counts as entry 0. *)
syscall_tracked_index_Zero(id) ==
  IF Counted(id) THEN CHOOSE i \in Index : syscall_whitelist[i] = id ELSE 0

syscall_tracked_index(id) ==
  IF Counted(id) THEN CHOOSE i \in Index : syscall_whitelist[i] = id ELSE -1

Go(t, label) == pc' = [pc EXCEPT ![t] = label]
Loaded(t)    == {ptr[t], syscall_counters}
Entry(t)     == syscall_tracked_index(nr[t])
Total        == made[0] + made[1] + made[2] + made[56]

-----------------------------------------------------------------------------
(* do_syscall_64(): the call itself, then track_syscall().  A number below  *)
(* zero, of a call that was skipped, is not tracked and not modelled.       *)
do_syscall_64(t, n) ==
  /\ pc[t] = "user"
  /\ Counted(n) => Total < MaxCalls
  /\ nr' = [nr EXCEPT ![t] = n]
  /\ made' = IF Counted(n) THEN [made EXCEPT ![n] = @ + 1] ELSE made
  /\ overlap' = (overlap \/ \E u \in Tasks \ {t} : pc[u] \notin {"user", "oops"})
  /\ Go(t, IF n = Statistics THEN "stat_test" ELSE "track_test")
  /\ UNCHANGED <<pointer, count, time_last_used, clock, ptr, reg, ret, base, last>>

TakesNoNote(t) == syscall_counters = NULL \/ Entry(t) = -1

(* Faulty variant: the pointer is not tested. *)
TrackTest_Unchecked(t) ==
  /\ pc[t] = "track_test"
  /\ Go(t, IF Entry(t) = -1 THEN "user" ELSE "count_load")
  /\ ptr' = [ptr EXCEPT ![t] = syscall_counters]
  /\ UNCHANGED <<pointer, count, time_last_used, clock, nr, reg, ret, history>>

TrackTest(t) ==
  /\ pc[t] = "track_test"
  /\ Go(t, IF TakesNoNote(t) THEN "user" ELSE "count_load")
  /\ ptr' = [ptr EXCEPT ![t] = syscall_counters]
  /\ UNCHANGED <<pointer, count, time_last_used, clock, nr, reg, ret, history>>

(* count++, a load and a store.  A pointer loaded again may be NULL by now. *)
CountLoad(t) ==
  /\ pc[t] = "count_load"
  /\ \E a \in Loaded(t) :
       /\ ptr' = [ptr EXCEPT ![t] = a]
       /\ IF a = NULL
          THEN Go(t, "oops") /\ reg' = reg
          ELSE Go(t, "count_store") /\ reg' = [reg EXCEPT ![t] = count[a][Entry(t)]]
  /\ UNCHANGED <<pointer, count, time_last_used, clock, nr, ret, history>>

CountStore(t) ==
  /\ pc[t] = "count_store"
  /\ count' = [count EXCEPT ![ptr[t]][Entry(t)] = reg[t] + 1]
  /\ Go(t, "get_time")
  /\ UNCHANGED <<pointer, time_last_used, clock, nr, ptr, reg, ret, history>>

(* ktime_get_real_ts64(): the clock moves on when it is read, no sooner.    *)
GetTime(t) ==
  /\ pc[t] = "get_time"
  /\ reg' = [reg EXCEPT ![t] = clock]
  /\ clock' = clock + 1
  /\ last' = [last EXCEPT ![Entry(t)] = clock]
  /\ Go(t, "store_sec")
  /\ UNCHANGED <<pointer, count, time_last_used, nr, ptr, ret, made, base, overlap>>

(* time_last_used = now, in two words *)
StoreSec(t) ==
  /\ pc[t] = "store_sec"
  /\ \E a \in Loaded(t) :
       /\ ptr' = [ptr EXCEPT ![t] = a]
       /\ IF a = NULL
          THEN Go(t, "oops") /\ time_last_used' = time_last_used
          ELSE /\ Go(t, "store_nsec")
               /\ time_last_used' =
                    [time_last_used EXCEPT ![a][Entry(t)].sec = Time(reg[t]).sec]
  /\ UNCHANGED <<pointer, count, clock, nr, reg, ret, history>>

StoreNsec(t) ==
  /\ pc[t] = "store_nsec"
  /\ time_last_used' = [time_last_used EXCEPT ![ptr[t]][Entry(t)].nsec = Time(reg[t]).nsec]
  /\ Go(t, "user")
  /\ UNCHANGED <<pointer, count, clock, nr, ptr, reg, ret, history>>

-----------------------------------------------------------------------------
(* matus_track_syscall_usage() and init_syscall_counters() *)

Answer(t, code) ==
  /\ ret' = [ret EXCEPT ![t] = code]
  /\ Go(t, "track_test")

(* Faulty variant: every call allocates anew. *)
StatTest_AlwaysInit(t) ==
  /\ pc[t] = "stat_test"
  /\ Go(t, "stat_alloc")
  /\ ptr' = [ptr EXCEPT ![t] = syscall_counters]
  /\ UNCHANGED <<pointer, count, time_last_used, clock, nr, reg, ret, history>>

StatTest(t) ==
  /\ pc[t] = "stat_test"
  /\ Go(t, IF syscall_counters = NULL THEN "stat_alloc" ELSE "stat_copy")
  /\ ptr' = [ptr EXCEPT ![t] = syscall_counters]
  /\ UNCHANGED <<pointer, count, time_last_used, clock, nr, reg, ret, history>>

(* kzalloc() gives a zeroed array: one no task has written to. *)
StatAlloc(t) ==
  /\ pc[t] = "stat_alloc"
  /\ allocs < MaxArrays
  /\ allocs' = allocs + 1
  /\ syscall_counters' = allocs + 1
  /\ base' = IF allocs = 0 THEN made ELSE base
  /\ Go(t, "stat_retest")
  /\ UNCHANGED <<failures, count, time_last_used, clock, nr, ptr, reg, ret, made, last, overlap>>

(* kzalloc() fails, and its NULL goes into the pointer like any other value. *)
StatAllocFails(t) ==
  /\ pc[t] = "stat_alloc"
  /\ failures < MaxFailures
  /\ failures' = failures + 1
  /\ syscall_counters' = NULL
  /\ Go(t, "stat_retest")
  /\ UNCHANGED <<allocs, count, time_last_used, clock, nr, ptr, reg, ret, history>>

(* return syscall_counters ? 0 : -ENOMEM, which loads the pointer again. *)
StatRetest(t) ==
  /\ pc[t] = "stat_retest"
  /\ ptr' = [ptr EXCEPT ![t] = syscall_counters]
  /\ IF syscall_counters = NULL
     THEN Answer(t, "ENOMEM")
     ELSE Go(t, "stat_copy") /\ ret' = ret
  /\ UNCHANGED <<pointer, count, time_last_used, clock, nr, reg, history>>

(* copy_to_user(): the caller's buffer, or a NULL source, may fault. *)
StatCopy(t) ==
  /\ pc[t] = "stat_copy"
  /\ \E a \in Loaded(t), fault \in BOOLEAN :
       Answer(t, IF a = NULL THEN "EFAULT_kernel" ELSE IF fault THEN "EFAULT" ELSE "0")
  /\ UNCHANGED <<pointer, count, time_last_used, clock, nr, ptr, reg, history>>

-----------------------------------------------------------------------------
Init ==
  /\ syscall_counters = NULL
  /\ allocs = 0 /\ failures = 0 /\ clock = 1
  /\ count = [a \in Arrays |-> [i \in Index |-> 0]]
  /\ time_last_used = [a \in Arrays |-> [i \in Index |-> Time(0)]]
  /\ pc = [t \in Tasks |-> "user"]
  /\ nr = [t \in Tasks |-> Statistics]
  /\ ptr = [t \in Tasks |-> NULL]
  /\ reg = [t \in Tasks |-> 0]
  /\ ret = [t \in Tasks |-> "0"]
  /\ made = [n \in {0, 1, 2, 56} |-> 0]
  /\ base = made
  /\ last = [i \in Index |-> 0]
  /\ overlap = FALSE

Step(t) ==
  \/ TrackTest(t) \/ CountLoad(t) \/ CountStore(t) \/ GetTime(t) \/ StoreSec(t)
  \/ StoreNsec(t) \/ StatTest(t) \/ StatAlloc(t) \/ StatAllocFails(t) \/ StatRetest(t)
  \/ StatCopy(t)

Next == \E t \in Tasks : Step(t) \/ \E n \in Numbers : do_syscall_64(t, n)

Spec == Init /\ [][Next]_vars

-----------------------------------------------------------------------------
(* Properties *)

Quiescent == \A t \in Tasks : pc[t] = "user"

(* Each entry counts the calls of its number made since there are counters. *)
CountsAreRight ==
  Quiescent /\ syscall_counters # NULL =>
    \A i \in Index :
      count[syscall_counters][i] = made[syscall_whitelist[i]] - base[syscall_whitelist[i]]

(* Every variable keeps its type. *)
TypeOK ==
  /\ syscall_counters \in Arrays \cup {NULL}
  /\ allocs \in 0..MaxArrays /\ failures \in 0..MaxFailures
  /\ count \in [Arrays -> [Index -> 0..MaxCalls]]
  /\ time_last_used \in [Arrays -> [Index -> [sec : 0..MaxCalls, nsec : 0..1]]]
  /\ clock \in 1..(MaxCalls + 1)
  /\ pc \in [Tasks -> Pcs]
  /\ nr \in [Tasks -> Numbers \cup {Statistics}]
  /\ ptr \in [Tasks -> Arrays \cup {NULL}]
  /\ reg \in [Tasks -> 0..MaxCalls]
  /\ ret \in [Tasks -> {"0", "EFAULT", "EFAULT_kernel", "ENOMEM"}]
  /\ overlap \in BOOLEAN

(* Whatever is lost, nothing is invented: no array, live or replaced, ever  *)
(* counts more calls of a number than were made.                            *)
NeverOvercounts ==
  \A a \in Arrays, i \in Index : count[a][i] <= made[syscall_whitelist[i]]

(* Calls that do not overlap are all counted, and each entry has the time   *)
(* of its last call: a second statistics call does not reset the counters,  *)
(* an untracked call leaves no trace in them.                               *)
SerialCallsAreCounted ==
  ~overlap =>
    /\ CountsAreRight
    /\ Quiescent /\ syscall_counters # NULL =>
         \A i \in Index : Instant(time_last_used[syscall_counters][i]) = last[i]

(* While kzalloc() has not failed, the pointer test of track_syscall() and  *)
(* the one of the statistics call are enough: nobody uses a NULL pointer,   *)
(* though the test and the use load it separately.                          *)
NullIsNeverUsed ==
  failures = 0 =>
    \A t \in Tasks : pc[t] # "oops" /\ ret[t] \notin {"EFAULT_kernel", "ENOMEM"}

(* Racing first statistics calls leak arrays, one per task at most: the     *)
(* leak does not grow with the number of calls.                             *)
LeakIsBounded == failures = 0 => allocs <= Cardinality(Tasks)
=============================================================================
