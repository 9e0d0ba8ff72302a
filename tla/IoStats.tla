------------------------------ MODULE IoStats ------------------------------
(***************************************************************************)
(* The system call matus_get_io_throttle (kernel/usac/project1/syscall3.c) *)
(* beside the processes it asks about.  The task is looked up without a    *)
(* reference, and its counters are read one after the other; task_lock()   *)
(* stops neither its input and output nor its end, after which another     *)
(* process may have the same pid.                                          *)
(***************************************************************************)
EXTENDS Integers, Sequences
LOCAL INSTANCE FiniteSetsExt

CONSTANTS
  Tasks,       \* the processes that have the pid, one after the other
  Amounts,     \* bound: what is counted at once
  MaxCounted,  \* bound: what is counted in all
  Unset        \* what the stack of the call holds, or a freed task

ASSUME IoAssumption == Amounts \subseteq Nat /\ MaxCounted \in Nat /\ Unset \notin Nat \cup Tasks

VARIABLES
  tasks,   \* the state of each process, its ioac and blkio_delay, and whether it has delays
  kstats,  \* the call: its task, the next field, what it has read; the counters as it began
  last     \* history: the last answer, and the counters when that call began and ended

ioVars == <<tasks, kstats, last>>

FieldOrder == <<"rchar", "wchar", "read_bytes", "write_bytes", "blkio_delay">>
Fields     == {FieldOrder[i] : i \in DOMAIN FieldOrder}

Zeros    == [f \in Fields |-> 0]
NoStats  == [next |-> 0, task |-> Unset, read |-> [f \in Fields |-> Unset], start |-> Zeros]
NoAnswer == [task |-> Unset, read |-> NoStats.read, start |-> Zeros, end |-> Zeros]

-----------------------------------------------------------------------------
(* The processes.  The counters are independent of each other: rchar and    *)
(* wchar are what calls pass, read_bytes and write_bytes pages that are     *)
(* read ahead, faulted, swapped or dirtied, whoever asked for them.         *)

Alive(t) == tasks[t].state = "alive"
Counted  == MapThenSumSet(LAMBDA c : tasks[c[1]].count[c[2]], Tasks \X Fields)

StartTask(t) ==
  /\ tasks[t].state = "unborn" /\ \A u \in Tasks : ~Alive(u)
  /\ tasks' = [tasks EXCEPT ![t].state = "alive"]
  /\ UNCHANGED <<kstats, last>>

Account(t, f, n) ==
  /\ Alive(t) /\ (f = "blkio_delay" => tasks[t].delays) /\ Counted + n <= MaxCounted
  /\ tasks' = [tasks EXCEPT ![t].count[f] = @ + n]
  /\ UNCHANGED <<kstats, last>>

ExitTask(t) ==
  /\ Alive(t) /\ tasks' = [tasks EXCEPT ![t].state = "freed"]
  /\ UNCHANGED <<kstats, last>>

-----------------------------------------------------------------------------
(* matus_get_io_throttle() *)

(* ESRCH when no process has the pid *)
Lookup(t) ==
  /\ kstats.next = 0 /\ Alive(t)
  /\ kstats' = [NoStats EXCEPT !.next = 1, !.task = t, !.start = tasks[t].count]
  /\ UNCHANGED <<tasks, last>>

(* Faulty variant: the task is looked up for each field. *)
Value_LooksUpAgain(f) ==
  LET found == {t \in Tasks : Alive(t)} IN
  IF found = {} THEN Unset
  ELSE LET t == CHOOSE t \in found : TRUE IN
       IF f = "blkio_delay" /\ ~tasks[t].delays THEN Unset ELSE tasks[t].count[f]

(* io_wait_time is left unset without delays, and what a freed task holds   *)
(* is anything: Unset stands for both.                                      *)
Value(f) ==
  LET t == tasks[kstats.task] IN
  IF t.state = "freed" \/ (f = "blkio_delay" /\ ~t.delays) THEN Unset ELSE t.count[f]

ReadField ==
  LET f == FieldOrder[kstats.next] IN
  /\ kstats.next \in DOMAIN FieldOrder
  /\ kstats' = [kstats EXCEPT !.next = @ + 1, !.read[f] = Value(f)]
  /\ UNCHANGED <<tasks, last>>

(* copy_to_user(), or EFAULT *)
IoReturn ==
  /\ kstats.next > Len(FieldOrder)
  /\ last' \in {last, [task |-> kstats.task, read |-> kstats.read, start |-> kstats.start,
                       end |-> tasks[kstats.task].count]}
  /\ kstats' = NoStats /\ UNCHANGED tasks

-----------------------------------------------------------------------------
IoInit ==
  /\ tasks \in [Tasks -> [state : {"unborn"}, count : {Zeros}, delays : BOOLEAN]]
  /\ kstats = NoStats /\ last = NoAnswer

IoNext ==
  \/ \E t \in Tasks : StartTask(t) \/ ExitTask(t) \/ Lookup(t)
  \/ \E t \in Tasks, f \in Fields, n \in Amounts : Account(t, f, n)
  \/ ReadField \/ IoReturn

IoSpec == IoInit /\ [][IoNext]_ioVars

-----------------------------------------------------------------------------
(* Properties *)

(* Every variable keeps its type. *)
IoTypeOK ==
  /\ tasks \in [Tasks -> [state : {"unborn", "alive", "freed"}, count : [Fields -> Nat],
                          delays : BOOLEAN]]
  /\ kstats \in [next : 0..6, task : Tasks \cup {Unset}, read : [Fields -> Nat \cup {Unset}],
                 start : [Fields -> Nat]]
  /\ last \in [task : Tasks \cup {Unset}, read : [Fields -> Nat \cup {Unset}],
               start : [Fields -> Nat], end : [Fields -> Nat]]

HasRead(f) == \E i \in 1..(kstats.next - 1) : f = FieldOrder[i]

(* What a caller makes of two answers about one process.  A field that was  *)
(* read while the process was there is what its counter was at some time of *)
(* the call; after its end, and for a wait where no delays are accounted,   *)
(* it may be anything.  Since the last answer it has grown by no less than  *)
(* was counted between the two calls, and by no more than was from the      *)
(* beginning of the first until now, so that it never goes back.  And two   *)
(* fields differ from each other by what they did when the call began, up   *)
(* to what has been counted since.                                          *)
RatesAreOfTheirTime ==
  \A f \in Fields : HasRead(f) =>
    LET s == kstats.read[f]  t == tasks[kstats.task]  before == last.read[f] IN
    IF s = Unset THEN t.state = "freed" \/ (f = "blkio_delay" /\ ~t.delays)
    ELSE /\ kstats.start[f] <= s /\ s <= t.count[f]
         /\ last.task = kstats.task /\ before # Unset =>
              /\ before <= s
              /\ kstats.start[f] - last.end[f] <= s - before
              /\ s - before <= t.count[f] - last.start[f]
=============================================================================
