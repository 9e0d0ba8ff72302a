---------------------------- MODULE TestHandshake ----------------------------
(***************************************************************************)
(* The tests of the memory limits (usac_tests/project3/automated).         *)
(* 1_admin_syscalls (A) sets, changes and removes the limit of 2_allocator *)
(* (B), which allocates and expects some of it to fail.  They find each    *)
(* other through files with their process numbers and take turns: who has  *)
(* run a function sends SIGUSR1 to the other, whose handler runs its next. *)
(* 3_error_handling (C) calls the same system calls with what they should  *)
(* refuse.  The limits are what the calls of kernel/usac/project3/main.c   *)
(* make of them, one call at a time; sizes are in MB.                      *)
(***************************************************************************)
EXTENDS Integers, Sequences, FiniteSets

CONSTANTS
  A, B, C,  \* the processes
  Waiters,  \* a sequence of the three waiter_programs
  Base,     \* what a process has mapped before it allocates
  None

Dummies == {Waiters[i] : i \in DOMAIN Waiters}
Pids    == {A, B, C} \cup Dummies
Players == {A, B}

ASSUME HandshakeAssumption ==
  /\ DOMAIN Waiters = 1..3 /\ Cardinality(Pids) = 6 /\ None \notin Pids \cup Nat
  /\ Base \in 1..9

VARIABLES
  limits,    \* memory_list: MB of each process that is listed
  used,      \* MB that B has mapped
  pid_file,  \* of A and of B
  player,    \* where A and B are
  pending,   \* SIGUSR1 has been sent and not been delivered
  checker,   \* where C is: its next test, errno and its score
  timely     \* two seconds are enough for what the other one has to do

vars == <<limits, used, pid_file, player, pending, checker, timely>>

Other(p) == IF p = A THEN B ELSE A

(* pc is where main() is, run the function that runs: its number and step,  *)
(* and whether all has been as expected; ended is what it then waits for.   *)
NoRun == [f |-> 0, k |-> 0, ok |-> TRUE, at |-> "none"]
Start == [pc |-> "create", peer |-> "unread", current_function |-> 0, main |-> NoRun,
          handler |-> NoRun, score |-> 0, buffer2 |-> 0, buffer3 |-> 0]

total_functions == 4

-----------------------------------------------------------------------------
(* The system calls, for a caller with CAP_SYS_ADMIN, while the kernel has  *)
(* memory for an entry: the limits they leave and what they return.         *)

Usage(p) == IF p = B THEN used ELSE Base

matus_add_memory_limit(p, mb) ==
  CASE p = None                                        -> [limits |-> limits, ret |-> "ESRCH"]
    [] p # None /\ mb < Usage(p)                       -> [limits |-> limits, ret |-> "-100"]
    [] p # None /\ mb >= Usage(p) /\ limits[p] # None  -> [limits |-> limits, ret |-> "-101"]
    [] OTHER -> [limits |-> [limits EXCEPT ![p] = mb], ret |-> "0"]

Listed(p, new) ==
  IF p = None \/ limits[p] = None THEN [limits |-> limits, ret |-> "-102"]
  ELSE [limits |-> [limits EXCEPT ![p] = new], ret |-> "0"]
matus_update_memory_limit(p, mb) == Listed(p, mb)
matus_remove_memory_limit(p)     == Listed(p, None)
matus_get_memory_limits          == {p \in Pids : limits[p] # None}

(* malloc() maps what is this large; the gate denies what passes the limit. *)
Denied(mb) == limits[B] # None /\ used + mb > limits[B]

-----------------------------------------------------------------------------
(* What the functions do, in steps. *)

Add(p, mb)    == [op |-> "add", pid |-> p, mb |-> mb]
Update(p, mb) == [op |-> "update", pid |-> p, mb |-> mb]
Remove(p)     == [op |-> "remove", pid |-> p, mb |-> 0]
Get(lost)     == [op |-> "get", pid |-> None, mb |-> lost]
Alloc(buffer, mb) == [op |-> buffer, pid |-> B, mb |-> mb]

(* Faulty variant: the limit is raised before the first has been tried. *)
functions_A_Early ==
  <<<<Add(B, 10), Update(B, 30)>>, <<Update(B, 30)>>,
    <<Add(Waiters[1], 100), Add(Waiters[2], 1024), Add(Waiters[3], 421), Get(0),
      Remove(Waiters[1]), Get(1), Remove(B), Get(2)>>,
    <<Add(B, 100)>>>>

functions_A ==
  <<<<Add(B, 10)>>, <<Update(B, 30)>>,
    <<Add(Waiters[1], 100), Add(Waiters[2], 1024), Add(Waiters[3], 421), Get(0),
      Remove(Waiters[1]), Get(1), Remove(B), Get(2)>>,
    <<Add(B, 100)>>>>

functions_B ==
  <<<<Alloc("expect_null", 20)>>, <<Alloc("buffer2", 20), Alloc("expect_null", 20)>>,
    <<Alloc("buffer3", 35)>>, <<Alloc("buffer2", 90), Alloc("expect_null", 30)>>>>

Steps(p, f) == IF p = A THEN functions_A[f] ELSE functions_B[f]

(* After Get(lost) the first `lost' of these are no longer listed. *)
Expected(lost) == {<<Waiters[1], B, Waiters[2], Waiters[3]>>[i] : i \in (lost + 1)..4}

(* The process A believes B to be. *)
Named(p) == IF p = B /\ player[A].peer # "read" THEN None ELSE p

Called(s) ==
  CASE s.op = "add"    -> matus_add_memory_limit(Named(s.pid), s.mb)
    [] s.op = "update" -> matus_update_memory_limit(Named(s.pid), s.mb)
    [] s.op = "remove" -> matus_remove_memory_limit(Named(s.pid))

(* What a step of A does to the limits, and whether the test goes on.  The  *)
(* flags of the first listing are not initialized: a process that is not    *)
(* listed may pass for one that is.                                         *)
StepOfA(s, ok) ==
  /\ IF s.op = "get"
       THEN /\ limits' = limits
            /\ ok \in {\A p \in Expected(s.mb) : Named(p) \in matus_get_memory_limits}
                        \cup (IF s.mb = 0 THEN {TRUE} ELSE {})
       ELSE limits' = Called(s).limits /\ ok = (Called(s).ret = "0")
  /\ UNCHANGED used

(* What a step of B does to its buffers: new is its state. *)
StepOfB(s, new, ok) ==
  LET b == player[B] IN
  /\ \/ s.op = "expect_null" /\ new = b /\ ok = Denied(s.mb) /\ UNCHANGED used
     \/ /\ s.op = "buffer2" /\ ok = ~Denied(s.mb)
        /\ new = IF ok THEN [b EXCEPT !.buffer2 = s.mb] ELSE b
        /\ used' = used + (IF ok THEN s.mb ELSE 0)
     \/ /\ s.op = "buffer3" /\ ok = (b.buffer2 # 0)  \* looks at the other buffer
        /\ new = IF Denied(s.mb) THEN b ELSE [b EXCEPT !.buffer3 = s.mb]
        /\ used' = used + (IF Denied(s.mb) THEN 0 ELSE s.mb)
  /\ UNCHANGED limits

(* At the label funcN_exit, a function of B gives its buffers back. *)
Frees(p, f) == p = B /\ f >= 3

-----------------------------------------------------------------------------
(* A function runs, in main() or in the handler. *)

Ctx == {"main", "handler"}

(* SIGUSR1 is blocked in its handler, and main() stands still. *)
Runs(p, ctx) == player[p][ctx].at # "none" /\ (ctx = "main" => player[p].handler = NoRun)
Begin(f)     == [f |-> f, k |-> 1, ok |-> TRUE, at |-> "step"]

Put(p, new)  == player' = [player EXCEPT ![p] = new]

(* After a step: the next one, or the label, at once when one has failed. *)
After(p, r, ok) ==
  IF ok /\ r.k < Len(Steps(p, r.f)) THEN [r EXCEPT !.k = @ + 1]
  ELSE [r EXCEPT !.at = "exit", !.ok = ok]

(* B with one buffer or the other of this size. *)
WithBuffers(mb) == {[player[B] EXCEPT !.buffer2 = x, !.buffer3 = y] :
                      x \in {player[B].buffer2, mb}, y \in {player[B].buffer3, mb}}

FunctionStep(p, ctx) ==
  LET r == player[p][ctx]
      s == Steps(p, r.f)[r.k] IN
  /\ Runs(p, ctx) /\ r.at = "step"
  /\ \E ok \in BOOLEAN :
       \/ p = A /\ StepOfA(s, ok) /\ Put(p, [player[p] EXCEPT ![ctx] = After(p, r, ok)])
       \/ p = B /\ \E new \in WithBuffers(s.mb) :
                     StepOfB(s, new, ok) /\ Put(p, [new EXCEPT ![ctx] = After(p, r, ok)])
  /\ UNCHANGED <<pid_file, pending, checker, timely>>

FunctionExit(p, ctx) ==
  LET r == player[p][ctx]
      scored == [player[p] EXCEPT ![ctx].at = "sleep", !.score = @ + (IF r.ok THEN 1 ELSE 0)] IN
  /\ Runs(p, ctx) /\ r.at = "exit"
  /\ Put(p, IF Frees(p, r.f) THEN [scored EXCEPT !.buffer2 = 0, !.buffer3 = 0] ELSE scored)
  /\ used' = IF Frees(p, r.f) THEN used - player[p].buffer2 - player[p].buffer3 ELSE used
  /\ UNCHANGED <<limits, pid_file, pending, checker, timely>>

(* The other one waits for the signal, or has no more to wait for. *)
Ready(p) == player[p].handler = NoRun /\ player[p].pc \in {"pause", "exit", "gone"}


Sleep(p, ctx) ==
  /\ Runs(p, ctx) /\ player[p][ctx].at = "sleep" /\ (timely => Ready(Other(p)))
  /\ Put(p, [player[p] EXCEPT ![ctx].at = "kill"])
  /\ UNCHANGED <<limits, used, pid_file, pending, checker, timely>>

(* kill(0) goes to the sender's own group; a number that was not in the     *)
(* file yet is taken to be no process of these.                             *)
Target(p) == CASE player[p].peer = "read"    -> {Other(p)} \ {q \in Players : player[q].pc = "gone"}
               [] player[p].peer = "unread"  -> {p}
               [] player[p].peer = "garbage" -> {}

Kill(p, ctx) ==
  /\ Runs(p, ctx) /\ player[p][ctx].at = "kill"
  /\ pending' = [q \in Players |-> pending[q] \/ q \in Target(p)]
  /\ Put(p, [player[p] EXCEPT ![ctx] = NoRun])
  /\ UNCHANGED <<limits, used, pid_file, checker, timely>>

-----------------------------------------------------------------------------
(* main() *)

(* In main(), with no function running: from pc to pc. *)
InMain(p, pc) == player[p].pc = pc /\ player[p].handler = NoRun /\ player[p].main = NoRun
Goto(p, pc)   == Put(p, [player[p] EXCEPT !.pc = pc])

CreatePidFile(p) ==
  /\ InMain(p, "create") /\ pid_file' = [pid_file EXCEPT ![p] = "empty"] /\ Goto(p, "write")
  /\ UNCHANGED <<limits, used, pending, checker, timely>>

WritePidFile(p) ==
  /\ InMain(p, "write") /\ pid_file' = [pid_file EXCEPT ![p] = "written"]
  /\ Goto(p, "sigaction") /\ UNCHANGED <<limits, used, pending, checker, timely>>

Sigaction(p) ==
  /\ InMain(p, "sigaction") /\ Goto(p, "read_pid")
  /\ UNCHANGED <<limits, used, pid_file, pending, checker, timely>>

(* read_pid() polls until the file is there, not until it is complete. *)
read_pid(p) ==
  /\ InMain(p, "read_pid")
  /\ pid_file[Other(p)] \in {"empty", "written"} /\ (timely => pid_file[Other(p)] = "written")
  /\ Put(p, [player[p] EXCEPT
       !.pc = "loop", !.peer = IF pid_file[Other(p)] = "written" THEN "read" ELSE "garbage",
       !.main = IF p = A THEN Begin(@.f + 1) ELSE NoRun,
       !.current_function = IF p = A THEN @ + 1 ELSE @])
  /\ UNCHANGED <<limits, used, pid_file, pending, checker, timely>>

Loop(p) ==
  /\ InMain(p, "loop")
  /\ Goto(p, IF player[p].current_function < total_functions THEN "pause" ELSE "exit")
  /\ UNCHANGED <<limits, used, pid_file, pending, checker, timely>>

(* cleanup(): the file is removed; A ends its waiters, whose entries stay. *)
ExitProcess(p) ==
  /\ InMain(p, "exit") /\ Goto(p, "gone") /\ pid_file' = [pid_file EXCEPT ![p] = "none"]
  /\ pending' = [pending EXCEPT ![p] = FALSE] /\ UNCHANGED <<limits, used, checker, timely>>

(* SIGUSR1 before sigaction() ends the process, without its cleanup(). *)
Terminated(p) ==
  /\ pending[p] /\ player[p].pc \in {"create", "write", "sigaction"}
  /\ Goto(p, "gone") /\ pending' = [pending EXCEPT ![p] = FALSE]
  /\ UNCHANGED <<limits, used, pid_file, checker, timely>>

(* Faulty variant: the other one may go on before the function has run. *)
handle_signal_SignalsFirst(p) ==
  LET more == player[p].current_function < total_functions IN
  /\ pending[p] /\ player[p].handler = NoRun
  /\ player[p].pc \in {"read_pid", "loop", "pause", "exit"}
  /\ pending' = [q \in Players |-> q # p /\ more]
  /\ Put(p, [player[p] EXCEPT
       !.pc = IF @ = "pause" THEN "loop" ELSE @,
       !.handler = IF more THEN Begin(player[p].current_function + 1) ELSE NoRun,
       !.current_function = IF more THEN @ + 1 ELSE @])
  /\ UNCHANGED <<limits, used, pid_file, checker, timely>>

(* Else it runs the next function, if there is one, and ends a pause(). *)
handle_signal(p) ==
  LET more == player[p].current_function < total_functions IN
  /\ pending[p] /\ player[p].handler = NoRun
  /\ player[p].pc \in {"read_pid", "loop", "pause", "exit"}
  /\ pending' = [pending EXCEPT ![p] = FALSE]
  /\ Put(p, [player[p] EXCEPT
       !.pc = IF @ = "pause" THEN "loop" ELSE @,
       !.handler = IF more THEN Begin(player[p].current_function + 1) ELSE NoRun,
       !.current_function = IF more THEN @ + 1 ELSE @])
  /\ UNCHANGED <<limits, used, pid_file, checker, timely>>

-----------------------------------------------------------------------------
(* 3_error_handling: a test passes when errno is what it expects, which a   *)
(* call that succeeds leaves as it was.                                     *)

Errno(ret) == IF ret = "0" THEN checker.errno ELSE ret

(* Test n is the call that returns ret and leaves the limits new. *)
Check(n, ret, new, expected) ==
  /\ checker.test = n
  /\ checker' = [test |-> n + 1, errno |-> Errno(ret),
                 score |-> checker.score + (IF Errno(ret) = expected THEN 1 ELSE 0)]
  /\ limits' = new /\ UNCHANGED <<used, pid_file, player, pending, timely>>

CheckCall(n, result, expected) == Check(n, result.ret, result.limits, expected)

(* add_memory_limit for a process number or its negative, and a caller with *)
(* CAP_SYS_ADMIN or without, which is asked for after the process is found. *)
AddAs(admin, negative, p, mb) ==
  CASE negative                            -> [limits |-> limits, ret |-> "EINVAL"]
    [] ~negative /\ p # None /\ ~admin     -> [limits |-> limits, ret |-> "EPERM"]
    [] ~negative /\ (p = None \/ admin)    -> matus_add_memory_limit(p, mb)

(* C names itself without CAP_SYS_ADMIN first, and then, as root, the       *)
(* negative of its number, one that is no process, and itself: not listed,  *)
(* listed, and listed twice.                                                *)
ErrorHandling ==
  \/ CheckCall(1, AddAs(FALSE, FALSE, C, 10), "EPERM")
  \/ CheckCall(2, AddAs(TRUE, TRUE, C, 10), "EINVAL")
  \/ CheckCall(3, AddAs(TRUE, FALSE, None, 10), "ESRCH")
  \/ CheckCall(4, matus_remove_memory_limit(C), "-102")
  \/ CheckCall(5, matus_update_memory_limit(C, 10), "-102")
  \/ CheckCall(6, matus_add_memory_limit(C, 20), "not looked at")
  \/ CheckCall(7, matus_add_memory_limit(C, 20), "-101")

-----------------------------------------------------------------------------
Init ==
  /\ limits = [p \in Pids |-> None] /\ used = Base
  /\ pid_file = [p \in Players |-> "none"] /\ player = [p \in Players |-> Start]
  /\ pending = [p \in Players |-> FALSE]
  /\ checker = [test |-> 1, errno |-> "none", score |-> 0]
  /\ timely \in BOOLEAN

Play(p) ==
  \/ CreatePidFile(p) \/ WritePidFile(p) \/ Sigaction(p) \/ read_pid(p)
  \/ Loop(p) \/ ExitProcess(p) \/ Terminated(p) \/ handle_signal(p)
  \/ \E ctx \in Ctx : FunctionStep(p, ctx) \/ FunctionExit(p, ctx) \/ Sleep(p, ctx) \/ Kill(p, ctx)

Next == (\E p \in Players : Play(p)) \/ ErrorHandling

Spec == Init /\ [][Next]_vars

(* A process that can go on does. *)
FairSpec == Spec /\ (\A p \in Players : WF_vars(Play(p))) /\ WF_vars(ErrorHandling)

-----------------------------------------------------------------------------
(* Properties *)

RunType == [f : 0..total_functions, k : 0..8, ok : BOOLEAN,
            at : {"none", "step", "exit", "sleep", "kill"}]

(* Every variable keeps its type. *)
TypeOK ==
  /\ limits \in [Pids -> Nat \cup {None}] /\ used \in Base..(Base + 90)
  /\ pid_file \in [Players -> {"none", "empty", "written"}]
  /\ player \in [Players -> [pc : {"create", "write", "sigaction", "read_pid", "loop",
                                   "pause", "exit", "gone"},
                             peer : {"unread", "read", "garbage"},
                             current_function : 0..total_functions, main : RunType,
                             handler : RunType, score : 0..total_functions,
                             buffer2 : {0, 20, 90}, buffer3 : {0, 35}]]
  /\ pending \in [Players -> BOOLEAN]
  /\ checker \in [test : 1..8, errno : STRING, score : 0..6] /\ timely \in BOOLEAN

(* One turn: whatever the timing, of functions that run and signals that    *)
(* are under way there is never more than one, so that no signal is lost    *)
(* in another and A never changes a limit while B allocates under it.       *)
OneTurn ==
  Cardinality({p \in Players : pending[p]}
              \cup {r \in Players \X Ctx : player[r[1]][r[2]].at # "none"}) <= 1

(* When two seconds are enough, the functions run in turn, those of B under *)
(* the limits it expects, and no test fails: the list and the gate do what  *)
(* the tests say.  That no memory is short is assumed: kmalloc() of an      *)
(* entry, which the code answers with ENOMEM, succeeds, and so does what B  *)
(* allocates within its limit.                                              *)
TestsPass ==
  /\ timely => \A p \in Players :
       /\ \A ctx \in Ctx : player[p][ctx].ok
       /\ player[p].current_function \in
            (IF p = A THEN {player[B].current_function, player[B].current_function + 1}
             ELSE {player[A].current_function, player[A].current_function - 1})
  /\ checker.test = 8 => checker.score = 6

=============================================================================
