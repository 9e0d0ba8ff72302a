----------------------------- MODULE LimitLedger -----------------------------
(***************************************************************************)
(* What the memory-limit system calls promise: a ledger from pids to       *)
(* limits, on which every call of every task takes effect at one instant   *)
(* between its invocation and its return.  There is no mutex, no list, no  *)
(* allocation and no copy here; MemoryLimits is shown to implement this.   *)
(***************************************************************************)
EXTENDS Naturals, Sequences

CONSTANTS
  Tasks,     \* the tasks that make calls, and the pids they name
  Admins,    \* those with CAP_SYS_ADMIN
  NoTask,    \* no pid
  SizeMod,   \* 2^w for a size_t of w bits
  PageSize,  \* bytes in a page
  MaxVm      \* bound on the pages a task uses

VARIABLES
  limits,   \* the ledger: a function from the listed pids to their limits
  call,     \* call[t]: the request of t in flight, with op "none" if none is
  phase,    \* "idle", "pending" (no effect yet) or "done"
  answer,   \* answer[t] once t is done, "none" before
  view      \* the entries a get of t took out of the ledger

vars == <<limits, call, phase, answer, view>>

NoCall == [op |-> "none", pid |-> NoTask, size |-> 0]

(* The answers a call may get without having had an effect. *)
Refusals == {"EINVAL", "ESRCH", "EPERM", "ENOMEM", "E100"}

-----------------------------------------------------------------------------
Invoke(t, request) ==
  /\ phase[t] = "idle"
  /\ call' = [call EXCEPT ![t] = request]
  /\ phase' = [phase EXCEPT ![t] = "pending"]
  /\ UNCHANGED <<limits, answer, view>>

Answer(t, code) ==
  /\ phase' = [phase EXCEPT ![t] = "done"]
  /\ answer' = [answer EXCEPT ![t] = code]
  /\ UNCHANGED call

(* A call refused at its door: it never becomes pending. *)
RefuseAtOnce(t, request, code) ==
  /\ phase[t] = "idle"
  /\ code \in Refusals \/ (code = "denied" /\ request.op = "check")
  /\ call' = [call EXCEPT ![t] = request]
  /\ phase' = [phase EXCEPT ![t] = "done"]
  /\ answer' = [answer EXCEPT ![t] = code]
  /\ UNCHANGED <<limits, view>>

Return(t) ==
  /\ phase[t] = "done"
  /\ phase' = [phase EXCEPT ![t] = "idle"]
  /\ call' = [call EXCEPT ![t] = NoCall]
  /\ answer' = [answer EXCEPT ![t] = "none"]
  /\ view' = [view EXCEPT ![t] = <<>>]
  /\ UNCHANGED limits

(* The caller is killed by an oops before the call took effect. *)
Die(t) ==
  /\ phase[t] = "pending"
  /\ phase' = [phase EXCEPT ![t] = "idle"]
  /\ call' = [call EXCEPT ![t] = NoCall]
  /\ UNCHANGED <<limits, answer, view>>

Pending(t, op) == phase[t] = "pending" /\ call[t].op = op

(* An add may still fail on the target's usage or for want of memory. *)
RefuseAdd(t) ==
  /\ Pending(t, "add")
  /\ Answer(t, "E100") \/ Answer(t, "ENOMEM")
  /\ UNCHANGED <<limits, view>>

(* The admins are the only ones who write, and a limit that the add call   *)
(* accepts is no negative long.                                            *)
Add(t) ==
  /\ Pending(t, "add") /\ t \in Admins
  /\ \/ /\ call[t].pid \in DOMAIN limits
        /\ Answer(t, "E101")
        /\ UNCHANGED limits
     \/ /\ call[t].pid \notin DOMAIN limits
        /\ 2 * call[t].size < SizeMod
        /\ limits' = [p \in DOMAIN limits \cup {call[t].pid} |->
                        IF p = call[t].pid THEN call[t].size ELSE limits[p]]
        /\ Answer(t, "0")
  /\ UNCHANGED view

Update(t) ==
  /\ Pending(t, "update") /\ t \in Admins
  /\ \/ /\ call[t].pid \in DOMAIN limits
        /\ limits' = [limits EXCEPT ![call[t].pid] = call[t].size]
        /\ Answer(t, "0")
     \/ /\ call[t].pid \notin DOMAIN limits
        /\ Answer(t, "E102")
        /\ UNCHANGED limits
  /\ UNCHANGED view

Remove(t) ==
  /\ Pending(t, "remove") /\ t \in Admins
  /\ \/ /\ call[t].pid \in DOMAIN limits
        /\ limits' = [p \in DOMAIN limits \ {call[t].pid} |-> limits[p]]
        /\ Answer(t, "0")
     \/ /\ call[t].pid \notin DOMAIN limits
        /\ Answer(t, "E102")
        /\ UNCHANGED limits
  /\ UNCHANGED view

(* s lists entries of one ledger, no pid twice: all of them, or as many as  *)
(* the caller has room for.                                                 *)
IsView(s, room) ==
  /\ \A i \in DOMAIN s : /\ s[i].pid \in DOMAIN limits
                         /\ s[i].memory_limit = limits[s[i].pid]
  /\ \A i, j \in DOMAIN s : s[i].pid = s[j].pid => i = j
  /\ Len(s) <= room
  /\ Len(s) < room => \A p \in DOMAIN limits : \E i \in DOMAIN s : s[i].pid = p

Get(t) ==
  /\ Pending(t, "get")
  /\ IsView(view'[t], call[t].size)
  /\ view' = [view EXCEPT ![t] = view'[t]]
  /\ Answer(t, "0")
  /\ UNCHANGED limits

(* The view may fail to reach the caller, after the fact. *)
Fault(t) ==
  /\ phase[t] = "done" /\ call[t].op = "get" /\ answer[t] = "0"
  /\ answer' = [answer EXCEPT ![t] = "EFAULT"]
  /\ UNCHANGED <<limits, call, phase, view>>

(* The gate refuses a request exactly when the pid is listed and some usage *)
(* the task had, plus the request, is above the limit of that instant.      *)
Check(t) ==
  /\ Pending(t, "check")
  /\ \/ /\ call[t].pid \notin DOMAIN limits
        /\ Answer(t, "accepted")
     \/ /\ call[t].pid \in DOMAIN limits
        /\ \E pages \in 0..MaxVm :
             LET total == (((pages * PageSize) % SizeMod) + call[t].size) % SizeMod
             IN  Answer(t, IF total > limits[call[t].pid] THEN "denied" ELSE "accepted")
  /\ UNCHANGED <<limits, view>>

-----------------------------------------------------------------------------
Init ==
  /\ limits = <<>>
  /\ call = [t \in Tasks |-> NoCall]
  /\ phase = [t \in Tasks |-> "idle"]
  /\ answer = [t \in Tasks |-> "none"]
  /\ view = [t \in Tasks |-> <<>>]

Effect(t) ==
  RefuseAdd(t) \/ Add(t) \/ Update(t) \/ Remove(t) \/ Get(t) \/ Check(t)

Next ==
  \E t \in Tasks :
    \/ Invoke(t, call'[t])
    \/ RefuseAtOnce(t, call'[t], answer'[t])
    \/ Effect(t) \/ Fault(t) \/ Return(t) \/ Die(t)

Spec == Init /\ [][Next]_vars
=============================================================================
