---------------------------- MODULE MCStatistics ----------------------------
(* Small instances of FreeMemory and IoStats for TLC.  The two calls share  *)
(* no state, nor do a snapshot and what the administrator sets, so that a   *)
(* behaviour has one of the three, and of what it leaves alone one state.   *)
EXTENDS FreeMemory, IoStats, TLC

OrderOfTasks == Permutations(Tasks)

VARIABLE which

MCInit ==
  /\ MemoryInit /\ IoInit /\ which \in {"snapshot", "reserves", "io"}
  /\ IF which = "io" THEN count["free"] = Pages ELSE \A t \in Tasks : tasks[t].delays

MCNext ==
  \/ /\ which # "io" /\ UNCHANGED <<which, ioVars>>
     /\ \/ MovePages \/ Hotplug
        \/ which = "snapshot" /\ Snapshot
        \/ which = "reserves" /\ Administer
  \/ which = "io" /\ IoNext /\ UNCHANGED <<which, memoryVars>>

MCSpec == MCInit /\ [][MCNext]_<<which, memoryVars, ioVars>>
=============================================================================
