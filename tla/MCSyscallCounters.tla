-------------------------- MODULE MCSyscallCounters --------------------------
(* The tasks are interchangeable. *)
EXTENDS SyscallCounters, TLC
TaskSymmetry == Permutations(Tasks)
=============================================================================
