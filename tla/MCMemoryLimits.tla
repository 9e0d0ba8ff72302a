--------------------------- MODULE MCMemoryLimits ---------------------------
(* Small instances of MemoryLimits for TLC. *)
EXTENDS MemoryLimits

(* Every task lives in the initial pid namespace. *)
MCRootVPid == [t \in Tasks |-> [p \in Tasks |-> p]]

(* Two tasks of a nested pid namespace, each numbered there as the other is *)
(* numbered in the initial one.                                             *)
MCNestedVPid == [t \in Tasks |-> [p \in Tasks |-> CHOOSE q \in Tasks : q # p]]
=============================================================================
