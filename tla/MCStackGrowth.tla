---------------------------- MODULE MCStackGrowth ----------------------------
(* Small instances of StackGrowth for TLC. *)
EXTENDS StackGrowth

MCStack == [start |-> NPages - 1, end |-> NPages, growsdown |-> TRUE, accessible |-> TRUE]
=============================================================================
