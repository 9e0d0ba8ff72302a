----------------------------- MODULE MCLimitedMm -----------------------------
(* Small instances of LimitedMm for TLC. *)
EXTENDS LimitedMm

MCRootVPid == [t \in Tasks |-> [p \in Tasks |-> p]]
=============================================================================
