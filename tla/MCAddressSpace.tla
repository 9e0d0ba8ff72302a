--------------------------- MODULE MCAddressSpace ---------------------------
(* Small instances of AddressSpace for TLC. *)
EXTENDS AddressSpace

CONSTANTS file, device

(* Anonymous memory, a shared file and a device with a close(). *)
MCKinds ==
  {[flags |-> "rw", file |-> NoFile], [flags |-> "shared", file |-> file],
   [flags |-> "r", file |-> device]}
MCFiles   == {file, device}
MCClosers == {device}

(* Bounds: two kinds of area at once, and two areas under the lower limit. *)
FewAreas ==
  /\ Cardinality({v.file : v \in mm.areas}) <= 2
  /\ sysctl_max_map_count = 1 => Cardinality(mm.areas) <= 2
=============================================================================
