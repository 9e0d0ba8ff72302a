--------------------------- MODULE MCTakeAllLocks ---------------------------
(* Small instances of TakeAllLocks for TLC. *)
EXTENDS TakeAllLocks

CONSTANTS m1, m2, file, huge, r1, r2

(* Two address spaces share a file and a root.  Two areas of m1 have both   *)
(* of them in common, and one of m2 maps a hugetlb file.                    *)
MCVmas ==
  [m \in {m1, m2} |->
     IF m = m1
       THEN <<[file |-> file, hugetlb |-> FALSE, chain |-> <<r1>>],
              [file |-> file, hugetlb |-> FALSE, chain |-> <<r2, r1>>]>>
       ELSE <<[file |-> huge, hugetlb |-> TRUE, chain |-> <<>>],
              [file |-> file, hugetlb |-> FALSE, chain |-> <<r2>>]>>]
=============================================================================
