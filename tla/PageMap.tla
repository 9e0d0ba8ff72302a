------------------------------- MODULE PageMap -------------------------------
(***************************************************************************)
(* What an address space promises: a map from pages to what is mapped      *)
(* there, on which each call acts at one instant.  How the pages are       *)
(* grouped into areas does not appear.                                     *)
(***************************************************************************)
EXTENDS Integers

CONSTANTS
  NPages,    \* pages of the address space
  Unmapped,  \* what a page maps to that is not mapped
  NoFile,    \* the file of anonymous memory
  Calls,     \* calls with their arguments
  NoCall     \* the value of `call' between calls

VARIABLES
  map,   \* map[p]: flags, file and page of the file at page p, or Unmapped
  call   \* the call the mmap_lock is held for, or how it ended

Page      == 0..(NPages - 1)
Covered   == call.start..(call.end - 1)
Maps      == {"mmap", "brk", "mremap", "special"}
Content(p) == [flags |-> call.flags, file |-> call.file, off |-> call.pgoff + p - call.start]

Init == map = [p \in Page |-> Unmapped] /\ call = NoCall

Invoke == call = NoCall /\ call' \in Calls /\ map' = map

Answer(op)  == call \in Calls /\ call' = [NoCall EXCEPT !.op = op]
Emptied     == [p \in Page |-> IF p \in Covered THEN Unmapped ELSE map[p]]

Map ==
  /\ call.op \in Maps /\ Answer("ok")
  /\ map' = [p \in Page |-> IF p \in Covered THEN Content(p) ELSE map[p]]

(* mmap() over older mappings may lose them and still fail. *)
MapFails == call.op \in {"mmap", "brk"} /\ Answer("failed") /\ map' = Emptied

Unmap == call.op \in {"munmap", "exit"} /\ Answer("ok") /\ map' = Emptied

Protect ==
  /\ call.op = "mprotect" /\ Answer("ok")
  /\ map' = [p \in Page |->
               IF p \in Covered THEN [map[p] EXCEPT !.flags = call.flags] ELSE map[p]]

(* A page that moves keeps its place in the file; anonymous memory may get   *)
(* the offset of where it goes.  The old pages go away, or are mapped twice. *)
Move ==
  LET length == call.end - call.start
      target == call.to..(call.to + length - 1)
      From(p) == map[call.start + (p - call.to)] IN
  /\ call.op = "move" /\ Answer("ok")
  /\ \E old \in {map, Emptied}, fresh \in IF call.file = NoFile THEN BOOLEAN ELSE {FALSE} :
       map' = [p \in Page |->
                 CASE p \in target /\ ~fresh -> From(p)
                   [] p \in target /\ fresh  -> [From(p) EXCEPT !.off = p]
                   [] OTHER                  -> old[p]]

Fail == call.op # "exit" /\ Answer("failed") /\ map' = map

Return == call.op \in {"ok", "failed"} /\ call' = NoCall /\ map' = map

Next == Invoke \/ Map \/ MapFails \/ Unmap \/ Protect \/ Move \/ Fail \/ Return

Spec == Init /\ [][Next]_<<map, call>>
=============================================================================
