-------------------------------- MODULE MCBoot --------------------------------
(***************************************************************************)
(* Boot on a memory of 12 blocks.  The bitmap takes cells 5 to 7, cell 8   *)
(* is what is left of its page, and the structure, of at most 7 cells, is  *)
(* moved to a place from cell 14 on; a region from block 40 on reaches it. *)
(* The loader leaves nothing (0), or puts it below the bitmap, at its      *)
(* edge, where it is in the way of its own copy (12), or behind all that.  *)
(***************************************************************************)
EXTENDS Boot

AllLists == {<<"memsz", "mmap">>, <<"mmap", "name", "memsz">>,
             <<"mmap">>, <<"name", "memsz">>, <<>>}

CONSTANTS Bases, Lengths      \* where regions may begin, how long they may be

Regions == [base : Bases, length : Lengths, type : {1}] \cup {[base |-> 8, length |-> 6, type |-> 2]}

\* overlapping, out of order, reaching past the end of memory or 4GB
AnyMaps == [1..2 -> Regions]

\* all bits set, and a word or two that read as a region
AnyNoise == {[base |-> 127, length |-> 127, type |-> 127],
             [base |-> 0, length |-> 30, type |-> 1]}

===============================================================================
