---------------------------- MODULE MCKernelMemory ----------------------------
(***************************************************************************)
(* KernelMemory on a small machine.  The address space has a table for low *)
(* memory, one for the kernel and the heap behind it, tables for the heap  *)
(* that do not exist yet, one for the stack, and the window onto the page  *)
(* tables.  The boot code has used blocks 0 (the first megabyte), 1 (the   *)
(* kernel), 2 to 5 (the page directory and three tables) and 6 (the        *)
(* stack).                                                                 *)
(***************************************************************************)
EXTENDS KernelMemory

CONSTANT MaxTarget      \* bound: the highest address brk is called with

MCInitBitmap == (0..6) \cup (Bit \ Block)

MCInitDir ==
    [t \in Table |-> CASE t = 0 -> 3
                       [] t = 1 -> 4
                       [] t = NumTables - 2 -> 5
                       [] t = NumTables - 1 -> 2
                       [] OTHER -> NoTable]

MCInitMap ==
    [p \in Page |-> CASE p = 0 -> 0
                      [] p = EntriesPerTable -> 1
                      [] p = (NumTables - 1) * EntriesPerTable - 1 -> 6
                      [] OTHER -> Empty]

MCTargets == {0} \cup HeapBase..MaxTarget

MCIncrements == {-3, 0, 1, 4, 7}

===============================================================================
