----------------------------- MODULE MCKernelMalloc -----------------------------
(***************************************************************************)
(* KernelMalloc on heaps of a few dozen words.                             *)
(***************************************************************************)
EXTENDS KernelMalloc

===============================================================================
