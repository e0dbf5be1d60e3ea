------------------------------- MODULE KernelHeap -------------------------------
(***************************************************************************)
(* What brk and sbrk promise the kernel (src/kernel/arch/i386/memory.c:    *)
(* 28-32 and 57), without page tables or a bitmap: the heap is one run of  *)
(* pages from its base, every page up to the break is backed by a block of *)
(* its own, and the block behind a page never changes.                     *)
(***************************************************************************)
EXTENDS Naturals

CONSTANTS
    HeapBlock,          \* the blocks that may back a heap page
    BasePage,           \* the first page of the heap
    LastPage,           \* the last page the heap may reach
    HeapAddress,        \* the addresses the break may take
    PageOf(_),          \* the page of an address
    NoBreak             \* the break before it is first set

VARIABLES
    brk,                \* the program break
    frames              \* frames[p]: the block behind page p, if it has one

HeapInit ==
    /\ brk = NoBreak
    /\ frames = [p \in {} |-> NoBreak]

Backed == DOMAIN frames

\* one more page, next to the pages there are, gets a block nobody uses
Back(b) ==
    LET next == IF Backed = {} THEN BasePage
                ELSE CHOOSE p \in BasePage..(LastPage + 1) :
                         p \notin Backed /\ p - 1 \in Backed
    IN  /\ next <= LastPage
        /\ \A p \in Backed : frames[p] # b
        /\ frames' = [p \in Backed \cup {next} |-> IF p = next THEN b ELSE frames[p]]
        /\ UNCHANGED brk

\* the break moves to an address all of whose pages are backed
SetBreak(addr) ==
    /\ BasePage..PageOf(addr) \subseteq Backed
    /\ brk' = addr
    /\ UNCHANGED frames

HeapNext ==
    \/ \E b \in HeapBlock : Back(b)
    \/ \E addr \in HeapAddress : SetBreak(addr)

HeapSpec == HeapInit /\ [][HeapNext]_<<brk, frames>>

===============================================================================
