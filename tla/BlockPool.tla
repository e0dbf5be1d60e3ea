------------------------------- MODULE BlockPool -------------------------------
(***************************************************************************)
(* What a block allocator promises (src/kernel/arch/i386/balloc.c:1-4,     *)
(* "Return allocated blocks of physical memory"), without its bitmap: each *)
(* block of memory has one owner, a client may take a block nobody owns    *)
(* and may give back a block it owns, and nothing else changes hands.      *)
(***************************************************************************)
CONSTANTS
    Block,     \* the blocks of memory
    Client,    \* those who call the allocator
    Nobody,    \* the owner of a block that may be handed out
    System     \* the owner of a block that is never handed out

VARIABLE owner

PoolInit == owner \in [Block -> {Nobody, System}]

Take(c, b) == owner[b] = Nobody /\ owner' = [owner EXCEPT ![b] = c]

GiveBack(c, b) == owner[b] = c /\ owner' = [owner EXCEPT ![b] = Nobody]

PoolNext == \E c \in Client, b \in Block : Take(c, b) \/ GiveBack(c, b)

PoolSpec == PoolInit /\ [][PoolNext]_owner

===============================================================================
