----------------------------- MODULE BallocClients -----------------------------
(***************************************************************************)
(* The block allocator with its callers: clients that take blocks, release *)
(* blocks they hold, and also release pointers to blocks that are not      *)
(* allocated (a second release, or an address outside memory), which the   *)
(* allocator must ignore.                                                  *)
(***************************************************************************)
EXTENDS Balloc, Integers

CONSTANTS
    Client,        \* the callers
    Nobody, System,\* owners in the abstract specification
    InitUsed,      \* the counters the boot code may hand over
    FarBlock       \* a block number outside the bitmap

ASSUME ClientsAssumption ==
    /\ Nobody # System
    /\ Nobody \notin Client
    /\ System \notin Client
    /\ InitUsed \subseteq UInt
    /\ FarBlock \in Nat \ Bit

VARIABLE held      \* held[c]: the blocks client c was given and has not released

vars == <<mbmp, used_blocks, held>>

Init ==
    /\ \E bitmap \in SUBSET Bit, used \in InitUsed :
           HandedOver(bitmap) /\ BallocInit(bitmap, used)
    /\ held = [c \in Client |-> {}]

Allocate(c) ==
    /\ balloc_allocate_block
    /\ held' = IF FirstFree(mbmp) = NULL
                 THEN held
                 ELSE [held EXCEPT ![c] = @ \cup {FirstFree(mbmp)}]

Release(c, b) ==
    /\ b \in held[c]
    /\ balloc_deallocate_block(b)
    /\ held' = [held EXCEPT ![c] = @ \ {b}]

\* a release of something that is not allocated
StrayRelease(b) ==
    /\ b \notin Block \cap mbmp
    /\ balloc_deallocate_block(b)
    /\ UNCHANGED held

Next ==
    \/ \E c \in Client : Allocate(c)
    \/ \E c \in Client, b \in Block : Release(c, b)
    \/ \E b \in Bit \cup {FarBlock} : StrayRelease(b)

Spec == Init /\ [][Next]_vars

-------------------------------------------------------------------------------
(***************************************************************************)
(* The state is well formed.                                               *)
(***************************************************************************)
TypeOK ==
    /\ mbmp \subseteq Bit
    /\ used_blocks \in UInt
    /\ held \in [Client -> SUBSET Block]

(***************************************************************************)
(* A block that a client holds is marked in the bitmap and held by no      *)
(* other: what first_free, allocate and deallocate must keep between them  *)
(* so that two callers never write to the same block.                      *)
(***************************************************************************)
HeldExclusively ==
    /\ \A c \in Client : held[c] \subseteq mbmp
    /\ \A c, d \in Client : c # d => held[c] \cap held[d] = {}

\* NULL doubles as the address of block 0: it is never somebody's block
NullNeverHeld == \A c \in Client : NULL \notin held[c]

\* The inductive invariant
IInv ==
    /\ TypeOK
    /\ HeldExclusively
    /\ NullNeverHeld
    /\ 0 \in mbmp

(***************************************************************************)
(* The counter moves with the bitmap: whatever sequence of allocations,    *)
(* releases and stray releases is made, _used_blocks changes exactly as    *)
(* the number of marked blocks does, modulo the counter's width.           *)
(***************************************************************************)
CounterFollowsBitmap ==
    [][SameModulo(used_blocks' - used_blocks, Cardinality(mbmp') - Cardinality(mbmp))]_vars

(***************************************************************************)
(* No block is lost: a block that was available is still available, or is  *)
(* held by a client that can release it (balloc.c:60-80).                  *)
(***************************************************************************)
NoBlockLost ==
    [][\A b \in Block \ mbmp : b \in mbmp' => \E c \in Client : b \in held'[c]]_vars

\* Who owns a block, for the abstract specification
OwnerOf(b) ==
    IF \E c \in Client : b \in held[c] THEN CHOOSE c \in Client : b \in held[c]
    ELSE IF b \in mbmp THEN System
    ELSE Nobody

owner == [b \in Block |-> OwnerOf(b)]

Pool == INSTANCE BlockPool

(***************************************************************************)
(* The allocator implements the abstract pool: every step takes a block    *)
(* nobody owns, gives one back to nobody, or changes no ownership.         *)
(***************************************************************************)
ImplementsPool == Pool!PoolSpec

(***************************************************************************)
(* NULL means that no block is available, so a client that was refused has *)
(* nothing to wait for but a release.  True of a memory of whole words;    *)
(* src/kernel/init/init/memory/kmemlow.c:66 rounds the bitmap up to cover  *)
(* other sizes too, the scan (balloc.c:27) rounds down.                    *)
(***************************************************************************)
WholeWords == TotalBlocks = UnitBits * (TotalBlocks \div UnitBits)

NullMeansExhausted == FirstFree(mbmp) = NULL => Block \subseteq mbmp

===============================================================================
