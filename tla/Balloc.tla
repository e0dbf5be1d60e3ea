-------------------------------- MODULE Balloc --------------------------------
(***************************************************************************)
(* The kernel's physical block allocator (src/kernel/arch/i386/balloc.c):  *)
(* a bitmap with one bit per 4096-byte block of memory and a counter of    *)
(* the blocks in use.  Kernel code allocates and releases single blocks.   *)
(*                                                                         *)
(* A block is named by its number.  A pointer to a block is that number    *)
(* too: the code multiplies and divides by the block size, and the NULL    *)
(* pointer is the address of block 0.                                      *)
(*                                                                         *)
(* The module holds the allocator alone: operators that compute the next   *)
(* bitmap and counter, for modules in which one step calls the allocator   *)
(* more than once, and the handlers as actions, for modules in which it    *)
(* calls it once.                                                          *)
(***************************************************************************)
EXTENDS Naturals, FiniteSets

CONSTANTS
    TotalBlocks,   \* _total_blocks, fixed by balloc_initialize
    UnitBits,      \* BLOCKS_PER_UNIT: the bits in one word of the bitmap (32)
    UIntMax        \* the largest unsigned int (2^32 - 1)

ASSUME BallocAssumption ==
    /\ TotalBlocks \in Nat \ {0}
    /\ UnitBits \in Nat \ {0}
    /\ UIntMax \in Nat \ {0}

VARIABLES
    mbmp,          \* _mbmp, as the set of blocks whose bit is set
    used_blocks    \* _used_blocks, an unsigned int

ballocVars == <<mbmp, used_blocks>>

UInt == 0..UIntMax

(***************************************************************************)
(* The blocks of memory.  The bitmap is an array of words, so it also has  *)
(* the bits of the last word that stand for no block.                      *)
(***************************************************************************)
Block == 0..(TotalBlocks - 1)
BitmapWords == (TotalBlocks + UnitBits - 1) \div UnitBits
Bit == Block \cup {b \in 0..(TotalBlocks + UnitBits) : b \div UnitBits < BitmapWords}

NULL == 0

\* unsigned increment and decrement
Incr(n) == IF n = UIntMax THEN 0 ELSE n + 1
Decr(n) == IF n = 0 THEN UIntMax ELSE n - 1

\* equal up to the width of the counter
SameModulo(x, y) == x = y \/ x = y + (UIntMax + 1) \/ y = x + (UIntMax + 1)

(***************************************************************************)
(* first_free: the scan visits _total_blocks / 32 whole words, so the bits *)
(* of a last, partial word are never looked at.  0 stands for "none" (and  *)
(* for block 0, which the callers cannot tell from it).                    *)
(***************************************************************************)
\* (A name that ends in _Mutant is a slip the properties must notice; nothing
\* uses it.)
Scanned_TooFar_Mutant ==
    {b \in 0..(TotalBlocks + UnitBits) : b \div UnitBits <= TotalBlocks \div UnitBits}

Scanned == {b \in Block : b \div UnitBits < TotalBlocks \div UnitBits}

FirstFree(bitmap) ==
    IF Scanned \subseteq bitmap
      THEN NULL
      ELSE CHOOSE b \in Scanned \ bitmap : \A c \in Scanned \ bitmap : b <= c

(***************************************************************************)
(* balloc_allocate_block: the block returned is FirstFree(bitmap), NULL if *)
(* there is none; these are the bitmap and the counter afterwards.         *)
(***************************************************************************)
BitmapAfterAllocate_NotMarked_Mutant(bitmap) == bitmap

BitmapAfterAllocate(bitmap) ==
    IF FirstFree(bitmap) = NULL THEN bitmap ELSE bitmap \cup {FirstFree(bitmap)}

UsedAfterAllocate(bitmap, used) ==
    IF FirstFree(bitmap) = NULL THEN used ELSE Incr(used)

(***************************************************************************)
(* balloc_deallocate_block: nothing happens unless the bit is set and the  *)
(* block is a block of memory.                                             *)
(***************************************************************************)
Releases(bitmap, block) == block \in bitmap /\ block \in Block

\* the mask without its complement clears the rest of the word
BitmapAfterDeallocate_Mask_Mutant(bitmap, block) ==
    IF Releases(bitmap, block)
      THEN {b \in bitmap : b = block \/ b \div UnitBits # block \div UnitBits}
      ELSE bitmap

BitmapAfterDeallocate(bitmap, block) ==
    IF Releases(bitmap, block) THEN bitmap \ {block} ELSE bitmap

UsedAfterDeallocate_Always_Mutant(bitmap, used, block) == Decr(used)

UsedAfterDeallocate(bitmap, used, block) ==
    IF Releases(bitmap, block) THEN Decr(used) ELSE used

-------------------------------------------------------------------------------
(***************************************************************************)
(* balloc_initialize: the bitmap and the counter come from the boot code,  *)
(* which always marks the blocks below 1MB (so block 0), and whose counter *)
(* need not agree with the bitmap: see EarlyMemory.                        *)
(***************************************************************************)
BallocInit(bitmap, used) ==
    /\ mbmp = bitmap
    /\ used_blocks = used

HandedOver(bitmap) == bitmap \subseteq Bit /\ 0 \in bitmap

balloc_allocate_block ==
    /\ mbmp' = BitmapAfterAllocate(mbmp)
    /\ used_blocks' = UsedAfterAllocate(mbmp, used_blocks)

balloc_deallocate_block(block) ==
    /\ mbmp' = BitmapAfterDeallocate(mbmp, block)
    /\ used_blocks' = UsedAfterDeallocate(mbmp, used_blocks, block)

balloc_get_free_blocks ==
    IF TotalBlocks >= used_blocks
      THEN TotalBlocks - used_blocks
      ELSE TotalBlocks + (UIntMax - used_blocks) + 1

===============================================================================
