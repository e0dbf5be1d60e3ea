------------------------------ MODULE EarlyMemory ------------------------------
(***************************************************************************)
(* Memory during boot: the early block allocator, which builds the bitmap  *)
(* from the memory map of the boot loader                                  *)
(* (src/kernel/init/init/memory/kmemlow.c), the page structures built with *)
(* it (paging.c), and what kernel_early_init hands to the kernel           *)
(* (src/kernel/init/init/kinit.c).  The bitmap is the one Balloc goes on   *)
(* to use; the counter is kmemlow's used_blocks, which is handed over too. *)
(*                                                                         *)
(* An address here is a number, PageSize of them to a block; a region of   *)
(* the memory map may begin and end inside a block, or lie above 4GB.      *)
(* Boot composes the actions with the reading of the map.                  *)
(***************************************************************************)
EXTENDS Balloc, Integers, Sequences

CONSTANTS
    PageSize,         \* addresses in a block (4096)
    AddrSpace,        \* addresses an unsigned int can hold (2^32)
    LowBlocks,        \* blocks in the first megabyte
    KernelEnd,        \* the block at kmemlow_get_kernel_endptr()
    EntriesPerTable,  \* entries in a page table, and in the page directory
    KernelTable,      \* the directory entry of 0xc0000000
    Maps              \* the memory maps: sequences of regions

ASSUME EarlyAssumption ==
    /\ TotalBlocks <= UIntMax
    /\ PageSize \in Nat \ {0}
    /\ AddrSpace \in Nat \ {0}
    /\ LowBlocks \in Nat \ {0}
    /\ KernelEnd \in Nat /\ LowBlocks < KernelEnd /\ KernelEnd <= TotalBlocks
    /\ EntriesPerTable \in Nat /\ KernelEnd <= EntriesPerTable
    /\ KernelTable \in 1..(EntriesPerTable - 3)

VARIABLES
    mmap,             \* the memory map, fixed at boot
    entry,            \* the entry multiboot_get_mmap_next returns next
    pc,               \* the step of the boot code
    beyond,           \* bits cleared behind the end of the bitmap
    kinit_errno,
    got               \* got[x]: the block paging.c holds for x, NULL if none

earlyVars == <<mbmp, used_blocks, mmap, entry, pc, beyond, kinit_errno, got>>

AVAILABLE == 1
ENOMEM == 1

(***************************************************************************)
(* What ki_setup_paging allocates, in its order: the page directory, the   *)
(* table of the first megabyte, the table of the kernel, the table of the  *)
(* stack and the stack.                                                    *)
(***************************************************************************)
Structures == <<"directory", "low_table", "kernel_table", "stack_table", "stack">>
Structure == {Structures[k] : k \in 1..Len(Structures)}
StructureTables == Structure \ {"stack"}

\* n added to, or taken from, an unsigned counter
Plus(used, n) == (used + n) % (UIntMax + 1)

Minus_Signed_Mutant(used, n) == used - n

Minus(used, n) == (used - n) % (UIntMax + 1)

(***************************************************************************)
(* The blocks free_region and reserve_region touch.  Base and length are   *)
(* cut to 32 bits by the caller and rounded down to blocks.                *)
(***************************************************************************)
BlockCount_OneLess_Mutant(length) == ((length % AddrSpace) \div PageSize) - 1

BlockCount(length) == (length % AddrSpace) \div PageSize

Blocks(base, length) ==
    LET first == (base % AddrSpace) \div PageSize
    IN  first..(first + BlockCount(length) - 1)

Init ==
    /\ BallocInit(Bit, TotalBlocks)     \* all bits set, used_blocks = total_blocks
    /\ mmap \in Maps
    /\ entry = 1
    /\ pc = "regions"
    /\ beyond = {}
    /\ kinit_errno = 0
    /\ got = [x \in Structure |-> NULL]

-------------------------------------------------------------------------------
(***************************************************************************)
(* kmemlow_init_allocator, after the bitmap was filled: one turn of the    *)
(* loop over the memory map.  deallocate does not look where the bitmap    *)
(* ends, and the counter goes down for every block, marked or not.         *)
(***************************************************************************)
Frees_AnyType_Mutant(region) == region.type # 0

Frees(region) == region.type = AVAILABLE

FreeRegion(region) ==
    /\ pc = "regions"
    /\ entry' = entry + 1
    /\ IF Frees(region)
         THEN LET freed == Blocks(region.base, region.length)
              IN  /\ mbmp' = mbmp \ freed
                  /\ beyond' = beyond \cup (freed \ Bit)
                  /\ used_blocks' = Minus(used_blocks, BlockCount(region.length))
         ELSE UNCHANGED <<mbmp, beyond, used_blocks>>
    /\ UNCHANGED <<mmap, pc, kinit_errno, got>>

\* the first megabyte and the kernel are marked again, counted again or not
KernelBlocks_OneLess_Mutant == LowBlocks..(KernelEnd - 2)

KernelBlocks == LowBlocks..(KernelEnd - 1)

ReserveKernel ==
    /\ pc = "regions"
    /\ mbmp' = mbmp \cup 0..(LowBlocks - 1) \cup KernelBlocks
    /\ used_blocks' = Plus(used_blocks, KernelEnd)
    /\ pc' = Structures[1]
    /\ UNCHANGED <<mmap, entry, beyond, kinit_errno, got>>

(***************************************************************************)
(* One allocation of ki_setup_paging.  kmemlow_alloc marks the block and   *)
(* leaves the counter alone.  On failure ki_setup_paging returns at once,  *)
(* to a caller that ignores its result.                                    *)
(***************************************************************************)
After(x) ==
    LET k == CHOOSE k \in 1..Len(Structures) : Structures[k] = x
    IN  IF k = Len(Structures) THEN "handover" ELSE Structures[k + 1]

Build(x) ==
    /\ pc = x
    /\ IF FirstFree(mbmp) = NULL
         THEN /\ kinit_errno' = ENOMEM
              /\ pc' = "handover"
              /\ UNCHANGED <<mbmp, got>>
         ELSE /\ mbmp' = mbmp \cup {FirstFree(mbmp)}
              /\ got' = [got EXCEPT ![x] = FirstFree(mbmp)]
              /\ pc' = After(x)
              /\ UNCHANGED kinit_errno
    /\ UNCHANGED <<used_blocks, mmap, entry, beyond>>

(***************************************************************************)
(* kernel_early_init fills kparams from kmemlow and paging.c and returns   *)
(* to bootstub.asm, which loads cr3 with the page directory, NULL or not.  *)
(* The bitmap pointer, the block total and the stack top are constants     *)
(* here; the counter and the heap base are read off the state.             *)
(***************************************************************************)
Handover ==
    /\ pc = "handover"
    /\ pc' = "running"
    /\ UNCHANGED <<mbmp, used_blocks, mmap, entry, beyond, kinit_errno, got>>

(***************************************************************************)
(* What the boot code writes into its page structures once it has them     *)
(* all, each cleared first: the directory has an entry for each table and, *)
(* the last, for itself; the first table maps the first megabyte to        *)
(* itself, the kernel's the kernel, the stack's, its last entry, the stack.*)
(***************************************************************************)
Absent == -1        \* an entry of a page table that is 0
Page == 0..(EntriesPerTable * EntriesPerTable - 1)
KernelPage(block) == KernelTable * EntriesPerTable + block
StackPage == (EntriesPerTable - 1) * EntriesPerTable - 1    \* KERNEL_STACK_MAPPING

DirectoryEntry ==
    [directory |-> EntriesPerTable - 1, low_table |-> 0, kernel_table |-> KernelTable,
     stack_table |-> EntriesPerTable - 2]

PageDirectory ==
    [t \in 0..(EntriesPerTable - 1) |->
        IF \E x \in StructureTables : DirectoryEntry[x] = t
          THEN got[CHOOSE x \in StructureTables : DirectoryEntry[x] = t] ELSE NULL]

MappedKernel_ToEnd_Mutant == {KernelPage(b) : b \in LowBlocks..KernelEnd}

MappedKernel == {KernelPage(b) : b \in LowBlocks..(KernelEnd - 1)}

PageTables ==
    [p \in Page |-> IF p < LowBlocks THEN p
                    ELSE IF p \in MappedKernel THEN p - KernelPage(0)
                    ELSE IF p = StackPage THEN got["stack"]
                    ELSE Absent]

\* kparams->kernel_heap, set once the kernel's table exists
HeapPageAtBoot == IF got["kernel_table"] # NULL THEN KernelPage(KernelEnd) ELSE NULL

-------------------------------------------------------------------------------
Region == [base : Nat, length : Nat, type : Nat]

Reserved == pc # "regions"
Complete == \A x \in Structure : got[x] # NULL

(***************************************************************************)
(* The state is well formed.                                               *)
(***************************************************************************)
TypeOK ==
    /\ mbmp \subseteq Bit
    /\ used_blocks \in UInt
    /\ mmap \in Seq(Region)
    /\ entry \in 1..(Len(mmap) + 1)
    /\ pc \in {"regions", "handover", "running"} \cup Structure
    /\ beyond \subseteq Nat \ Bit
    /\ kinit_errno \in Nat
    /\ got \in [Structure -> Block]

(***************************************************************************)
(* The kernel is never handed out ("it'd be BAD to hand out our kernel as  *)
(* an allocated block!!", kmemlow.c:105): whatever the memory map says,    *)
(* with regions that overlap, are out of order or lie outside memory, once *)
(* the kernel is reserved its blocks and those of the first megabyte are   *)
(* marked and no page structure is among them.                             *)
(***************************************************************************)
KernelNeverHandedOut ==
    Reserved =>
        /\ 0..(KernelEnd - 1) \subseteq mbmp
        /\ \A x \in Structure : got[x] = NULL \/ got[x] >= KernelEnd

(***************************************************************************)
(* What KernelMemory assumes of the boot code (its BootAssumption): the    *)
(* bitmap is fit to hand over; the page structures are marked blocks of    *)
(* memory, all different and outside the first megabyte and the kernel; a  *)
(* page that is mapped has its table, and a marked block that is no table; *)
(* nothing is mapped from the heap's base up to the stack.                 *)
(***************************************************************************)
BootContract ==
    pc = "running" /\ Complete =>
        /\ HandedOver(mbmp)
        /\ \A x \in Structure : got[x] \in mbmp /\ got[x] \notin 0..(KernelEnd - 1)
        /\ \A x, y \in Structure : got[x] = got[y] => x = y
        /\ \A p \in Page : PageTables[p] # Absent =>
               /\ PageDirectory[p \div EntriesPerTable] # NULL
               /\ PageTables[p] \in mbmp \ {got[x] : x \in StructureTables}
        /\ \A p \in HeapPageAtBoot..(StackPage - 1) : PageTables[p] = Absent

\* the whole of block b lies in regions the memory map calls available
Covered(b) ==
    \A a \in (b * PageSize)..(b * PageSize + PageSize - 1) :
        \E k \in 1..Len(mmap) :
            /\ mmap[k].type = AVAILABLE
            /\ a \in mmap[k].base..(mmap[k].base + mmap[k].length - 1)

(***************************************************************************)
(* The loop cuts a base and a length to 32 bits and rounds both down, so   *)
(* it is right only for available regions that begin on a block boundary   *)
(* and lie below 4GB.                                                      *)
(***************************************************************************)
Fitting(region) ==
    /\ region.base % PageSize = 0
    /\ region.length < AddrSpace
    /\ region.base + region.length <= AddrSpace

SoundMap == \A k \in 1..Len(mmap) : mmap[k].type = AVAILABLE => Fitting(mmap[k])

(***************************************************************************)
(* Only memory that exists is handed out: of such a map, whether or not    *)
(* its regions overlap, are in order or end where memory does, every block *)
(* that is free, or that a page structure got, lies whole in available     *)
(* regions ("free any blocks that are available", kmemlow.c:93).           *)
(***************************************************************************)
OnlyAvailable ==
    SoundMap =>
        \A b \in Block : b \notin mbmp \/ b \in {got[x] : x \in Structure} \ {NULL} => Covered(b)

(***************************************************************************)
(* And all of it is: after the boot, a block that one available region     *)
(* covers is reserved, free or holds a page structure.                     *)
(***************************************************************************)
CoveredByOne(b) ==
    \E k \in 1..Len(mmap) :
        /\ mmap[k].type = AVAILABLE
        /\ mmap[k].base <= b * PageSize
        /\ b * PageSize + PageSize <= mmap[k].base + mmap[k].length

NoneForgotten ==
    pc = "running" /\ SoundMap =>
        \A b \in KernelEnd..(TotalBlocks - 1) :
            CoveredByOne(b) => b \notin mbmp \/ \E x \in Structure : got[x] = b

===============================================================================
