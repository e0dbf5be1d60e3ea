--------------------------------- MODULE Boot ---------------------------------
(***************************************************************************)
(* The boot code as a whole: kernel_early_init (src/kernel/init/init/      *)
(* kinit.c) calls multiboot_init, then kmemlow_init_allocator, which moves *)
(* the loader's structure, writes the bitmap and reads the memory map,     *)
(* freeing regions as it goes, then ki_setup_paging.  It composes          *)
(* Multiboot and EarlyMemory, which share the memory: the bitmap lies in   *)
(* the cells the structure may be in, and a region above the memory size   *)
(* clears bits behind the bitmap, where the structure may be by then.      *)
(***************************************************************************)
EXTENDS EarlyMemory, SequencesExt

CONSTANTS
    Standards, Alignments, TagLists, Entries, Places, BitmapStart, Cells,
    EndCell,        \* the cell at _kernel_end_physical
    Noise           \* regions that bytes which are no entry may look like

VARIABLES mem, standard, aligned, tags, place, mboot_ptr, current_mmap_entry, copy, step, found

multibootVars ==
    <<mem, standard, aligned, tags, place, mboot_ptr, current_mmap_entry, copy, step, found>>
bootVars == <<earlyVars, multibootVars>>

M == INSTANCE Multiboot WITH KernelEnd <- EndCell, BitmapCells <- BitmapWords, pc <- step

ASSUME LoaderAssumption ==
    /\ Standards \subseteq {0, 1, 2} /\ Alignments \subseteq BOOLEAN
    /\ TagLists \subseteq Seq({"memsz", "mmap", "name"})
    /\ Entries \in Nat /\ Cells \in Nat /\ BitmapStart \in Nat
    /\ Maps \subseteq [1..Entries -> Region] /\ Noise \subseteq Region
    /\ Places \subseteq M!Cell \cup {M!NULL}
    /\ M!Bitmap \subseteq M!Cell /\ EndCell \in M!Cell /\ BitmapStart + BitmapWords <= EndCell
    \* the structure fits where it is and behind the kernel
    /\ \A std \in Standards, list \in TagLists, p \in Places :
           p + Len(M!Structure(std, list)) <= Cells
    /\ \A list \in TagLists : EndCell + 2 * Len(M!Structure(2, list)) + Entries <= Cells

\* one memory map will do with a structure that is not accepted
AnyMap == CHOOSE map \in Maps : TRUE

BootInit ==
    /\ M!Init
    /\ IF M!Fault # 0 THEN mmap = AnyMap ELSE TRUE
    /\ Init

LoaderStep ==
    /\ \/ M!multiboot_init
       \/ M!mboot2_relocate_tags \/ M!multiboot_unimplemented \/ M!ki_memcpy \/ M!Relocated
       \/ M!FillBitmap
       \/ M!NoNext
    /\ UNCHANGED <<mbmp, used_blocks, mmap, entry, pc, beyond, got>>

(***************************************************************************)
(* One turn of the loop: the entry is read and its region freed.  Bits of  *)
(* no block of memory are bits of the cells behind the bitmap.             *)
(***************************************************************************)
RegionsIn(cell) == IF cell.kind = "entry" THEN {mmap[cell.n]} ELSE Noise

CellsOf(blocks) == {BitmapStart + b \div UnitBits : b \in blocks}
Torn == [kind |-> "other", n |-> 1]

Cleared(region) ==
    LET hit == CellsOf(Blocks(region.base, region.length)) \ M!Bitmap
    IN  IF Frees(region) THEN [a \in M!Cell |-> IF a \in hit THEN Torn ELSE mem[a]] ELSE mem

FreeNextRegion ==
    /\ M!GetNext
    /\ \E region \in RegionsIn(mem[M!EntryAt(current_mmap_entry)]) :
           /\ FreeRegion(region)
           /\ mem' = Cleared(region)

AllocatorStep ==
    /\ step = "done"
    /\ ReserveKernel \/ (\E x \in Structure : Build(x)) \/ Handover
    /\ UNCHANGED multibootVars

BootNext == LoaderStep \/ FreeNextRegion \/ AllocatorStep

BootSpec == BootInit /\ [][BootNext]_bootVars

-------------------------------------------------------------------------------
(***************************************************************************)
(* Where the structure is when the loop reads it, and whether a region of  *)
(* the map reaches it: free_region clears the bits of a region wherever    *)
(* they lie ("kernel_end", kmemlow.c:86, is no bound for it).              *)
(***************************************************************************)
Loaded == M!Structure(standard, tags)
Extent == mboot_ptr..(mboot_ptr + Len(Loaded) - 1)

OutOfReach ==
    \A k \in 1..Len(mmap) :
        Frees(mmap[k]) => CellsOf(Blocks(mmap[k].base, mmap[k].length)) \cap Extent = {}

(***************************************************************************)
(* The structure is copied upwards, cell by cell.  One that begins behind  *)
(* the kernel's end but below the place it is moved to reaches into that   *)
(* place, and the copy overwrites what it has still to read.               *)
(***************************************************************************)
OverwritesItself == EndCell < place /\ place < M!Destination(Len(Loaded))

\* the loop has begun, on a structure that neither its copy nor its map can harm
Readable ==
    standard = 2 /\ step \in {"regions", "done"} /\ ~ OverwritesItself /\ OutOfReach

(***************************************************************************)
(* multiboot_get_mmap_next returns "the next entry from the memory map"    *)
(* until the "end of list" (api.c:91-93): the loop that frees memory sees  *)
(* every entry the loader left, once and in order, and nothing else,       *)
(* although the structure was moved "to avoid overwriting the multiboot    *)
(* structure with any physical memory allocation data" (api.c:110), the    *)
(* bitmap was written where it may have been, and the loop itself writes   *)
(* behind the bitmap.  It holds of the second standard, with two           *)
(* exceptions: a map one of whose regions reaches the structure's new      *)
(* place, and a structure that overlaps that place from below.  Of the     *)
(* latter mboot2.c:132-134 says that the destination is chosen "just in    *)
(* case the initial memory overlaps", but moving it up by the length of    *)
(* the structure does not help against that.  Of the first standard the    *)
(* loop sees the second entry first and then one behind the last.          *)
(***************************************************************************)
MapRead ==
    Readable =>
        /\ IsPrefix(found, M!MapCells)
        /\ step = "done" => found = M!MapCells
        /\ \A i \in DOMAIN Loaded : mem[mboot_ptr + i - 1] = Loaded[i]

(***************************************************************************)
(* Only memory that the loader said is available is handed out, and all of *)
(* it is: the allocator's promises about the map it reads (EarlyMemory),   *)
(* here about the map the loader left in memory.                           *)
(***************************************************************************)
OnlyAvailableFreed == Readable => OnlyAvailable

NoneForgottenFreed == Readable => NoneForgotten

(***************************************************************************)
(* If the boot code panics the error code is that of what is wrong with    *)
(* the structure, of the missing structure before the missing tags; it     *)
(* only goes on with one that has all it needs, and writes no bitmap       *)
(* before it knows.                                                        *)
(***************************************************************************)
PanicNamesFault ==
    /\ step = "panic" =>
           kinit_errno =
               IF ~ aligned THEN M!MBOOT_ERROR_MISALIGNED_HEADER
               ELSE IF standard = 0 THEN M!MBOOT_ERROR_UNSUPPORTED
               ELSE IF standard = 2 /\ place = M!NULL THEN M!MBOOT_ERROR_INVALID_BOOTSTRUCT
               ELSE IF "memsz" \notin ToSet(tags) THEN M!MBOOT_ERROR_INVALID_MEMSIZE
               ELSE M!MBOOT_ERROR_INVALID_MEMORY_MAP
    /\ step \notin {"init", "panic"} =>
           /\ aligned /\ standard # 0 /\ {"memsz", "mmap"} \subseteq ToSet(tags)
           /\ standard = 2 => place # M!NULL

===============================================================================
