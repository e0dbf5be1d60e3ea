------------------------------- MODULE Multiboot -------------------------------
(***************************************************************************)
(* How the boot code reads what the boot loader left in memory             *)
(* (src/kernel/init/init/multiboot): api.c chooses between mboot.c, for    *)
(* the first standard, and mboot2.c, for the second; kernel_early_init and *)
(* kmemlow_init_allocator call them, and the allocator's bitmap is written *)
(* over memory that the structure may lie in.  Boot composes the actions   *)
(* with the allocator's.                                                   *)
(*                                                                         *)
(* Memory is cut into cells: the fixed head of the structure, the head of  *)
(* a tag, an entry of the memory map.  A cell that was written over is     *)
(* seen when the structure is read.  The tags of the second standard give  *)
(* their length in cells; in the first standard the entries of the map     *)
(* follow the head.                                                        *)
(***************************************************************************)
EXTENDS Integers, Sequences, SequencesExt

CONSTANTS
    Standards,      \* which loaders: subset of {1, 2}, and 0 for neither
    Alignments,     \* is the structure aligned? subset of BOOLEAN
    TagLists,       \* what the structure holds, in order
    Entries,        \* entries of the memory map
    Places,         \* where the loader may put the structure, or NULL
    BitmapStart,    \* where the bitmap begins
    BitmapCells,    \* bitmap_size
    KernelEnd,      \* kmemlow's _kernel_end_physical, behind the bitmap
    Cells           \* cells of memory

Cell == 1..Cells
Bitmap == BitmapStart..(BitmapStart + BitmapCells - 1)

\* multiboot.h
MBOOT_ERROR_INVALID_MEMSIZE == 1
MBOOT_ERROR_INVALID_MEMORY_MAP == 2
MBOOT_ERROR_MISALIGNED_HEADER == 4
MBOOT_ERROR_INVALID_BOOTSTRUCT == 5
MBOOT_ERROR_ENTRY_NOT_FOUND == 6
MBOOT_ERROR_UNSUPPORTED == 7

VARIABLES
    mem,                    \* the cells
    standard, aligned, tags, place,     \* what the loader did
    mboot_ptr,              \* where the structure is taken to be
    current_mmap_entry,
    copy,                   \* the copy in progress: from, to, length, done
    pc,                     \* where the boot code is
    kinit_errno,
    found                   \* the entries multiboot_get_mmap_next returned

loader == <<standard, aligned, tags, place>>
vars == <<mem, loader, mboot_ptr, current_mmap_entry, copy, pc, kinit_errno, found>>

NULL == 0
NoCopy == [from |-> NULL, to |-> NULL, length |-> 0, done |-> 0]

\* the cells of the structure
Blank == [kind |-> "other", n |-> 0]
Ones == [kind |-> "ones", n |-> 0]
MapCells == [k \in 1..Entries |-> [kind |-> "entry", n |-> k]]
TagCells(t) == IF t = "mmap" THEN <<[kind |-> "mmap", n |-> 1 + Entries]>> \o MapCells
               ELSE <<[kind |-> t, n |-> 1]>>
TagsOf(list) == FlattenSeq([i \in DOMAIN list |-> TagCells(list[i])])

Structure(std, list) ==
    IF std = 2
      THEN LET body == TagsOf(list) \o <<[kind |-> "end", n |-> 1]>>
           IN  <<[kind |-> "head", n |-> Len(body) + 1]>> \o body
      ELSE <<[kind |-> "head", n |-> Entries]>> \o MapCells

Init ==
    /\ standard \in Standards /\ aligned \in Alignments /\ tags \in TagLists
    /\ place \in Places
    /\ mboot_ptr = place
    /\ LET cells == Structure(standard, tags)
       IN  mem = [a \in Cell |-> IF place # NULL /\ a \in place..(place + Len(cells) - 1)
                                 THEN cells[a - place + 1] ELSE Blank]
    /\ current_mmap_entry = 0
    /\ copy = NoCopy
    /\ pc = "init"
    /\ kinit_errno = 0
    /\ found = <<>>

-------------------------------------------------------------------------------
(***************************************************************************)
(* mboot2_find_tag: from tag to tag by their lengths, up to the end tag.   *)
(* A cell that is no tag sends the walk anywhere; it counts as not found.  *)
(* There is no walk from NULL.                                             *)
(***************************************************************************)
NextTag(a) == a + mem[a].n

IsTag(a) == a \in Cell /\ mem[a].kind \in {"memsz", "mmap", "name"}

mboot2_find_tag(type) ==
    LET walk[a \in 1..(2 * Cells)] ==
            IF ~ IsTag(a) THEN NULL
            ELSE IF mem[a].kind = type THEN a
            ELSE walk[NextTag(a)]
    IN  IF mboot_ptr = NULL THEN NULL ELSE walk[mboot_ptr + 1]

(***************************************************************************)
(* multiboot_init: the structure must be aligned, of a known standard and  *)
(* have the memory size and the memory map; else the boot code panics.     *)
(* NULL is aligned.  A search from it has an error of its own, which       *)
(* check_multiboot2_tags keeps; any other search that fails gets the error *)
(* of the tag it was for.  The first standard has flags for the two, which *)
(* are read without a look at the pointer: of NULL, tags stands for what   *)
(* the word there looks like.                                              *)
(***************************************************************************)
Has(type) == IF standard = 2 THEN mboot2_find_tag(type) # NULL ELSE type \in ToSet(tags)

NoStructure == standard = 2 /\ mboot_ptr = NULL

Fault_Replaced_Mutant ==
    IF ~ aligned THEN MBOOT_ERROR_MISALIGNED_HEADER
    ELSE IF standard = 0 THEN MBOOT_ERROR_UNSUPPORTED
    ELSE IF ~ Has("memsz") THEN MBOOT_ERROR_INVALID_MEMSIZE
    ELSE IF ~ Has("mmap") THEN MBOOT_ERROR_INVALID_MEMORY_MAP
    ELSE 0

Fault ==
    IF ~ aligned THEN MBOOT_ERROR_MISALIGNED_HEADER
    ELSE IF standard = 0 THEN MBOOT_ERROR_UNSUPPORTED
    ELSE IF NoStructure THEN MBOOT_ERROR_INVALID_BOOTSTRUCT
    ELSE IF ~ Has("memsz") THEN MBOOT_ERROR_INVALID_MEMSIZE
    ELSE IF ~ Has("mmap") THEN MBOOT_ERROR_INVALID_MEMORY_MAP
    ELSE 0

multiboot_init ==
    /\ pc = "init"
    /\ kinit_errno' = IF Fault = 0 THEN kinit_errno ELSE Fault
    /\ pc' = IF Fault = 0 THEN "relocate" ELSE "panic"
    /\ UNCHANGED <<mem, loader, mboot_ptr, current_mmap_entry, copy, found>>

(***************************************************************************)
(* multiboot_relocate: for the second standard, a copy behind the kernel,  *)
(* moved up by the length of the structure; for the first, nothing.        *)
(***************************************************************************)
Destination(length) == KernelEnd + length

mboot2_relocate_tags ==
    LET length == mem[mboot_ptr].n
    IN  /\ pc = "relocate" /\ standard = 2
        /\ copy' = [from |-> mboot_ptr, to |-> Destination(length), length |-> length, done |-> 0]
        /\ pc' = "copy"
        /\ UNCHANGED <<mem, loader, mboot_ptr, current_mmap_entry, kinit_errno, found>>

multiboot_unimplemented ==
    /\ pc = "relocate" /\ standard = 1
    /\ pc' = "fill"
    /\ UNCHANGED <<mem, loader, mboot_ptr, current_mmap_entry, copy, kinit_errno, found>>

\* one cell after the other, from the first
ki_memcpy ==
    /\ pc = "copy" /\ copy.done < copy.length
    /\ mem' = [mem EXCEPT ![copy.to + copy.done] = mem[copy.from + copy.done]]
    /\ copy' = [copy EXCEPT !.done = @ + 1]
    /\ UNCHANGED <<loader, mboot_ptr, current_mmap_entry, pc, kinit_errno, found>>

Relocated ==
    /\ pc = "copy" /\ copy.done = copy.length
    /\ mboot_ptr' = copy.to
    /\ copy' = NoCopy
    /\ pc' = "fill"
    /\ UNCHANGED <<mem, loader, current_mmap_entry, kinit_errno, found>>

\* kmemlow_init_allocator marks every block
FillBitmap ==
    /\ pc = "fill"
    /\ mem' = [a \in Cell |-> IF a \in Bitmap THEN Ones ELSE mem[a]]
    /\ pc' = "regions"
    /\ UNCHANGED <<loader, mboot_ptr, current_mmap_entry, copy, kinit_errno, found>>

(***************************************************************************)
(* multiboot_get_mmap_next, in the loop of kmemlow_init_allocator.  In the *)
(* first standard the address of an entry starts from the end of the first *)
(* one.  What is read of a head that was written over, or of one at NULL,  *)
(* is not modelled.                                                        *)
(* What the loop does with the entry, which may write memory, is for the   *)
(* module that composes this one.                                          *)
(***************************************************************************)
HeadReadable == standard = 1 => mboot_ptr # NULL /\ mem[mboot_ptr].kind = "head"

MapEntries ==
    IF standard = 2
      THEN LET map == mboot2_find_tag("mmap") IN IF map = NULL THEN 0 ELSE mem[map].n - 1
      ELSE mem[mboot_ptr].n

EntryAt_OnePast_Mutant(k) ==
    IF standard = 2 THEN mboot2_find_tag("mmap") + 2 + k ELSE mboot_ptr + 1 + 1 + k

EntryAt(k) ==
    IF standard = 2 THEN mboot2_find_tag("mmap") + 1 + k ELSE mboot_ptr + 1 + 1 + k

GetNext ==
    /\ pc = "regions" /\ HeadReadable
    /\ current_mmap_entry < MapEntries
    /\ found' = Append(found, mem[EntryAt(current_mmap_entry)])
    /\ current_mmap_entry' = current_mmap_entry + 1
    /\ UNCHANGED <<loader, mboot_ptr, copy, pc>>

NoNext ==
    /\ pc = "regions" /\ HeadReadable
    /\ current_mmap_entry >= MapEntries
    /\ kinit_errno' = IF standard = 2 /\ mboot2_find_tag("mmap") = NULL
                      THEN MBOOT_ERROR_ENTRY_NOT_FOUND ELSE kinit_errno
    /\ pc' = "done"
    /\ UNCHANGED <<mem, loader, mboot_ptr, current_mmap_entry, copy, found>>

===============================================================================
