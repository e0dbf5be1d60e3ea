# Missy: a TLA+ model of the kernel

Missy is a small 32-bit x86 kernel. A boot loader places it in memory, its boot
code builds a block bitmap and page tables and jumps to `kernel_main`, which
installs interrupt handlers, sets up a heap and echoes what the serial port
receives. This directory holds TLA+ models of it, the TLC runs that check them
and TLAPS proofs about its boot code, its memory system, its interrupts and
exceptions and its character devices. Paths below are relative to `src/`.

- [1 The system](#1-the-system)
- [2 Modules and how they correspond to the code](#2-modules-and-how-they-correspond-to-the-code)
- [3 Runs, bounds and what they show](#3-runs-bounds-and-what-they-show)
- [4 Fairness](#4-fairness)
- [5 Proofs](#5-proofs)
- [6 Where the code and its words part](#6-where-the-code-and-its-words-part)
- [7 Not modelled, and what comes next](#7-not-modelled-and-what-comes-next)

## 1 The system

### Components, their state and their operations

| component | code | state | operations |
|---|---|---|---|
| early block allocator | `kernel/init/init/memory/kmemlow.c` | bitmap, `total_blocks`, `used_blocks` | init from the memory map, alloc, free |
| early paging | `kernel/init/init/memory/paging.c` | page directory, three tables, the stack's block | `ki_setup_paging` |
| multiboot | `kernel/init/init/multiboot/*.c` | `mboot_ptr`, `current_mmap_entry`, `kinit_errno` | init, relocate, next entry, memory size |
| boot sequence | `kernel/init/init/kinit.c`, `kernel/init/arch/bootstub.asm` | the kernel parameters | `kernel_early_init` |
| block allocator | `kernel/arch/i386/balloc.c` | `_mbmp`, `_used_blocks` | allocate, deallocate, count |
| page mapper | `kernel/arch/i386/pagemngr.c` | the page directory and tables, through a recursive entry | map, unmap |
| program break | `kernel/arch/i386/memory.c` | `_heap_base`, `_brk`, `errno` | `memory_setbase`, `brk`, `sbrk` |
| heap | `libc/stdlib/malloc.c` | `_base`, `_next_free`, headers in the heap | malloc, calloc, free, morecore |
| interrupt table | `kernel/arch/i386/cpu.c` | `interrupts`, the interrupt flag | `cpu_driver_init`, `cpu_install_device` |
| interrupt controllers | `kernel/arch/i386/pic.c` | masks and registers of two 8259s | initialize, disable, unmask, (mask, enable, eoi) |
| interval timer | `kernel/arch/i386/timer.c`, `asm/timer_irq.asm` | `pit_tick_count` | initialize, start, the handler |
| exception handlers | `kernel/arch/i386/asm/i386_*.asm` | the stack, two static error codes, the display's colours | one handler for each exception |
| character devices | `kernel/kernel/chrdev.c` | the list of inodes, the next number | register, find, read, write |
| serial driver | `kernel/arch/i386/serial.c` | the device's descriptor, `_port` | init, read, write |
| kernel main | `kernel/kernel/kernel.c` | - | initialisation order, the echo loop |
| display | `kernel/arch/i386/display.c` | video memory, `x_loc`, `y_loc` | write, clear, colours |
| early terminal | `kernel/init/init/kterm.c` | video memory, a location | `ki_putc`, `ki_printf`, `kernel_early_putstr` |
| formatted output | `libc/stdio`, `kernel/kernel/itoa.c` | - | `vprintf`, `puts`, `itoa` |
| string functions | `libc/string` | - | copies, comparisons, `memset`, `strlen` |

### How they interact

Calls, in one thread: `bootstub` calls `kernel_early_init`, which calls
`multiboot_init`, `kmemlow_init_allocator` (which calls `multiboot_relocate` and
`multiboot_get_mmap_next`) and `ki_setup_paging` (which calls `kmemlow_alloc`).
The bitmap and the counter then pass to `balloc` through the kernel parameters.
`malloc` calls `sbrk`, which calls `balloc` and the page mapper, which calls
`balloc` again. `chrdev.c` calls `malloc` and, through function pointers, the
driver. Shared memory: the bitmap lies where the loader may have put its
structure, and the regions of the memory map may reach the place it was moved
to; the page tables are reached through the page directory itself; the early
terminal and the display write the same video memory, one after the other.
Beside the thread run only the interrupt handlers, with interrupts off, and the
exception handlers, which can be interrupted by one another.

### What is hard, and what makes each part correct

- **Memory running out half way** through a call of `brk`, between a page and
  its page table, or between the two calls of `malloc` that `calloc` makes. A
  block must never get two uses, and the call must return.
- **A boundary in every rounding**: the bitmap's last word, regions cut to 32
  bits, the break on a page boundary, a split that leaves less than a header.
- **State handed from one allocator to the other**: what `balloc` and the page
  mapper take for granted must be what the boot code leaves.
- **A structure read while memory around it is written**: the loader's structure
  is moved, the bitmap is written, and the loop that reads the map clears bits
  wherever the regions it reads lie.
- **A screen with two drivers**, each with its own idea of the place of the next
  character, one of which draws its cursor into the text.
- **Walks over a format** that step over one or two characters and take an
  argument or none, and loops over characters that end in three ways.
- **Interrupts during initialisation**: a request must find the right handler,
  the mask is read and written back with interrupts on, and the
  end-of-interrupt command does not name the request it ends.
- **Twenty handlers written by hand** that must leave the stack as they found
  it, whatever interrupts them, with two error codes in static memory.
- **A list extended by an allocation that may fail** (device registry).

PROJECT.json lists these as hazards, each at its line, with the properties that
watch it.

## 2 Modules and how they correspond to the code

Written in this order, the memory system first because everything else stands
on it:

    BlockPool                abstract: blocks and owners
    Balloc                   balloc.c: operators and actions
      BallocClients          ... and its callers            implements BlockPool
        Balloc_proofs
      KernelMemory           memory.c, pagemngr.c, Balloc    implements KernelHeap
        KernelMemory_proofs
      EarlyMemory            kmemlow.c, paging.c, kinit.c
    Multiboot                multiboot/*.c
      Boot                   EarlyMemory and Multiboot on one memory
        Boot_proofs
    KernelHeap               abstract: a run of backed pages
    KernelMalloc             malloc.c
      KernelMalloc_proofs
    Interrupts               cpu.c, pic.c, timer.c, serial_irq.asm, timer_irq.asm
      Interrupts_proofs
    Exceptions               i386_*.asm
      Exceptions_proofs
    CharacterDevices         chrdev.c, serial.c, kernel.c
      CharacterDevices_proofs
    Display                  display.c
      Screen                 kterm.c, then Display
    Printing                 vprintf.c, printf.c, puts.c, itoa.c, ki_printf
    Strings                  libc/string
      Libc                   a call of Printing or of Strings
        ScreenAndLibc_proofs    ... and of Screen

`MC...` modules give constants their values. Definitions keep the code's names
where they can; "map" in PROJECT.json names the lines of each.

**Balloc.** `mbmp` is the bitmap as the set of its set bits; a pointer to a
block is the block's number, and NULL is block 0, as in the code. `first_free`
looks at whole words only (`Scanned`). `BitmapAfterAllocate` and its like
compute the next bitmap, for callers that allocate more than once in a step.
**BallocClients** adds clients, stray releases, and the owner of each block as
the refinement mapping to BlockPool.

**KernelMemory.** One function `ptab` stands for all page tables, since the code
reaches them by virtual page; `pdir` says which tables exist. `Begin` is a call
up to its loop; each turn of `allocate_new_brk` is a step (`GrowPage`, with the
four ways `pagemngr_map_block` can end; `GiveUp`, the turn that runs out of
memory; `Finish`). A new table holds what its block held before (`Dirty`), as
nothing clears it; an entry of garbage (`Junk`) may map any block. That `errno`
becomes ENOMEM is left out, here and in KernelMalloc. KernelHeap is its
abstraction: pages become backed in order, the break moves only over backed
pages. `NoBreak <- NULL`, and `frames` is the part of `ptab` between the base
and the top.

**EarlyMemory.** One step for each turn of the loop over the memory map
(`FreeRegion`), one for the reservation, one for each allocation of
`ki_setup_paging` and one for the handover. `beyond` records bits cleared behind
the bitmap. `PageDirectory`, `MappedKernel` and `PageTables` are what `paging.c`
has written into its structures when it has them all. `BootContract` is what
KernelMemory assumes of its initial bitmap and tables (`BootAssumption`).

**Multiboot.** Memory is cells: a head, a tag, an entry of the map. The steps
are validation, the copy (cell by cell), the bitmap written over memory, and the
reads of the map. `place` is where the loader put the structure, or NULL, for
which the second standard has an error of its own (`NoStructure`) and the first
does not look. Reading a head of the first standard that was overwritten, or one
at NULL, is not modelled (`HeadReadable`).

**Boot** joins the two. The map EarlyMemory's loop frees is the one Multiboot's
walk finds in memory, entry by entry (`FreeNextRegion`); a cell that is no entry
any more reads as one of the regions of `Noise`; and a region that lies behind
the bitmap's end clears cells, the moved structure's among them (`Cleared`).
The copy runs whatever it overwrites, its own source included
(`OverwritesItself`).

**KernelMalloc.** `mem` is memory as words, a header being two of them, so that
a header written over another is seen. `Look`, `Take`, `MoreCore`, `NoCore`,
`Again` are the turns of malloc and calloc; `Search` and `Insert` those of free.
`Stride` is what adding a size in bytes to a pointer to a header does. Sizes do
not wrap: a request near 2^32 is not modelled. `sound`
becomes false when a remnant too small for a header is left or blocks that do
not meet are merged; the model stops there.

**Interrupts.** The kernel's steps (`Kernel`), the requests and deliveries of
the two controllers, and the handler's steps. The 8259s and the processor are
modelled from how the code drives them and marked external.

**Exceptions.** A handler is a sequence of instructions over `stack`; the
processor pushes a frame and, for some vectors, an error code. An exception may
come between any two instructions, up to `MaxNesting` deep, also while the
stopping handler prints and in the loop it ends in: it stays at
`i386_system_stop`, for which there is no action. `display` is the exception
whose handler took the display over last, with its details, and `lost` the
vector of a handler that returned to something else than it interrupted.

**CharacterDevices.** The inode list as a sequence with `base_inode` first;
`malloc` may fail. The port's FIFO, what arrived and what was echoed; the port
receives before it is set up, too, and `serial_init` throws that away with the
FIFO (`initialize_serial_device`). After a registration that failed, the kernel
reads descriptor -1 and gets any character (`ReadNothing`).

**Display** and **Screen.** The four values a driver changes are passed through
its functions as one record; a write off the screen goes to `stray`. Screen
starts with the early terminal (`KtermStep`); `display_init` hands the video
memory over, with whatever place the terminal was at.

**Printing.** A call of one of the four printers walks over its format, a turn
of the loop a step: the text up to the next `%` (`VprintfLiteral`), a
conversion, the rest after an unknown one. `Counted` is the three ways a piece
can end: too long for the count, stopped at a character that `putchar` returns
as EOF, or printed. The properties compare with `Meaning`, which is defined by
position in the format and never walks, and with `Numerals`, which finds a
numeral by its value and not by dividing. It means what printf means: the value
of a `%d` is that of a signed int (`SignedValue`), with a minus sign if it is
negative. The printers take it as unsigned; `NoNegative` says where that differs.

**Strings.** A call on a memory of a few cells, the blocks and strings anywhere
in it, a turn of the loop a step. A loop that leaves the memory ends `astray`.
The references (`SourceChar`, `Owed`, `Decides`) are stated on the memory before
the call. **Libc** has one call of the one or of the other.

## 3 Runs, bounds and what they show

| run | what it shows | bounds, and why they are enough |
|---|---|---|
| `balloc` | two clients and stray releases from every bitmap: exclusive holding, the counter follows the bitmap, BlockPool is implemented | 5 blocks in words of 2, so the last word is partial; a counter of 10 values that starts below, at and above the number of blocks, so it wraps; a block outside the bitmap |
| `memory_short` | no sharing but with garbage entries, nothing in use moves, counter, every call returns | 6 free blocks, tables of 2 pages, so memory runs out in every position between pages and tables, and tables become empty; blocks 9 and 12 dirty |
| `memory_plenty` | KernelHeap is implemented and nothing leaks while memory lasts | 16 blocks, tables of 4 pages: the heap crosses into a new table |
| `memory_exhausted` | **violated**: a call succeeds over pages without blocks | 12 blocks |
| `boot` | the kernel is never handed out; a complete handover is what the kernel assumes; panics name what is wrong; the map is read as the loader left it, and exactly what it lists as available is free, but for the exceptions of section 6 | 12 blocks in three words of bitmap; all maps of two regions from 9 bases and 5 lengths, or reserved: overlapping, unordered, unaligned, crossing 4GB (128 addresses here), the end of memory, or reaching the moved structure; both standards and neither, complete and incomplete lists in three orders; no structure, or one below the bitmap, at its edge, in the way of its own copy, and behind the place it is moved to; page tables of 6 entries |
| `malloc` | until `sound` fails, blocks never overlap, list in order, nothing lost, every call returns | a heap of 20 words, two `sbrk` requests of at least 10, payloads of 2 and 3 words, which gives exact fits, remnants and both merges; `Stride` 2, as merges by the code's stride of 8 need a heap beyond reach |
| `malloc_one_use` | **violated**: two blocks share a word | the code's stride, 32 words |
| `interrupts` | right handler, devices stay heard, service registers, every request served | the two devices the kernel installs, spurious interrupts, a counter that wraps at 3, three masks the firmware may leave |
| `exceptions` | frames, but for two handlers; stops, but for those two and the watchdog's NMI; the page fault's description | all 20 handlers, five page fault codes, nesting 3: a handler, one that interrupts it and one that interrupts that one |
| `devices` | descriptors; echo and reading of what a registered port took since it was set up | two other drivers, three bytes of five kinds (plain, delete, end of text, above 127, 255), a FIFO of 2 |
| `screen` | place of the next character, text kept, one cursor, stray writes bounded, over the handover | 3 by 3 cells, tabs of 2, backspaces up to 2 cells in front of the screen: every position and every scroll, by either driver |
| `libc` | what is printed is what the format means, without negative `%d`; the count is true; copies and comparisons, without terminators and equal blocks | all formats of up to three of 18 pieces (text, `%%`, an unknown directive, strings and characters with EOF among them, numbers) and every number by every conversion; numbers of 5 bits, a buffer that just holds them in base 2, counts up to 8, so that output is too long; every call on 4 cells of three values |

Deadlock checking is off where the program really ends or a bound ends it:
`boot`, the bounded heap and the unsound states of KernelMalloc, a stopped
system (`exceptions`), the end of input (`devices`). In `libc` it is on, a call
that returned being allowed to stay as it is (`Ended`): a call that is stuck in
the middle of its format or its loop is an error.

Other bounds: `HeapTop` and `Targets` keep the break in the modelled part of the
heap; `Backward = FALSE` keeps a call from moving the break to an earlier page,
where the unsigned page count wraps and the loop would make as many turns as
there are pages (the proofs have no such bound); `MaxInput` ends the input;
`MaxBack` bounds the backspaces in front of the screen, `MemorySize` the memory
of Strings;
Exceptions ends where a handler returns to something that is no frame (`lost`).

Each property of a passing run has a mutant in PROJECT.json: an operator next
to the definition it stands for (`..._Mutant`), with a slip the property must
notice.

## 4 Fairness

The kernel is one thread that nothing preempts but interrupts, and each call it
makes runs until it returns: weak fairness of the turns of a call in
KernelMemory (`Grow`) and KernelMalloc (`Step`), and of the kernel's steps in
Interrupts and CharacterDevices. Callers are under no fairness: nothing makes
anybody call `brk`. A handler runs to its end with interrupts off: weak fairness
of `Handler`. A delivery is disabled whenever a handler runs, so that a request
is delivered takes strong fairness of `Deliver(irq)`: the processor takes a
pending interrupt at the next instruction with interrupts on, and the controller
keeps an edge latched. Devices need not raise anything. `Served` allows for a
flood of requests of higher rank, against which the controllers' fixed
priorities give no protection.

## 5 Proofs

TLAPS proves the following for every value of the constants that satisfies the
named assumptions.

**Balloc_proofs** (it begins with facts on `FirstFree`, on the counter's
arithmetic and on cardinalities, which KernelMemory_proofs and Boot_proofs state
and prove again, as each reaches its own composition of Balloc), from
`BallocAssumption` (sizes are positive) and `ClientsAssumption`:

- `TypeCorrect`, `Exclusive`: types and `HeldExclusively`. Neither is inductive:
  that block 0 is marked and NULL never held is needed to know that an
  allocation that returns NULL gave nothing away, and that a held block is
  marked is needed to know that `first_free` does not find it again. `IInv` is
  their conjunction; `Invariance` proves it, one step for each action.
- `NothingLost`: a block that becomes marked is held by a client.
- `CounterCorrect`: the counter moves with the bitmap, modulo its width; from
  `IInv` and the cardinality of a finite set with one element more or less.
- `Refinement`: every step of the allocator is a step or a stutter of BlockPool;
  exclusive holding makes the owner of a block unique.
- `ExhaustedWhenNull`: when memory is a whole number of bitmap words, NULL means
  that no block is left. The assumption is needed: see section 6.

**Boot_proofs**, from `BallocAssumption`, `EarlyAssumption` (the kernel lies
behind the first megabyte, in memory, its pages fit its table, and the counter
can count memory) and `LoaderAssumption` (the shape of the data, and room for
the structure where it is and where it is moved to):

- `KernelSafe`: `KernelNeverHandedOut`, for every memory map, every structure
  the loader may leave, and whatever the loop reads where the map was written
  over. The inductive invariant `IInv` adds that a page structure's block is
  marked (or the next allocation could find it again), that no two are the same,
  and that there is none yet while regions are freed (or `free_region`, which
  clears what it is told to, could take it away). `Invariance` proves it.
- `ContractKept`: `BootContract`, from `IInv` and the arithmetic of directory
  and table entries: each table's entry in the directory is its own, each mapped
  page falls into a table that exists, and nothing is mapped from the end of the
  kernel up to the stack.
- `FaultNamed`, `TypeCorrect`: `PanicNamesFault` and `TypeOK`, wherever the
  loader put the structure. `TypeOK` needs that the loop reads no more entries
  than there are and only cells of memory, also where the structure was written
  over: a cell that still looks like a tag has its length (`SaneMemory`), and no
  cell that looks like a map is cut off by the end of memory. `PanicNamesFault`
  needs what `mboot2_find_tag` computes.
- `MapWholeRead`, `OnlyAvailableOffered`, `NoneLeftOut`: `MapRead`,
  `OnlyAvailableFreed` and `NoneForgottenFreed`, for every place of the structure.
  The properties themselves except a structure that begins between the kernel's
  end and the place it is moved to, where the copy overwrites what it has still
  to copy, and a map that reaches the structure (`Readable`). The
  invariant `BootInv` follows the structure: what is copied is right and what is
  not yet copied still is (`CopiedRight`); it lies where the loop reads it
  (`Kept`); the entries read are the first ones of the map (`ReadSoFar`); the
  blocks that are free or a page structure's are those of the regions read so
  far, but for the kernel's (`FreedOffered`); and a page structure that is still
  to be built has no block (`LaterNull`), or its block would be lost.
  `BlocksWhole` is the rounding of `free_region`: of a region that begins on a
  block boundary it takes exactly the blocks that lie whole in it.

The walk over the tags, and `FlattenSeq`, from which the model builds the
structure, are recursive functions. What they compute is proved without an
induction theorem: a function that satisfies the equation exists
(`WalkExists`, `ConcatenationExists`), and a statement about every cell or every
tag is refuted at the last one it fails of, with `LeastElement`. `StructureLayout`
says where each tag of a list lies, `FindsTag` that the walk finds it there.

**KernelMemory_proofs**, from `KernelMemoryAssumption` and `BootAssumption`
(which `ContractKept` shows of the boot code):

- `TypeCorrect`, `Unshared`, `DataStays`, `CounterCorrect`: the properties of the
  run `memory_short`, here with calls that lower the break too. The inductive
  invariant `IInv` says that a block the allocator gave to a page is behind one
  page only (`OneOwner`), that garbage is nowhere but in tables that were not
  cleared (`GarbageConfined`), which together give `NoSharing`, and
  that tables are not shared either (a new
  page's block must not be a table and the reverse), that an entry has a table
  (so that a new table takes no entries away), that the boot code's pages stay
  mapped, and where the loop of a call in progress stands (so that a turn never
  touches a page at or below the break, which is what `StableBacking` needs).
- `NothingLeaks`, `AllBacked`, `HeapRefinement`: `NoLeak`, `HeapBacked` and
  `ImplementsHeap` of every behaviour in which memory lasts (`MemoryLasts`, no
  turn finds no block), if new tables hold zeros and no call moves the break
  back (`CleanAndForward`): the three conditions the run `memory_plenty` has,
  and `memory_exhausted` is the counterexample without the first. The invariant
  `PlentyInv` says that the pages below the one the loop is at have blocks and
  those from it on are not mapped (`BackedBelowFront`), and that a call in
  progress ends with the page its break will be in (`EndsAfterBreak`). Each step
  of the code is then a step or a stutter of KernelHeap.

**Interrupts_proofs**, from `InterruptsAssumption` (the table has room for the
devices' vectors) and `DriversAssumption` (no driver installs itself on the line
of the second controller, and each brings a routine of its own: `timer.c` and
`serial.c` install IRQs 0 and 4):

- `RightHandler`, `Listens`, `OneInService`, `TypeCorrect`: `NoStrayHandler`,
  `ListensAfterInstall`, `InServiceIsHandled` and `TypeOK`, for every list of
  drivers and any requests. The invariant's core is `Answered`: an IRQ that is
  not masked has its driver's routine in the table, which needs that the entry
  is written before the mask, and that the mask read is still the mask when it
  is written back (`PortIsMask`), although handlers run in between. `Quiet` says
  that nothing reaches the processor before that, and `FirstOnly` that no
  request of the second controller is ever in service, for which the handlers'
  single acknowledgement would not do.

**CharacterDevices_proofs**, from `CharacterDevicesAssumption` (the serial port
is not one of the other drivers, its bytes have 8 bits):

- `DescriptorsSound`: `DescriptorsFind`. The invariant says that the list ends
  where it does and is numbered without gaps (`ListEnds`, `Numbered`), in a
  registration that failed half way too, and that what was returned is in it.
- `Echoes`: `EchoesInput`, from the order in which the loop reads, tests and
  writes: what the console shows, with what is still in the FIFO, is what the
  port took since it was set up. After a registration that failed nothing is said.

**Exceptions_proofs**, from `ExceptionsAssumption` (which exceptions and error
codes there are):

- `Returns`, `LeavesNothing`: `ReturnsToInterrupted`, and that nothing is left on
  the stack when every handler has returned and none got lost. The handlers of
  protection faults and alignment checks are excepted (`Leaky`); they do leave
  words. The invariant describes the whole
  stack as one segment for each handler on it, with what that handler has pushed
  at the instruction it has come to: the code of every one of the handlers is
  part of it (`CodeInv`).
- `Stops`: `StopsOnError`. A handler that took the display over stands at or in
  front of its `i386_system_stop`, so it is still on the stack, unless the handler
  of a protection fault or an alignment check got lost; of a watchdog's NMI
  nothing is said, though its handler stops like the others.
- `Described`: `PageFaultDescribed`; the description
  is right although the error code passes through static memory, as what is
  there is the code of the innermost page fault that took its own (`CodeInv`),
  and one that interrupts another's handler never returns to it.

**KernelMalloc_proofs**, from `MallocAssumption` (a header is longer than a byte,
so that `Stride` is at least 2):

- `OneUseOfMemory`, `ListOrdered`, `EveryWordKept`: `SoundMeansOneUse`,
  `ListInOrder` and `NoWordLost`, for every size of the heap, every sequence of
  calls and every failure of `sbrk`. They speak of the state between calls, so the
  invariant `IInv` must describe the middle of a call too: there is a set of free
  headers that form a ring upwards from the base (`Ring`); together with the
  headers in use and the one that `free` is about to insert they tile the heap
  (`Tiling`: no overlap, no gap), each having one owner (`OneOwner`); a block in
  use still carries the size it was handed out with (`SizesKept`), which `free`
  relies on; and the pointers of the call in progress are on the ring
  (`CallOnRing`), so that what malloc unlinks is what it found.
- `StrideMisses` shows that a step that stays sound merges nothing: the pointer
  arithmetic of `free` never finds two blocks that do meet.
- `FreeListIs` identifies that set with what the walk over `_next` reaches
  (`FreeList`): in k turns it reaches every header that lies below the k-th the
  heap has room for, shown for the least k of which it would fail.

**ScreenAndLibc_proofs**, of Screen from `DisplayAssumption` and
`EarlyTerminalAssumption` (the screen has a cell, tabs are not empty, no character
is the blank or the cursor), of the string functions from `StringsAssumption`
(memory has a cell, 0 is a character):

- `TypeCorrect`, `StrayWithin`: `TypeOK` and `StrayBounded`, for every size of the
  screen and of the tabs. The invariant `IInv` says of the early terminal only
  that its place is in a row and not behind the last column (the column may be
  negative), of the display that it is a cell. That a tab of the display may
  write behind the screen, and how far, is `TabDraws`: its places move on by
  themselves, also over a scroll.
- `CursorKept`: `OneCursor`, from what each function of the display returns:
  the screen moved up by no row or one, with the cursor drawn at the new place
  (`Drawn`), after the old cursor was written over or cleared.
- `TextStays`: `TextKept`, if no tab is longer than a row (`TabsShort`: the code
  has tabs of 4 and rows of 80). Without it a tab scrolls twice. `After` follows
  a tab turn by turn: the text has moved by a row only if the place has come so
  far back that a second row is out of reach.
- A tab's loop is a recursive function; `LoopExists` shows that it exists, and
  `EveryTurn` carries a fact from turn to turn, up to the first it would fail at.

- `CopiesAndFinds`: `CopiedAndFound`, for every size and content of memory and
  all pointers and lengths in it. It asks nothing of the terminator of a copied
  string nor of blocks that are equal over their whole length (section 6).
  `StringsInv` says what a copy has made of the memory at each turn (`CopyInv`):
  where the destination lies behind the source and the blocks overlap, what is
  read was written by the copy itself, a remainder away (`ReadsSource`); for
  `strcpy` also that the copy cannot overwrite the terminator it looks for. Of
  comparisons and `strlen` it says that what they have passed does not decide
  them, and why they stopped.

- `MeaningPrinted`, `CountIsTold`: `PrintsMeaning` and `CountTold`, from
  `PrintingAssumption` (an int has values), `JobsAssumption` (what callers keep
  to: a text is a sequence of characters, and each conversion that takes an
  argument has one of its kind) and `BufferAssumption` (itoa's buffer has a
  place for each binary digit and the terminator: 33 for 32 bits, `itoa.h`). TLC
  evaluates all three on the constants of the run `libc`. Formats are arbitrary.
  Of one with an unknown conversion or a negative `%d` (`Settled` is false)
  `PrintsMeaning` says only that `ki_printf` reads on behind it for no other
  reason than a lone `%` at its end, and `CountTold` all but the reasons of a
  failure. A number that is not negative has the same numeral, signed or not
  (`Values`). Neither theorem bounds the length of a format, an argument or a
  numeral.
  - The invariant `PrintInv` says where a call that walks stands (`Walked`): at a
    place with an even number of `%` in front of it, with the arguments taken of
    the directives in front (`Taken`), with that part of the meaning printed
    (`MeaningTo`) and its length counted. Without the parity the next turn could
    start in the middle of a directive; without the arguments it would take the
    wrong one. It also says of a call that failed (`Failed`) that it printed a
    part of the meaning, and that the whole is too long or that part ends at a
    character that is EOF.
  - `LiteralMeans` is the turn that takes many characters at once: a literal
    starts at the second `%` of a pair, or at no `%`, and no directive starts in
    it. `DirectiveMeans`, `ArgumentMeans` and `ConversionPrints` are the turn at a
    conversion; `BoundaryMoves` and `TakenGrows` step both counts.
  - `DigitsMean`: itoa's and `ki_make_ulong_string`'s repeated division writes the
    numeral that has the value. `EveryNumberHasNumeral` shows that there is one,
    `FilledIsNumeral` that the digits agree from the last one on, with no zero in
    front, and `FilledShort` that they are no more than the binary digits. The
    recursive functions (`Filled`, `ValueOf`, the concatenation of `FlattenSeq`)
    are shown to exist and followed turn by turn with `EveryTurn`.

Only model-checked: the liveness properties `CallsReturn`, `Served` and
`InputIsRead`, as the prover does no reasoning under fairness nor ENABLED. Every
safety property that a run checks and expects to hold is also a theorem,
under the conditions named above.

## 6 Where the code and its words part

Two runs show a disagreement (findings of PROJECT.json):

- `kernel/arch/i386/memory.c:95-106`: `brk` succeeds although pages are not
  backed ("allocate and map blocks until block_count is satisifed", line 57).
- `libc/stdlib/malloc.c:56-65`: a remnant smaller than its header stays on the
  list, under the block handed out.

Met while modelling; the models do what the code does, and the properties say
where they stop:

- `balloc.c:27` never looks at a partial last bitmap word, for which
  `kmemlow.c:66` makes room.
- `pagemngr.c:57-69` does not clear a new page table; what is in it counts as a
  mapping, so a page may come to share a block with another page, a table or the
  kernel. `NoSharing` says that no other page does. `pagemngr.c:83` returns the
  flags of an entry instead of its frame, so that block 0, reserved at
  `kmemlow.c:107`, is released. The frame of the page given up is not released.
- `memory.c:68`: a break moved to an earlier page makes the page count wrap.
  `errno` stays ENOMEM after a call that succeeds in the end (`balloc.c:36`).
- `kmemlow.c:200` clears bits behind the bitmap for regions above the memory
  size (`kmemlow_free` checks, line 163); lines 93-100 take unaligned regions
  for their blocks and cut addresses above 4GB; `kmemlow.c:202` and `189` count
  blocks that did not change, so the counter handed over differs from the bitmap.
  Such a region may also reach the place the structure was moved to, which the
  loop is still reading: `MapRead` and its companions are stated of maps that do
  not (`OutOfReach`).
- `kinit.c:31-32` ignores both results.
- `malloc.c:45,119`: a request near 2^32 wraps and is taken for a small one. Line
  137 sets ENOMEM, whatever failed.
- `malloc.c:97,105` add a size in bytes to a pointer to a header: neighbours are
  never merged (comments, 96 and 104), blocks that do not meet may be.
  `malloc.c:119-120`: calloc loses a block.
- `pic.c:102-115` does not unmask the cascade for an IRQ above 7, against
  `cpu.c:128-129`. `cpu.c:153` lets index 256 pass. `timer.c:60`: the low byte
  of the timer's count is always 0. `pic.c:174` reads the mask where the
  in-service register is meant.
- `i386_genprotectfault.asm:73` is a label where a call is meant, and lines
  69-71 leave two arguments on the stack; lines 26-27 test printf's result.
  `i386_aligncheck.asm:9-21` leaves the error code. `ReturnsToInterrupted`
  leaves out these two, and `StopsOnError` ends where one of them got lost.
  `i386_nmi.asm:2-3` says "If a watchdog timer elapsed, we will simply
  continue!", lines 39 and 70 stop; `StopsOnError` leaves it open. Lines 43-48
  take a clear bit for an error. `i386_breakpoint.asm:2` says that it "will
  simply halt until debugging is added later", lines 9-21 notify and return; the
  model returns. `i386_divbyzero.asm:25` returns to the instruction that
  faulted.
- `serial.c:117` clears what the port received before it was set up:
  `EchoesInput` and `InputIsRead` begin there. `kernel.c:32-36` reads from the
  descriptor without a look at whether `serial_init` gave -1, and then echoes
  what nobody sent; neither property speaks of it.
- `chrdev.c:41-47` returns no value if there is no device; `serial.c:82-91`
  turns byte 255 into end of file; `serial.c:72` loses its descriptor if the
  registration fails.
- `mboot.c:149` skips the first entry of the map and reads one behind the last.
  `mboot2.c:132-142` moves the structure up by its own length "just in case the
  initial memory overlaps", and copies upwards: a structure that lies just below
  the destination overwrites its own end before it is read (`OverwritesItself`),
  which `MapRead` and its companions leave out. For the first standard nobody
  looks whether the structure is NULL. `api.c:110`: for the first standard
  nothing is relocated.
- `display.c:85-90`: a tab that scrolls goes on clearing cells at its old place,
  and leaves cursors (113-114). `display.c:73`: a backspace at the first cell
  clears the word in front of video memory.
- `kterm.c:55`: a backspace at the first column takes the column to -1.
  `kterm.c:162`: behind a `%` at the end of a format `ki_printf` prints the
  terminator and reads on. `kernel_early_putstr` returns one more than it prints.
- `vprintf.c:42-43`: the branch of which the comment says "I don't think this
  ever get executed" is the one every `%%` takes. `%d` prints a negative number
  as the unsigned one with the same bits (`vprintf.c:112` hands an int to an
  itoa of unsigned ones, `kterm.c:128` takes it as unsigned); `PrintsMeaning`
  leaves negative ones out. A character 255 ends the call with -1, as `putchar`
  returns it as EOF.
- `compare.c:9` says "Compare two blocks of memory for equality", but lines
  14-19 never count the length down: `memcmp` never returns 0 for equal blocks.
  Line 49: `strncmp` compares one character behind its length.
  `movecopy.c:28,39`: `strcpy` and `strncpy` leave out the terminator, where
  `string.h:20` has `strcpy` as done, and `strncpy` goes on behind that of its
  source. `CopiedAndFound` asks nothing of equal blocks, of the terminator, nor
  of what `strncpy` does behind one.
- `serial.c:37`: the port is one variable for all serial devices.

## 7 Not modelled, and what comes next

Not modelled, because it has no state to get wrong or no code: panic, abort and
version (a message and an endless loop, constants), the keyboard driver (an
empty file), build files, the processor's own work in `bootstub.asm`, colours and
the hardware cursor, which are only written.

Not modelled, because nothing in the kernel calls it: `kmemlow_free`,
`write_device`, `itoa_s`, and the controllers' `send_eoi`, `mask_irq` and
`enable`. The cascade that `pic_8259a_unmask_irq` leaves masked, index 256 of
`install_handler`, a second serial port and a fault handler that returns to the
faulting instruction have no caller either, or no end, and are only listed in
section 6.

The plan from here:

1. Composition: CharacterDevices with Display (what is echoed is what is shown,
   over backspaces and scrolls), KernelMalloc over KernelMemory's `sbrk`.
2. A device behind the cascade, once the kernel installs one.
