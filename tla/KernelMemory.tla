------------------------------ MODULE KernelMemory ------------------------------
(***************************************************************************)
(* The kernel's memory system after boot: the program break                *)
(* (src/kernel/arch/i386/memory.c), the page mapper (pagemngr.c) and, from *)
(* Balloc, the block allocator.  brk and sbrk grow the heap one page at a  *)
(* time; each turn of that loop (allocate_new_brk) is one step here, so    *)
(* that what a call has done when memory runs out half way is a state.     *)
(*                                                                         *)
(* Addresses are numbers, PageSize of them to a page.  The page tables are *)
(* reached only through the window at 0xffc00000, by virtual page, so one  *)
(* function from pages to entries stands for all of them: ptab[p] is       *)
(* meaningful when the page's directory entry is present, and Empty when   *)
(* it is not.                                                              *)
(***************************************************************************)
EXTENDS Balloc, Integers

CONSTANTS
    PageSize,          \* PAGEMNGR_PAGE_SIZE: the addresses in a page
    EntriesPerTable,   \* the entries of a page table (1024)
    NumPages,          \* the pages of the address space (2^20)
    HeapBase,          \* kparams->kernel_heap: page aligned, just above the kernel
    HeapTop,           \* first page above the modelled part of the heap
    InitBitmap,        \* the bitmap handed over by the boot code
    InitUsed,          \* and its counter
    InitDir,           \* the page directory the boot code built
    InitMap,           \* the page table entries it filled
    Dirty,             \* the blocks that do not hold zeros when they are allocated
    Targets,           \* the addresses brk is called with
    Increments,        \* the increments sbrk is called with
    Backward           \* may a call move the break to an earlier page?

NumTables == NumPages \div EntriesPerTable
AddrSpace == NumPages * PageSize
Page == 0..(NumPages - 1)
Address == 0..(AddrSpace - 1)

PageOf(addr) == addr \div PageSize
TableOf(page) == page \div EntriesPerTable     \* pdir_entry
Table == {TableOf(p) : p \in Page}
PagesOf(table) == {p \in Page : TableOf(p) = table}

(***************************************************************************)
(* A page table entry is the block it maps, or one of these.  A table that *)
(* was never cleared holds values that no code wrote, with the present bit *)
(* or without it.                                                          *)
(***************************************************************************)
Empty == -1          \* the entry is 0
Junk == -2           \* not 0, present
JunkAbsent == -3     \* not 0, not present
Entry == Block \cup {Empty, Junk, JunkAbsent}
Present(entry) == entry \in Block \cup {Junk}
NoTable == 0         \* a directory entry that is 0

\* errno
EINVAL == "EINVAL"
ENOMEM == "ENOMEM"
NoError == "none"
Failed == -1

BasePage == PageOf(HeapBase)
BootPage == {p \in Page : InitMap[p] # Empty}

ASSUME KernelMemoryAssumption ==
    /\ PageSize \in Nat \ {0}
    /\ EntriesPerTable \in Nat \ {0}
    /\ NumPages \in Nat \ {0}
    /\ HeapBase \in Address \ {NULL}
    /\ HeapBase = BasePage * PageSize
    /\ HeapTop \in Page /\ BasePage <= HeapTop
    /\ InitBitmap \subseteq Bit
    /\ HandedOver(InitBitmap)
    /\ InitUsed \in UInt
    /\ InitDir \in [Table -> InitBitmap \cap Block]
    /\ InitMap \in [Page -> (InitBitmap \cap Block) \cup {Empty}]
    /\ Targets \subseteq Address
    /\ Increments \subseteq Int
    /\ Backward \in BOOLEAN

\* what the boot code leaves: tables that exist, no block both a table and a page,
\* no table twice, and nothing mapped where the heap will be
ASSUME BootAssumption ==
    /\ \A p \in BootPage : InitDir[TableOf(p)] # NoTable
    /\ \A p \in Page, t \in Table : InitMap[p] = InitDir[t] => InitDir[t] = NoTable
    /\ \A t, u \in Table : InitDir[t] = InitDir[u] => t = u \/ InitDir[t] = NoTable
    /\ \A p \in BasePage..HeapTop : InitMap[p] = Empty

VARIABLES
    pdir,        \* pdir[t]: the block of page table t, NoTable if there is none
    ptab,        \* ptab[p]: the page table entry of page p
    heap_base,   \* _heap_base
    brk,         \* _brk
    errno,
    call,        \* the call of brk or sbrk in progress
    result       \* what the last finished call returned

memoryVars == <<heap_base, brk, errno, call, result>>
vars == <<mbmp, used_blocks, pdir, ptab, heap_base, brk, errno, call, result>>

(***************************************************************************)
(* A call in progress: who called, the break it is to set, the break that  *)
(* sbrk will return, and the loop of allocate_new_brk (the page to map     *)
(* next, the turns made and the turns to make).                            *)
(***************************************************************************)
Idle == [fn |-> "none", addr |-> 0, old |-> 0, frame |-> 0, i |-> 0, n |-> 0]

Call == [fn : {"none", "brk", "sbrk"}, addr : Address, old : Address,
         frame : Nat, i : Nat, n : Nat]

Init ==
    /\ BallocInit(InitBitmap, InitUsed)
    /\ pdir = InitDir
    /\ ptab = InitMap
    /\ heap_base = NULL
    /\ brk = NULL
    /\ errno = NoError
    /\ call = Idle
    /\ result = 0

-------------------------------------------------------------------------------
\* memory_setbase: kernel_main calls it once
SetBase ==
    /\ heap_base = NULL /\ call = Idle
    /\ heap_base' = HeapBase
    /\ UNCHANGED <<mbmp, used_blocks, pdir, ptab, brk, errno, call, result>>

\* sbrk replaces the errno of brk
Fail(fn, code) ==
    /\ errno' = IF fn = "sbrk" THEN ENOMEM ELSE code
    /\ result' = Failed
    /\ call' = Idle
    /\ UNCHANGED <<heap_base, brk>>

Succeed(fn, addr, old) ==
    /\ brk' = addr
    /\ result' = IF fn = "sbrk" THEN old ELSE 0
    /\ call' = Idle
    /\ UNCHANGED <<heap_base, errno>>

(***************************************************************************)
(* The number of pages a call asks allocate_new_brk for.  The page that    *)
(* holds the break is always mapped, so the top is the page after it; the  *)
(* subtraction is unsigned, with a size_t of the width of an address.      *)
(***************************************************************************)

FreshCount(addr) == PageOf(addr) + 1 - BasePage

MoreCount_OneMore_Mutant(addr, old) ==
    LET pages == (PageOf(addr) + 1 - PageOf(old)) % NumPages
    IN  IF pages = 0 THEN AddrSpace - 1 ELSE pages

MoreCount(addr, old) ==
    LET pages == (PageOf(addr) + 1 - PageOf(old)) % NumPages
    IN  IF pages = 0 THEN AddrSpace - 1 ELSE pages - 1

\* the first page the loop maps
NextFrame_LastPage_Mutant == IF brk = NULL THEN BasePage ELSE PageOf(brk)
NextFrame_Base_Mutant == BasePage

NextFrame == IF brk = NULL THEN BasePage ELSE PageOf(brk) + 1

(***************************************************************************)
(* brk(addr), up to the loop.                                              *)
(***************************************************************************)
SamePage(addr) == brk # NULL /\ PageOf(addr) = PageOf(brk)

Begin(fn, addr) ==
    /\ call = Idle
    /\ UNCHANGED <<mbmp, used_blocks, pdir, ptab>>
    /\ \/ /\ heap_base = NULL
          /\ Fail(fn, EINVAL)
       \/ /\ heap_base # NULL /\ addr < heap_base
          /\ Fail(fn, ENOMEM)
       \/ /\ heap_base # NULL /\ addr >= heap_base
          /\ SamePage(addr)
          /\ Succeed(fn, addr, brk)
       \/ /\ heap_base # NULL /\ addr >= heap_base
          /\ ~ SamePage(addr)
          /\ call' = [fn |-> fn, addr |-> addr, old |-> brk, i |-> 0,
                      frame |-> NextFrame,
                      n |-> IF brk = NULL THEN FreshCount(addr) ELSE MoreCount(addr, brk)]
          /\ UNCHANGED <<heap_base, brk, errno, result>>

\* the bound on callers: the break stays below HeapTop and, without Backward, never
\* returns to an earlier page
Asks(addr) ==
    /\ PageOf(addr) < HeapTop
    /\ Backward \/ brk = NULL \/ PageOf(addr) >= PageOf(brk) \/ addr < heap_base

Brk(addr) == Asks(addr) /\ Begin("brk", addr)

Sbrk(inc) ==
    \/ /\ inc = 0 /\ call = Idle
       /\ result' = brk
       /\ UNCHANGED <<mbmp, used_blocks, pdir, ptab, heap_base, brk, errno, call>>
    \/ /\ inc # 0
       /\ Asks((brk + inc) % AddrSpace)
       /\ Begin("sbrk", (brk + inc) % AddrSpace)

-------------------------------------------------------------------------------
(***************************************************************************)
(* pagemngr_map_block(block, page), called with the bitmap m and the       *)
(* counter u.  A directory entry that is 0 gets a new table, which is not  *)
(* cleared.  The failures (no block for the table, an entry that is not 0) *)
(* return -1, which the caller does not look at.                           *)
(***************************************************************************)
FreshTables(block, table) ==
    [PagesOf(table) -> IF block \in Dirty THEN {Empty, Junk, JunkAbsent} ELSE {Empty}]

MapInTable(m, u, block, page) ==
    /\ pdir[TableOf(page)] # NoTable
    /\ ptab[page] = Empty
    /\ ptab' = [ptab EXCEPT ![page] = block]
    /\ mbmp' = m /\ used_blocks' = u
    /\ UNCHANGED pdir

MapTaken(m, u, page) ==
    /\ pdir[TableOf(page)] # NoTable
    /\ ptab[page] # Empty
    /\ mbmp' = m /\ used_blocks' = u
    /\ UNCHANGED <<pdir, ptab>>

NoBlockForTable(m, page) == pdir[TableOf(page)] = NoTable /\ FirstFree(m) = NULL

MapWithoutTable(m, u, page) ==
    /\ NoBlockForTable(m, page)
    /\ mbmp' = m /\ used_blocks' = u
    /\ UNCHANGED <<pdir, ptab>>

MapInNewTable_Unmarked_Mutant(m, u, block, page) ==
    /\ pdir[TableOf(page)] = NoTable
    /\ FirstFree(m) # NULL
    /\ pdir' = [pdir EXCEPT ![TableOf(page)] = FirstFree(m)]
    /\ ptab' = [ptab EXCEPT ![page] = block]
    /\ mbmp' = m /\ used_blocks' = u

MapInNewTable(m, u, block, page) ==
    /\ pdir[TableOf(page)] = NoTable
    /\ FirstFree(m) # NULL
    /\ pdir' = [pdir EXCEPT ![TableOf(page)] = FirstFree(m)]
    /\ \E fresh \in FreshTables(FirstFree(m), TableOf(page)) :
           ptab' = [p \in Page |->
                       IF p \notin PagesOf(TableOf(page)) THEN ptab[p]
                       ELSE IF p = page /\ fresh[p] = Empty THEN block
                       ELSE fresh[p]]
    /\ mbmp' = BitmapAfterAllocate(m)
    /\ used_blocks' = UsedAfterAllocate(m, u)

(***************************************************************************)
(* One turn of allocate_new_brk that does not give up: a block (NULL in    *)
(* the first turn if there is none: the loop gives up only after it) is    *)
(* mapped at the frame, or not, and the loop goes on.  An allocation that  *)
(* fails leaves ENOMEM in errno, also when the call succeeds in the end.   *)
(***************************************************************************)
OutOfMemory == FirstFree(mbmp) = NULL

GivesUp == OutOfMemory /\ call.i > 0

Advance_FrameOnly_Mutant == call' = [call EXCEPT !.frame = @ + 1]

Advance == call' = [call EXCEPT !.frame = @ + 1, !.i = @ + 1]

GrowPage ==
    /\ call.i < call.n
    /\ ~ GivesUp
    /\ call.frame < HeapTop
    /\ LET m == BitmapAfterAllocate(mbmp)
           u == UsedAfterAllocate(mbmp, used_blocks)
           block == FirstFree(mbmp)
       IN  /\ \/ MapInTable(m, u, block, call.frame)
              \/ MapTaken(m, u, call.frame)
              \/ MapWithoutTable(m, u, call.frame)
              \/ MapInNewTable(m, u, block, call.frame)
           /\ errno' = IF OutOfMemory \/ NoBlockForTable(m, call.frame) THEN ENOMEM ELSE errno
    /\ Advance
    /\ UNCHANGED <<heap_base, brk, result>>

(***************************************************************************)
(* pagemngr_unmap_block(page).  It returns the flags of the entry where    *)
(* its frame is meant: an address in block 0, not NULL, for any page that  *)
(* was present.  A table left without entries is released.                 *)
(***************************************************************************)
Mapped(page) == pdir[TableOf(page)] # NoTable /\ Present(ptab[page])

LastInTable(page) == \A p \in PagesOf(TableOf(page)) : p # page => ptab[p] = Empty

UnmappedTable(page) == IF LastInTable(page) THEN pdir[TableOf(page)] ELSE NoTable

FlagsBlock == 0      \* the block of the address "entry & 0xfff"

(***************************************************************************)
(* The turn that gives up: the frame that was to be mapped next is         *)
(* unmapped (once: the code returns from within its loop), what            *)
(* pagemngr_unmap_block returned is released if it is not NULL, and the    *)
(* call fails.                                                             *)
(***************************************************************************)
GiveUpMapped ==
    LET table == UnmappedTable(call.frame)
        m == IF table = NoTable THEN mbmp ELSE BitmapAfterDeallocate(mbmp, table)
        u == IF table = NoTable THEN used_blocks
             ELSE UsedAfterDeallocate(mbmp, used_blocks, table)
    IN  /\ Mapped(call.frame)
        /\ ptab' = [ptab EXCEPT ![call.frame] = Empty]
        /\ pdir' = IF table = NoTable THEN pdir
                   ELSE [pdir EXCEPT ![TableOf(call.frame)] = NoTable]
        /\ mbmp' = BitmapAfterDeallocate(m, FlagsBlock)
        /\ used_blocks' = UsedAfterDeallocate(m, u, FlagsBlock)

GiveUpUnmapped ==
    /\ ~ Mapped(call.frame)
    /\ UNCHANGED <<mbmp, used_blocks, pdir, ptab>>

GiveUp ==
    /\ call.i < call.n
    /\ GivesUp
    /\ GiveUpMapped \/ GiveUpUnmapped
    /\ Fail(call.fn, ENOMEM)

\* the loop is done: brk sets the break and returns
Finish ==
    /\ call # Idle
    /\ call.i = call.n
    /\ Succeed(call.fn, call.addr, call.old)
    /\ UNCHANGED <<mbmp, used_blocks, pdir, ptab>>

Grow == GrowPage \/ GiveUp \/ Finish

Next ==
    \/ SetBase
    \/ \E addr \in Targets : Brk(addr)
    \/ \E inc \in Increments : Sbrk(inc)
    \/ Grow

(***************************************************************************)
(* The kernel is one thread and a call runs until it returns.              *)
(***************************************************************************)
Spec == Init /\ [][Next]_vars /\ WF_vars(Grow)

-------------------------------------------------------------------------------
(***************************************************************************)
(* The state is well formed.                                               *)
(***************************************************************************)
TypeOK ==
    /\ mbmp \subseteq Bit
    /\ used_blocks \in UInt
    /\ pdir \in [Table -> Block]
    /\ ptab \in [Page -> Entry]
    /\ heap_base \in {NULL, HeapBase}
    /\ brk \in Address
    /\ errno \in {NoError, EINVAL, ENOMEM}
    /\ call \in Call
    /\ result \in Address \cup {Failed}

(***************************************************************************)
(* A call in progress has made no more turns than it was asked for, counts *)
(* its pages from the one after the break (or the first of the heap), and  *)
(* has not run past the modelled part of the heap (allocate_new_brk).      *)
(***************************************************************************)
CallInRange ==
    call # Idle =>
        /\ heap_base = HeapBase
        /\ call.i <= call.n
        /\ call.addr >= HeapBase /\ PageOf(call.addr) < HeapTop
        /\ call.frame = call.i + NextFrame
        /\ call.frame <= HeapTop

\* the break is within the heap
BreakInHeap == brk # NULL => brk >= HeapBase /\ PageOf(brk) < HeapTop

\* an entry needs a table to be in
EntriesHaveTables == \A p \in Page : ptab[p] # Empty => pdir[TableOf(p)] # NoTable

HeapPage == Page \ BootPage

(***************************************************************************)
(* A block that pagemngr_map_block put behind a heap page is behind no     *)
(* other page, is no page table, and is marked in the bitmap.  Block 0 is  *)
(* what a failed allocation maps, and is left out.                         *)
(***************************************************************************)
OneOwner ==
    \A p \in HeapPage : ptab[p] > 0 =>
        /\ ptab[p] \in mbmp
        /\ \A q \in Page : q # p => ptab[q] # ptab[p]
        /\ \A t \in Table : pdir[t] # ptab[p]

\* the table of page q is a block that did not hold zeros when it became a table
NotCleared(q) == pdir[TableOf(q)] \in Dirty

\* garbage is nowhere but in such tables
GarbageConfined == \A q \in Page : ptab[q] = Junk => NotCleared(q)

\* an access to page q may end in block b: what a garbage entry maps nobody knows
MayReach(q, b) == ptab[q] \in {b, Junk}

(***************************************************************************)
(* Whatever calls were made and wherever memory ran out, the block that    *)
(* was mapped at a heap page is marked, is no page table, and can be       *)
(* reached through no other page, but for one kind: pages with a garbage   *)
(* entry, in a table that was not cleared (pagemngr.c:57-62 does not clear *)
(* any).  Those may alias every block, the kernel's included; with no      *)
(* uncleared table in place (Dirty = {}) there are none.                   *)
(***************************************************************************)
NoSharing ==
    \A p \in HeapPage : ptab[p] > 0 =>
        /\ ptab[p] \in mbmp
        /\ \A t \in Table : pdir[t] # ptab[p]
        /\ \A q \in Page : MayReach(q, ptab[p]) =>
               q = p \/ (ptab[q] = Junk /\ NotCleared(q))

\* the same of page tables
NoTableSharing ==
    \A t \in Table : pdir[t] # NoTable =>
        /\ pdir[t] \in mbmp
        /\ \A u \in Table : u # t => pdir[u] # pdir[t]
        /\ \A p \in Page : ptab[p] # pdir[t]

\* what the boot code mapped stays mapped
BootPagesKept == \A p \in BootPage : ptab[p] = InitMap[p] /\ ptab[p] \in (mbmp \cup {0})

IInv ==
    /\ TypeOK
    /\ CallInRange
    /\ BreakInHeap
    /\ EntriesHaveTables
    /\ OneOwner
    /\ NoTableSharing
    /\ BootPagesKept

(***************************************************************************)
(* Data does not move: no step, of a call that succeeds or one that fails, *)
(* changes what is behind a mapped page up to the break, or behind a page  *)
(* the boot code mapped (the kernel, its stack).                           *)
(***************************************************************************)
InUse(p) == p \in BootPage \/ (brk # NULL /\ p \in BasePage..PageOf(brk))

StableBacking == [][\A p \in Page : InUse(p) /\ ptab[p] # Empty => ptab'[p] = ptab[p]]_vars

(***************************************************************************)
(* When no call is in progress, every page of the heap up to the break has *)
(* a block of its own ("allocate and map blocks until block_count is       *)
(* satisifed", memory.c:57).  True as long as memory lasts.                *)
(***************************************************************************)
HeapBacked ==
    call = Idle /\ brk # NULL => \A p \in BasePage..PageOf(brk) : ptab[p] > 0

(***************************************************************************)
(* No block is lost: a block marked since boot is behind a page of the     *)
(* heap or is one of its tables.  True as long as memory lasts.            *)
(***************************************************************************)
NoLeak ==
    \A b \in (mbmp \cap Block) \ InitBitmap :
        (\E p \in HeapPage : ptab[p] = b) \/ (\E t \in Table : pdir[t] = b)

\* the counter moves with the bitmap, as in BallocClients
CounterFollowsBitmap ==
    [][SameModulo(used_blocks' - used_blocks, Cardinality(mbmp') - Cardinality(mbmp))]_vars

(***************************************************************************)
(* Every call of brk and sbrk returns: the loop makes a bounded number of  *)
(* turns, or gives up.                                                     *)
(***************************************************************************)
CallsReturn == (call # Idle) ~> (call = Idle)

(***************************************************************************)
(* The heap implements its abstract specification, as long as memory       *)
(* lasts: pages become backed in order, one at a time, and the break only  *)
(* moves to addresses whose pages all are.                                 *)
(***************************************************************************)
HeapFrames ==
    LET backed == {p \in BasePage..HeapTop : ptab[p] > 0}
    IN  [p \in backed |-> ptab[p]]

Heap == INSTANCE KernelHeap WITH
            HeapBlock <- Block \ {0},
            LastPage <- HeapTop,
            HeapAddress <- {a \in Address : a >= HeapBase},
            NoBreak <- NULL,
            frames <- HeapFrames

ImplementsHeap == Heap!HeapSpec

===============================================================================
