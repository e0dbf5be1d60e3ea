-------------------------- MODULE KernelMemory_proofs --------------------------
(***************************************************************************)
(* Proofs about the kernel's memory system, for every size of memory and   *)
(* of the address space, every layout the boot code may leave, and every   *)
(* sequence of brk and sbrk calls, those that run out of memory included.  *)
(***************************************************************************)
EXTENDS KernelMemory, WellFoundedInduction, FiniteSetTheorems, TLAPS

(***************************************************************************)
(* Facts about the operators of Balloc: what first_free finds, and what an *)
(* allocation or a release does to the bitmap and the counter.             *)
(***************************************************************************)

(***************************************************************************)
(* A non-empty set of natural numbers has a least element: what first_free *)
(* finds is well defined.                                                  *)
(***************************************************************************)
LEMMA LeastElement ==
    ASSUME NEW S \in SUBSET Nat, S # {}
    PROVE  \E b \in S : \A c \in S : b <= c
<1> DEFINE Less == OpToRel(<, Nat)
<1>1. PICK b \in S : \A c \in S : ~ (<<c, b>> \in Less)
  <2>1. IsWellFoundedOn(Less, Nat)
    BY NatLessThanWellFounded
  <2> HIDE DEF Less
  <2> QED  BY <2>1, WFMin
<1>2. \A c \in S : ~ (c < b)
  BY <1>1 DEF OpToRel
<1> QED  BY <1>2

(***************************************************************************)
(* first_free returns NULL, or a block of memory whose bit is clear.       *)
(***************************************************************************)
LEMMA FirstFreeIsFree ==
    ASSUME NEW bitmap
    PROVE  FirstFree(bitmap) # NULL => FirstFree(bitmap) \in Block \ bitmap
<1>1. Scanned \subseteq Block /\ Block \subseteq Nat
  BY BallocAssumption DEF Scanned, Block
<1>2. CASE Scanned \subseteq bitmap
  BY <1>2 DEF FirstFree
<1>3. CASE ~ (Scanned \subseteq bitmap)
  <2>1. \E b \in Scanned \ bitmap : \A c \in Scanned \ bitmap : b <= c
    <3>1. Scanned \ bitmap \in SUBSET Nat /\ Scanned \ bitmap # {}
      BY <1>1, <1>3
    <3> QED  BY <3>1, LeastElement
  <2>2. FirstFree(bitmap) \in Scanned \ bitmap
    BY <1>3, <2>1 DEF FirstFree
  <2> QED  BY <1>1, <2>2
<1> QED  BY <1>2, <1>3

LEMMA CountersAreUInt ==
    ASSUME NEW n \in UInt
    PROVE  Incr(n) \in UInt /\ Decr(n) \in UInt
BY BallocAssumption DEF UInt, Incr, Decr

LEMMA CounterTypes ==
    ASSUME NEW bitmap, NEW used \in UInt, NEW block
    PROVE  /\ UsedAfterAllocate(bitmap, used) \in UInt
           /\ UsedAfterDeallocate(bitmap, used, block) \in UInt
BY CountersAreUInt DEF UsedAfterAllocate, UsedAfterDeallocate

(***************************************************************************)
(* The bitmap is finite.                                                   *)
(***************************************************************************)
LEMMA BitmapFinite ==
    ASSUME NEW bitmap \in SUBSET Bit
    PROVE  IsFiniteSet(bitmap) /\ Cardinality(bitmap) \in Nat
<1>1. IsFiniteSet(0..(TotalBlocks + UnitBits))
  BY BallocAssumption, FS_Interval
<1>2. Bit \subseteq 0..(TotalBlocks + UnitBits)
  BY BallocAssumption DEF Bit, Block
<1> QED  BY <1>1, <1>2, FS_Subset, FS_CardinalityType

(***************************************************************************)
(* An allocation, or a release, changes the counter and the number of      *)
(* marked blocks alike: both by one, up to the counter's width, or neither.*)
(***************************************************************************)
LEMMA AllocateCounts ==
    ASSUME NEW bitmap \in SUBSET Bit, NEW used \in UInt
    PROVE  \/ /\ UsedAfterAllocate(bitmap, used) = Incr(used)
              /\ Cardinality(BitmapAfterAllocate(bitmap)) = Cardinality(bitmap) + 1
           \/ /\ UsedAfterAllocate(bitmap, used) = used
              /\ BitmapAfterAllocate(bitmap) = bitmap
BY FirstFreeIsFree, BitmapFinite, FS_AddElement DEF UsedAfterAllocate, BitmapAfterAllocate

LEMMA DeallocateCounts ==
    ASSUME NEW bitmap \in SUBSET Bit, NEW used \in UInt, NEW block
    PROVE  \/ /\ UsedAfterDeallocate(bitmap, used, block) = Decr(used)
              /\ Cardinality(bitmap) = Cardinality(BitmapAfterDeallocate(bitmap, block)) + 1
           \/ /\ UsedAfterDeallocate(bitmap, used, block) = used
              /\ BitmapAfterDeallocate(bitmap, block) = bitmap
<1>1. CASE Releases(bitmap, block)
  <2>1. Cardinality(bitmap \ {block}) = Cardinality(bitmap) - 1
    BY <1>1, BitmapFinite, FS_RemoveElement DEF Releases
  <2>2. Cardinality(bitmap) \in Nat
    BY BitmapFinite
  <2>3. Cardinality(bitmap) = Cardinality(bitmap \ {block}) + 1
    BY <2>1, <2>2
  <2> QED  BY <1>1, <2>3 DEF UsedAfterDeallocate, BitmapAfterDeallocate
<1>2. CASE ~ Releases(bitmap, block)
  BY <1>2 DEF UsedAfterDeallocate, BitmapAfterDeallocate
<1> QED  BY <1>1, <1>2

LEMMA BitmapTypes ==
    ASSUME NEW bitmap \in SUBSET Bit, NEW block
    PROVE  /\ BitmapAfterAllocate(bitmap) \in SUBSET Bit
           /\ BitmapAfterDeallocate(bitmap, block) \in SUBSET Bit
BY FirstFreeIsFree DEF BitmapAfterAllocate, BitmapAfterDeallocate, Bit

-------------------------------------------------------------------------------
(***************************************************************************)
(* Addresses, pages and counts.                                            *)
(***************************************************************************)
LEMMA PageOfAddress ==
    ASSUME NEW addr \in Address
    PROVE  PageOf(addr) \in Nat
BY KernelMemoryAssumption DEF PageOf, Address

LEMMA NullAddress == NULL \in Address /\ Address \subseteq Nat
<1>1. AddrSpace \in Nat
  BY KernelMemoryAssumption DEF AddrSpace
<1> QED  BY <1>1, KernelMemoryAssumption DEF Address, NULL

LEMMA PageOfMonotone ==
    ASSUME NEW a \in Address, NEW b \in Address, a <= b
    PROVE  PageOf(a) <= PageOf(b)
BY KernelMemoryAssumption DEF PageOf, Address

LEMMA Counts ==
    ASSUME NEW addr \in Address, NEW old \in Address
    PROVE  /\ addr >= HeapBase => FreshCount(addr) \in Nat
           /\ MoreCount(addr, old) \in Nat
<1>1. addr >= HeapBase => FreshCount(addr) \in Nat
  BY KernelMemoryAssumption, PageOfAddress, PageOfMonotone DEF FreshCount, BasePage, Address
<1>2. AddrSpace - 1 \in Nat
  BY KernelMemoryAssumption DEF AddrSpace
<1>3. (PageOf(addr) + 1 - PageOf(old)) % NumPages \in 0..(NumPages - 1)
  BY PageOfAddress, KernelMemoryAssumption
<1>4. MoreCount(addr, old) \in Nat
  BY <1>2, <1>3 DEF MoreCount
<1> QED  BY <1>1, <1>4

(***************************************************************************)
(* A new block is marked by nobody, so no page and no table uses it.       *)
(***************************************************************************)
Used(b) == (\E p \in Page : ptab[p] = b) \/ (\E t \in Table : pdir[t] = b)

LEMMA UsedIsMarked ==
    ASSUME IInv, NEW b \in Block, b # 0, Used(b)
    PROVE  b \in mbmp
<1>1. CASE \E t \in Table : pdir[t] = b
  BY <1>1 DEF IInv, NoTableSharing, NoTable
<1>2. CASE \E p \in Page : ptab[p] = b
  <2>1. PICK p \in Page : ptab[p] = b
    BY <1>2
  <2>2. b > 0
    BY BallocAssumption DEF Block
  <2>3. CASE p \in BootPage
    BY <2>1, <2>3 DEF IInv, BootPagesKept
  <2>4. CASE p \in HeapPage
    BY <2>1, <2>2, <2>4 DEF IInv, OneOwner
  <2> QED  BY <2>3, <2>4 DEF HeapPage
<1> QED  BY <1>1, <1>2 DEF Used

\* the page a call maps or unmaps belongs to the heap
LEMMA FrameInHeap ==
    ASSUME IInv, call # Idle
    PROVE  /\ call.frame \in BasePage..HeapTop
           /\ call.frame \in Page \ BootPage
           /\ TableOf(call.frame) \in Table
<1>1. call.i \in Nat /\ call.frame \in Nat /\ HeapTop \in Page /\ BasePage \in Nat
  BY PageOfAddress, KernelMemoryAssumption DEF IInv, TypeOK, Call, BasePage
<1>2. brk # NULL => PageOf(brk) \in Nat /\ PageOf(brk) >= BasePage
  BY PageOfAddress, PageOfMonotone, KernelMemoryAssumption
  DEF IInv, TypeOK, BreakInHeap, BasePage
<1>3. call.frame \in BasePage..HeapTop
  BY <1>1, <1>2 DEF IInv, CallInRange, NextFrame, Page
<1>4. call.frame \in Page
  BY <1>1, <1>3, KernelMemoryAssumption DEF Page
<1> QED  BY <1>3, <1>4, BootAssumption DEF BootPage, Table

LEMMA InitIInv == Init => IInv
<1> SUFFICES ASSUME Init PROVE IInv
  OBVIOUS
<1> USE DEF Init, BallocInit
<1>1. 0 \in Block /\ Block \subseteq Bit /\ NULL \in Address
  BY BallocAssumption, NullAddress DEF Block, Bit
<1>2. Idle \in Call
  BY <1>1 DEF Idle, Call, NULL
<1>3. TypeOK
  BY <1>1, <1>2, KernelMemoryAssumption DEF TypeOK, Entry, NULL
<1>4. OneOwner
  <2>1. \A p \in HeapPage : InitMap[p] = Empty
    BY DEF HeapPage, BootPage
  <2> QED  BY <2>1 DEF OneOwner, Empty
<1>5. NoTableSharing
  BY KernelMemoryAssumption, BootAssumption DEF NoTableSharing
<1>6. BootPagesKept
  BY KernelMemoryAssumption DEF BootPagesKept, BootPage
<1>7. EntriesHaveTables
  BY BootAssumption DEF EntriesHaveTables, BootPage
<1> QED  BY <1>3, <1>4, <1>5, <1>6, <1>7 DEF IInv, CallInRange, BreakInHeap

\* the parts of the invariant that speak of memory, and the parts that speak of calls
MemoryInv == EntriesHaveTables /\ OneOwner /\ NoTableSharing /\ BootPagesKept
MemoryType == /\ mbmp \subseteq Bit
              /\ used_blocks \in UInt
              /\ pdir \in [Table -> Block]
              /\ ptab \in [Page -> Entry]
CallType == /\ heap_base \in {NULL, HeapBase}
            /\ brk \in Address
            /\ errno \in {NoError, EINVAL, ENOMEM}
            /\ call \in Call
            /\ result \in Address \cup {Failed}
CallInv == CallInRange /\ BreakInHeap

LEMMA PartsNext ==
    ASSUME MemoryType', MemoryInv', CallType', CallInv'
    PROVE  IInv'
BY DEF IInv, TypeOK, MemoryInv, MemoryType, CallType, CallInv

LEMMA MemoryUnchanged ==
    ASSUME IInv, UNCHANGED <<mbmp, used_blocks, pdir, ptab>>
    PROVE  MemoryType' /\ MemoryInv'
BY DEF IInv, TypeOK, MemoryType, MemoryInv, EntriesHaveTables, OneOwner, NoTableSharing, BootPagesKept

-------------------------------------------------------------------------------
(***************************************************************************)
(* The beginning and the end of a call.                                    *)
(***************************************************************************)
LEMMA SetBaseIInv == ASSUME IInv, SetBase PROVE IInv'
<1>1. MemoryType' /\ MemoryInv'
  BY MemoryUnchanged DEF SetBase
<1>2. CallType' /\ CallInv'
  BY DEF SetBase, IInv, TypeOK, CallType, CallInv, CallInRange, BreakInHeap
<1> QED  BY <1>1, <1>2, PartsNext

LEMMA BeginIInv ==
    ASSUME IInv, NEW fn \in {"brk", "sbrk"}, NEW addr \in Address,
           PageOf(addr) < HeapTop, Begin(fn, addr)
    PROVE  IInv'
<1>1. MemoryType' /\ MemoryInv'
  BY MemoryUnchanged DEF Begin
<1>2. ASSUME NEW code \in {EINVAL, ENOMEM}, Fail(fn, code)
      PROVE  CallType' /\ CallInv'
  <2>1. Idle \in Call
    BY NullAddress DEF Idle, Call, NULL
  <2> QED
    BY <1>2, <2>1
    DEF Fail, IInv, TypeOK, CallType, CallInv, CallInRange, BreakInHeap
<1>3. ASSUME addr >= heap_base, SamePage(addr), Succeed(fn, addr, brk)
      PROVE  CallType' /\ CallInv'
  <2>1. Idle \in Call /\ 0 \in Address
    BY NullAddress DEF Idle, Call, NULL
  <2>2. CallType'
    BY <1>3, <2>1 DEF Succeed, IInv, TypeOK, CallType
  <2>3. addr >= HeapBase
    BY <1>3, PageOfMonotone, KernelMemoryAssumption, NullAddress
    DEF SamePage, IInv, TypeOK, BreakInHeap, BasePage, PageOf
  <2> QED  BY <1>3, <2>2, <2>3 DEF Succeed, CallInv, CallInRange, BreakInHeap
<1>4. ASSUME heap_base # NULL, addr >= heap_base,
             call' = [fn |-> fn, addr |-> addr, old |-> brk, i |-> 0, frame |-> NextFrame,
                      n |-> IF brk = NULL THEN FreshCount(addr) ELSE MoreCount(addr, brk)],
             UNCHANGED <<heap_base, brk, errno, result>>
      PROVE  CallType' /\ CallInv'
  <2>1. heap_base = HeapBase /\ brk \in Address
    BY <1>4 DEF IInv, TypeOK
  <2>2. BasePage \in Nat /\ (brk # NULL => PageOf(brk) \in Nat /\ PageOf(brk) < HeapTop)
    BY <2>1, PageOfAddress, KernelMemoryAssumption DEF IInv, BreakInHeap, BasePage
  <2>3. NextFrame \in Nat /\ NextFrame <= HeapTop
    BY <2>2, KernelMemoryAssumption DEF NextFrame, Page
  <2>4. call'.n \in Nat
    BY <1>4, <2>1, Counts
  <2>5. call' \in Call
    BY <1>4, <2>1, <2>3, <2>4 DEF Call
  <2>6. CallType'
    BY <1>4, <2>5 DEF IInv, TypeOK, CallType
  <2>7. NextFrame' = NextFrame
    BY <1>4 DEF NextFrame
  <2> QED
    BY <1>4, <2>1, <2>3, <2>4, <2>6, <2>7
    DEF IInv, CallInv, CallInRange, BreakInHeap
<1>5. CallType' /\ CallInv'
  BY <1>2, <1>3, <1>4 DEF Begin
<1> QED  BY <1>1, <1>5, PartsNext

LEMMA BrkIInv == ASSUME IInv, NEW addr \in Targets, Brk(addr) PROVE IInv'
BY BeginIInv, KernelMemoryAssumption DEF Brk, Asks

LEMMA IncrementedIsAddress ==
    ASSUME IInv, NEW inc \in Increments
    PROVE  (brk + inc) % AddrSpace \in Address
<1>1. brk \in Int /\ inc \in Int /\ AddrSpace \in Nat \ {0}
  <2>1. AddrSpace \in Nat
    BY KernelMemoryAssumption DEF AddrSpace
  <2> QED  BY <2>1, NullAddress, KernelMemoryAssumption DEF IInv, TypeOK, Address, NULL
<1> QED  BY <1>1 DEF Address

LEMMA SbrkIInv == ASSUME IInv, NEW inc \in Increments, Sbrk(inc) PROVE IInv'
<1>1. CASE inc = 0
  <2>1. MemoryType' /\ MemoryInv'
    BY <1>1, MemoryUnchanged DEF Sbrk
  <2>2. CallType' /\ CallInv'
    BY <1>1 DEF Sbrk, IInv, TypeOK, CallType, CallInv, CallInRange, BreakInHeap, NextFrame
  <2> QED  BY <2>1, <2>2, PartsNext
<1>2. CASE inc # 0
  <2>1. (brk + inc) % AddrSpace \in Address
    BY IncrementedIsAddress
  <2> QED  BY <1>2, <2>1, BeginIInv DEF Sbrk, Asks
<1> QED  BY <1>1, <1>2

LEMMA FinishIInv == ASSUME IInv, Finish PROVE IInv'
<1>1. MemoryType' /\ MemoryInv'
  BY MemoryUnchanged DEF Finish
<1>2. Idle \in Call /\ 0 \in Address
  BY NullAddress DEF Idle, Call, NULL
<1>3. CallType' /\ CallInv'
  BY <1>2
  DEF Finish, Succeed, IInv, TypeOK, Call, CallType, CallInv, CallInRange, BreakInHeap
<1> QED  BY <1>1, <1>3, PartsNext

-------------------------------------------------------------------------------
(***************************************************************************)
(* One turn of the loop.  It leaves the call in range.                     *)
(***************************************************************************)
LEMMA AdvanceInRange ==
    ASSUME IInv, call # Idle, call.i < call.n, call.frame < HeapTop, Advance,
           errno' \in {ENOMEM, errno}, UNCHANGED <<heap_base, brk, result>>
    PROVE  CallType' /\ CallInv'
<1>1. call \in Call /\ call.i \in Nat /\ call.n \in Nat /\ call.frame \in Nat /\ HeapTop \in Nat
  BY KernelMemoryAssumption DEF IInv, TypeOK, Call, Page
<1>2. call' = [call EXCEPT !.frame = call.frame + 1, !.i = call.i + 1]
  BY DEF Advance
<1>3. call' \in Call
  <2> DEFINE moved == [call EXCEPT !.frame = call.frame + 1]
  <2>1. moved \in Call /\ moved.i = call.i
    BY <1>1 DEF Call
  <2>2. call' = [moved EXCEPT !.i = call.i + 1]
    BY <1>2
  <2> HIDE DEF moved
  <2> QED  BY <1>1, <2>1, <2>2 DEF Call
<1>4. /\ call'.fn = call.fn /\ call'.addr = call.addr /\ call'.n = call.n
      /\ call'.i = call.i + 1 /\ call'.frame = call.frame + 1
  BY <1>1, <1>2 DEF Call
<1>5. CallType'
  BY <1>3 DEF IInv, TypeOK, CallType
<1>6. NextFrame' = NextFrame /\ NextFrame \in Int
  BY PageOfAddress, KernelMemoryAssumption DEF NextFrame, IInv, TypeOK, BasePage
<1>7. CallInRange'
  BY <1>1, <1>4, <1>6 DEF IInv, CallInRange
<1>8. BreakInHeap'
  BY DEF IInv, BreakInHeap
<1> QED  BY <1>5, <1>7, <1>8 DEF CallInv

\* the bitmap after the turn's first allocation, and the block it returned
LEMMA TurnAllocation ==
    ASSUME IInv, NEW m, NEW u, NEW block,
           m = BitmapAfterAllocate(mbmp), u = UsedAfterAllocate(mbmp, used_blocks),
           block = FirstFree(mbmp)
    PROVE  /\ m \in SUBSET Bit /\ u \in UInt /\ mbmp \subseteq m
           /\ block \in Block
           /\ block # 0 => block \notin mbmp /\ block \in m
<1>1. 0 \in Block /\ Block \subseteq Nat
  BY BallocAssumption DEF Block
<1>2. block \in Block /\ (block # 0 => block \notin mbmp)
  BY <1>1, FirstFreeIsFree DEF NULL
<1>3. m \in SUBSET Bit /\ u \in UInt
  BY BitmapTypes, CounterTypes DEF IInv, TypeOK
<1>4. mbmp \subseteq m /\ (block # 0 => block \in m)
  BY DEF BitmapAfterAllocate, NULL
<1> QED  BY <1>2, <1>3, <1>4

LEMMA MapInTableIInv ==
    ASSUME IInv, NEW m, NEW u, NEW block, NEW page \in BasePage..HeapTop,
           page \in Page \ BootPage,
           m \in SUBSET Bit, u \in UInt, mbmp \subseteq m, block \in Block,
           block # 0 => block \notin mbmp /\ block \in m,
           MapInTable(m, u, block, page)
    PROVE  MemoryType' /\ MemoryInv'
<1> USE DEF IInv, TypeOK, MapInTable
<1>1. Block \subseteq Nat /\ Empty \notin Nat /\ NoTable = 0
  BY BallocAssumption DEF Block, Empty, NoTable
<1>2. MemoryType'
  BY DEF MemoryType, Entry
<1>3. EntriesHaveTables'
  BY DEF EntriesHaveTables
<1>4. block # 0 => ~ Used(block)
  BY UsedIsMarked
<1>5. ptab'[page] = block /\ \A p \in Page : p # page => ptab'[p] = ptab[p]
  OBVIOUS
<1>6. OneOwner'
  <2> SUFFICES ASSUME NEW p \in HeapPage, ptab'[p] > 0
               PROVE  /\ ptab'[p] \in mbmp'
                      /\ \A q \in Page : q # p => ptab'[q] # ptab'[p]
                      /\ \A t \in Table : pdir'[t] # ptab'[p]
    BY DEF OneOwner
  <2>1. CASE p = page
    BY <1>1, <1>4, <1>5, <2>1 DEF Used, HeapPage
  <2>2. CASE p # page
    BY <1>1, <1>4, <1>5, <2>2 DEF Used, HeapPage, OneOwner
  <2> QED  BY <2>1, <2>2
<1>7. NoTableSharing'
  <2> SUFFICES ASSUME NEW t \in Table, pdir'[t] # NoTable
               PROVE  /\ pdir'[t] \in mbmp'
                      /\ \A u2 \in Table : u2 # t => pdir'[u2] # pdir'[t]
                      /\ \A p \in Page : ptab'[p] # pdir'[t]
    BY DEF NoTableSharing
  <2> QED  BY <1>1, <1>4, <1>5 DEF Used, NoTableSharing
<1>8. BootPagesKept'
  BY <1>5 DEF BootPagesKept, BootPage
<1> QED  BY <1>2, <1>3, <1>6, <1>7, <1>8 DEF MemoryInv

\* a turn that only takes a block
LEMMA TakenIInv ==
    ASSUME IInv, NEW m \in SUBSET Bit, NEW u \in UInt, mbmp \subseteq m,
           mbmp' = m, used_blocks' = u, UNCHANGED <<pdir, ptab>>
    PROVE  MemoryType' /\ MemoryInv'
BY DEF IInv, TypeOK, MemoryType, MemoryInv, EntriesHaveTables, OneOwner, NoTableSharing,
       BootPagesKept

LEMMA MapInNewTableIInv ==
    ASSUME IInv, NEW m, NEW u, NEW block, NEW page \in BasePage..HeapTop,
           page \in Page \ BootPage, TableOf(page) \in Table,
           m \in SUBSET Bit, u \in UInt, mbmp \subseteq m, block \in Block,
           block # 0 => block \notin mbmp /\ block \in m,
           MapInNewTable(m, u, block, page)
    PROVE  MemoryType' /\ MemoryInv'
<1> USE DEF IInv, TypeOK
<1>1. Block \subseteq Nat /\ 0 \in Block
  BY BallocAssumption DEF Block
<1>2. PICK table : table = FirstFree(m)
  OBVIOUS
<1>3. table \in Block /\ table \notin m /\ table # 0 /\ table # block
  BY <1>1, <1>2, FirstFreeIsFree DEF MapInNewTable, NULL
<1>4. mbmp' = m \cup {table} /\ used_blocks' \in UInt
  BY <1>2, CounterTypes DEF MapInNewTable, BitmapAfterAllocate
<1>5. /\ pdir' = [pdir EXCEPT ![TableOf(page)] = table]
      /\ pdir[TableOf(page)] = 0
  BY <1>2 DEF MapInNewTable, NoTable
<1>6. PICK fresh \in FreshTables(table, TableOf(page)) :
          ptab' = [p \in Page |->
                      IF p \notin PagesOf(TableOf(page)) THEN ptab[p]
                      ELSE IF p = page /\ fresh[p] = Empty THEN block
                      ELSE fresh[p]]
  BY <1>2 DEF MapInNewTable
<1>7. \A p \in PagesOf(TableOf(page)) :
          /\ fresh[p] \in {Empty, Junk, JunkAbsent}
          /\ p \in Page /\ TableOf(p) = TableOf(page)
          /\ ptab[p] = Empty
  BY <1>5, <1>6 DEF FreshTables, PagesOf, EntriesHaveTables, NoTable
<1>8. \A p \in Page : \/ ptab'[p] = ptab[p]
                      \/ p = page /\ ptab'[p] = block
                      \/ TableOf(p) = TableOf(page) /\ ptab'[p] \in {Empty, Junk, JunkAbsent}
  BY <1>6, <1>7
<1>9. {Empty, Junk, JunkAbsent} \cap Nat = {}
  BY DEF Empty, Junk, JunkAbsent
<1>10. MemoryType'
  <2>1. ptab' \in [Page -> Entry]
    BY <1>6, <1>7, <1>8 DEF Entry
  <2> QED  BY <1>3, <1>4, <1>5, <2>1 DEF MemoryType, Bit
<1>11. EntriesHaveTables'
  <2> SUFFICES ASSUME NEW p \in Page, ptab'[p] # Empty PROVE pdir'[TableOf(p)] # NoTable
    BY DEF EntriesHaveTables
  <2>1. CASE TableOf(p) = TableOf(page)
    BY <1>3, <1>5, <2>1 DEF NoTable
  <2>2. CASE TableOf(p) # TableOf(page)
    <3>1. ptab'[p] = ptab[p]
      BY <1>8, <2>2
    <3> QED  BY <1>5, <2>2, <3>1 DEF EntriesHaveTables, Table
  <2> QED  BY <2>1, <2>2
<1>12. ~ Used(table) /\ (block # 0 => ~ Used(block))
  BY <1>3, UsedIsMarked
<1>13. OneOwner'
  <2> SUFFICES ASSUME NEW p \in HeapPage, ptab'[p] > 0
               PROVE  /\ ptab'[p] \in mbmp'
                      /\ \A q \in Page : q # p => ptab'[q] # ptab'[p]
                      /\ \A t \in Table : pdir'[t] # ptab'[p]
    BY DEF OneOwner
  <2>1. p \in Page /\ \A t \in Table : pdir'[t] = table \/ pdir'[t] = pdir[t]
    BY <1>5 DEF HeapPage
  <2>2. CASE p = page /\ ptab'[p] = block
    <3>1. block # 0 /\ block \notin {Empty, Junk, JunkAbsent}
      BY <1>1, <1>9, <2>2
    <3>2. \A q \in Page : q # p => ptab'[q] # block
      BY <1>8, <1>12, <2>2, <3>1 DEF Used
    <3>3. \A t \in Table : pdir'[t] # block
      BY <1>3, <1>12, <2>1, <3>1 DEF Used
    <3> QED  BY <1>4, <2>2, <3>1, <3>2, <3>3
  <2>3. CASE ptab'[p] = ptab[p]
    <3>1. ptab[p] \notin {Empty, Junk, JunkAbsent} /\ ptab[p] # 0 /\ ptab[p] > 0
      BY <2>3 DEF Empty, Junk, JunkAbsent
    <3>2. ptab[p] # table /\ (block # 0 => ptab[p] # block)
      BY <1>12, <2>1 DEF Used
    <3>3. \A q \in Page : q # p => ptab'[q] # ptab[p]
      BY <1>8, <2>3, <3>1, <3>2 DEF OneOwner
    <3>4. \A t \in Table : pdir'[t] # ptab[p]
      BY <2>1, <3>1, <3>2 DEF OneOwner
    <3>5. ptab[p] \in mbmp'
      BY <1>4, <3>1 DEF OneOwner
    <3> QED  BY <2>3, <3>3, <3>4, <3>5
  <2>4. CASE ptab'[p] \in {Empty, Junk, JunkAbsent}
    BY <2>4 DEF Empty, Junk, JunkAbsent
  <2> QED  BY <1>8, <2>1, <2>2, <2>3, <2>4
<1>14. NoTableSharing'
  <2>1. \A t \in Table : IF t = TableOf(page) THEN pdir'[t] = table ELSE pdir'[t] = pdir[t]
    BY <1>5
  <2>2. \A p \in Page : ptab'[p] # table
    BY <1>3, <1>8, <1>9, <1>12, <1>1 DEF Used
  <2>3. \A t \in Table : t # TableOf(page) => pdir[t] # table
    BY <1>12 DEF Used
  <2>4. ASSUME NEW t \in Table, pdir[t] # 0, NEW p \in Page
        PROVE  ptab'[p] # pdir[t]
    <3>1. pdir[t] \notin {Empty, Junk, JunkAbsent} /\ ptab[p] # pdir[t]
      BY <1>1, <1>9, <2>4 DEF NoTableSharing, NoTable
    <3>2. block = 0 \/ pdir[t] # block
      BY <1>12 DEF Used
    <3> QED  BY <1>8, <2>4, <3>1, <3>2
  <2> QED  BY <1>4, <2>1, <2>2, <2>3, <2>4 DEF NoTableSharing, NoTable
<1>15. BootPagesKept'
  <2>1. \A p \in BootPage : p \in Page /\ ptab[p] # Empty /\ p # page
    BY DEF BootPage, BootPagesKept
  <2>2. \A p \in BootPage : TableOf(p) # TableOf(page)
    BY <1>5, <2>1 DEF EntriesHaveTables, NoTable
  <2>3. \A p \in BootPage : ptab'[p] = ptab[p]
    BY <1>8, <2>1, <2>2
  <2> QED  BY <1>4, <2>3 DEF BootPagesKept
<1> QED  BY <1>10, <1>11, <1>13, <1>14, <1>15 DEF MemoryInv

\* a call that has turns to make is in progress
LEMMA TurnsLeft == ASSUME IInv, call.i < call.n PROVE call # Idle
BY DEF Idle, IInv, TypeOK, Call

LEMMA GrowPageIInv == ASSUME IInv, GrowPage PROVE IInv'
<1> PICK m, u, block : /\ m = BitmapAfterAllocate(mbmp)
                       /\ u = UsedAfterAllocate(mbmp, used_blocks)
                       /\ block = FirstFree(mbmp)
  OBVIOUS
<1>1. call # Idle
  BY TurnsLeft DEF GrowPage
<1>2. /\ call.frame \in BasePage..HeapTop
      /\ call.frame \in Page \ BootPage
      /\ TableOf(call.frame) \in Table
  BY <1>1, FrameInHeap
<1>3. /\ m \in SUBSET Bit /\ u \in UInt /\ mbmp \subseteq m
      /\ block \in Block
      /\ block # 0 => block \notin mbmp /\ block \in m
  BY TurnAllocation
<1>4. CallType' /\ CallInv'
  <2>1. errno' \in {ENOMEM, errno}
    BY DEF GrowPage
  <2> QED  BY <1>1, <2>1, AdvanceInRange DEF GrowPage
<1>5. MemoryType' /\ MemoryInv'
  <2>1. CASE MapInTable(m, u, block, call.frame)
    BY <1>2, <1>3, <2>1, MapInTableIInv
  <2>2. CASE MapTaken(m, u, call.frame) \/ MapWithoutTable(m, u, call.frame)
    BY <1>3, <2>2, TakenIInv DEF MapTaken, MapWithoutTable
  <2>3. CASE MapInNewTable(m, u, block, call.frame)
    BY <1>2, <1>3, <2>3, MapInNewTableIInv
  <2> QED  BY <2>1, <2>2, <2>3 DEF GrowPage
<1> QED  BY <1>4, <1>5, PartsNext

(***************************************************************************)
(* What a turn that gives up does to memory: one page of the heap is       *)
(* unmapped, the table it leaves without entries is released, and so is    *)
(* block 0.                                                                *)
(***************************************************************************)
LEMMA GiveUpEffect ==
    ASSUME IInv, call # Idle, GiveUpMapped, NEW page, page = call.frame
    PROVE  /\ ptab' = [ptab EXCEPT ![page] = Empty]
           /\ mbmp' \subseteq Bit /\ used_blocks' \in UInt
           /\ \/ /\ pdir' = pdir
                 /\ mbmp \ {0} \subseteq mbmp'
              \/ /\ pdir[TableOf(page)] # NoTable
                 /\ pdir' = [pdir EXCEPT ![TableOf(page)] = NoTable]
                 /\ \A p \in PagesOf(TableOf(page)) : p # page => ptab[p] = Empty
                 /\ mbmp \ {0, pdir[TableOf(page)]} \subseteq mbmp'
<1> PICK table : table = UnmappedTable(call.frame)
  OBVIOUS
<1> PICK m, u : /\ m = IF table = NoTable THEN mbmp ELSE BitmapAfterDeallocate(mbmp, table)
                /\ u = IF table = NoTable THEN used_blocks
                       ELSE UsedAfterDeallocate(mbmp, used_blocks, table)
  OBVIOUS
<1>1. /\ ptab' = [ptab EXCEPT ![page] = Empty]
      /\ pdir' = IF table = NoTable THEN pdir ELSE [pdir EXCEPT ![TableOf(page)] = NoTable]
      /\ mbmp' = BitmapAfterDeallocate(m, FlagsBlock)
      /\ used_blocks' = UsedAfterDeallocate(m, u, FlagsBlock)
  BY DEF GiveUpMapped
<1>2. mbmp \in SUBSET Bit /\ used_blocks \in UInt
  BY DEF IInv, TypeOK
<1>3. m \in SUBSET Bit /\ u \in UInt
  BY <1>2, BitmapTypes, CounterTypes
<1>4. mbmp' \subseteq Bit /\ used_blocks' \in UInt
  BY <1>1, <1>3, BitmapTypes, CounterTypes
<1>5. m \ {0} \subseteq mbmp' /\ mbmp \ {table} \subseteq m /\ (table = NoTable => m = mbmp)
  BY <1>1 DEF BitmapAfterDeallocate, FlagsBlock
<1>6. table # NoTable =>
          /\ table = pdir[TableOf(page)]
          /\ \A p \in PagesOf(TableOf(page)) : p # page => ptab[p] = Empty
  BY DEF UnmappedTable, LastInTable
<1> QED  BY <1>1, <1>4, <1>5, <1>6

LEMMA GiveUpIInv == ASSUME IInv, GiveUp PROVE IInv'
<1>1. call # Idle
  BY TurnsLeft DEF GiveUp
<1>2. CallType' /\ CallInv'
  <2>1. Idle \in Call
    BY NullAddress DEF Idle, Call, NULL
  <2> QED
    BY <2>1 DEF GiveUp, Fail, IInv, TypeOK, CallType, CallInv, CallInRange, BreakInHeap
<1>3. CASE GiveUpUnmapped
  BY <1>2, <1>3, MemoryUnchanged, PartsNext DEF GiveUpUnmapped
<1>4. CASE GiveUpMapped
  <2> PICK page : page = call.frame
    OBVIOUS
  <2>1. page \in Page \ BootPage /\ TableOf(page) \in Table
    BY <1>1, FrameInHeap
  <2>2. /\ ptab' = [ptab EXCEPT ![page] = Empty]
        /\ mbmp' \subseteq Bit /\ used_blocks' \in UInt
        /\ \/ /\ pdir' = pdir
              /\ mbmp \ {0} \subseteq mbmp'
           \/ /\ pdir[TableOf(page)] # NoTable
              /\ pdir' = [pdir EXCEPT ![TableOf(page)] = NoTable]
              /\ \A p \in PagesOf(TableOf(page)) : p # page => ptab[p] = Empty
              /\ mbmp \ {0, pdir[TableOf(page)]} \subseteq mbmp'
    BY <1>1, <1>4, GiveUpEffect
  <2>3. 0 \in Block /\ Block \subseteq Nat /\ Empty \notin Block /\ ~ (Empty > 0) /\ NoTable = 0
    BY BallocAssumption DEF Block, Empty, NoTable
  <2>4. \A p \in Page : ptab'[p] = IF p = page THEN Empty ELSE ptab[p]
    BY <2>1, <2>2 DEF IInv, TypeOK
  <2>5. MemoryType'
    BY <2>1, <2>2, <2>3 DEF IInv, TypeOK, MemoryType, Entry
  <2>6. EntriesHaveTables'
    BY <2>1, <2>2, <2>4 DEF IInv, TypeOK, EntriesHaveTables, PagesOf, Table
  <2>7. OneOwner'
    BY <2>1, <2>2, <2>3, <2>4 DEF IInv, TypeOK, OneOwner, HeapPage
  <2>8. NoTableSharing'
    <3>1. \A t \in Table : pdir'[t] = pdir[t] \/ pdir'[t] = NoTable
      BY <2>1, <2>2 DEF IInv, TypeOK
    <3>2. \A t \in Table : pdir'[t] # NoTable => pdir'[t] \in mbmp'
      BY <2>1, <2>2, <2>3 DEF IInv, TypeOK, NoTableSharing
    <3>3. \A t \in Table : pdir[t] # NoTable => pdir[t] # Empty
      BY <2>3 DEF IInv, TypeOK
    <3> QED  BY <2>4, <3>1, <3>2, <3>3 DEF IInv, NoTableSharing
  <2>9. BootPagesKept'
    <3>1. \A p \in BootPage : p \in Page /\ ptab'[p] = ptab[p]
      BY <2>1, <2>4 DEF BootPage
    <3>2. \A p \in BootPage : pdir[TableOf(page)] # NoTable => ptab[p] # pdir[TableOf(page)]
      BY <2>1, <3>1 DEF IInv, NoTableSharing
    <3>3. \A p \in BootPage : ptab[p] \in mbmp' \cup {0}
      BY <2>2, <3>2 DEF IInv, BootPagesKept
    <3> QED  BY <3>1, <3>3 DEF IInv, BootPagesKept
  <2> QED  BY <1>2, <2>5, <2>6, <2>7, <2>8, <2>9, PartsNext DEF MemoryInv
<1> QED  BY <1>3, <1>4 DEF GiveUp

-------------------------------------------------------------------------------
LEMMA NextIInv == IInv /\ [Next]_vars => IInv'
<1> SUFFICES ASSUME IInv, [Next]_vars PROVE IInv'
  OBVIOUS
<1>1. CASE SetBase
  BY <1>1, SetBaseIInv
<1>2. ASSUME NEW addr \in Targets, Brk(addr) PROVE IInv'
  BY <1>2, BrkIInv
<1>3. ASSUME NEW inc \in Increments, Sbrk(inc) PROVE IInv'
  BY <1>3, SbrkIInv
<1>4. CASE GrowPage
  BY <1>4, GrowPageIInv
<1>5. CASE GiveUp
  BY <1>5, GiveUpIInv
<1>6. CASE Finish
  BY <1>6, FinishIInv
<1>7. CASE UNCHANGED vars
  <2>1. UNCHANGED <<mbmp, used_blocks, pdir, ptab>> /\ UNCHANGED memoryVars
    BY <1>7 DEF vars, memoryVars
  <2> QED
    BY <2>1 DEF memoryVars, IInv, TypeOK, CallInRange, BreakInHeap, EntriesHaveTables, OneOwner,
        NoTableSharing, BootPagesKept, NextFrame
<1> QED  BY <1>1, <1>2, <1>3, <1>4, <1>5, <1>6, <1>7 DEF Next, Grow

(***************************************************************************)
(* The inductive invariant holds of every state, whatever memory there is  *)
(* and however often it has run out.                                       *)
(***************************************************************************)
THEOREM Invariance == Spec => []IInv
BY InitIInv, NextIInv, PTL DEF Spec

THEOREM TypeCorrect == Spec => []TypeOK
<1>1. IInv => TypeOK
  BY DEF IInv
<1> QED  BY <1>1, Invariance, PTL

(***************************************************************************)
(* Garbage entries are nowhere but in tables that were not cleared when    *)
(* pagemngr_map_block took them: no other step writes one.                 *)
(***************************************************************************)
LEMMA NewTableGarbage ==
    ASSUME IInv, GarbageConfined, NEW m, NEW u, NEW block \in Block, NEW page \in Page,
           MapInNewTable(m, u, block, page)
    PROVE  GarbageConfined'
<1> SUFFICES ASSUME NEW q \in Page, ptab'[q] = Junk PROVE pdir'[TableOf(q)] \in Dirty
  BY DEF GarbageConfined, NotCleared
<1>1. /\ pdir \in [Table -> Block] /\ TableOf(q) \in Table /\ TableOf(page) \in Table
      /\ block # Junk /\ Empty # Junk
  BY BallocAssumption DEF IInv, TypeOK, Table, Block, Junk, Empty
<1> PICK fresh \in FreshTables(FirstFree(m), TableOf(page)) :
           ptab' = [p \in Page |->
                       IF p \notin PagesOf(TableOf(page)) THEN ptab[p]
                       ELSE IF p = page /\ fresh[p] = Empty THEN block
                       ELSE fresh[p]]
  BY DEF MapInNewTable
<1>2. CASE TableOf(q) = TableOf(page)
  <2>1. q \in PagesOf(TableOf(page))
    BY <1>2 DEF PagesOf
  <2>2. fresh[q] = Junk
    BY <1>1, <2>1
  <2>3. FirstFree(m) \in Dirty
    BY <1>1, <2>1, <2>2 DEF FreshTables
  <2> QED  BY <1>1, <1>2, <2>3 DEF MapInNewTable
<1>3. CASE TableOf(q) # TableOf(page)
  <2>1. ptab[q] = Junk
    BY <1>3 DEF PagesOf
  <2>2. pdir'[TableOf(q)] = pdir[TableOf(q)]
    BY <1>1, <1>3 DEF MapInNewTable
  <2> QED  BY <2>1, <2>2 DEF GarbageConfined, NotCleared
<1> QED  BY <1>2, <1>3

LEMMA GrowPageGarbage == ASSUME IInv, GarbageConfined, GrowPage PROVE GarbageConfined'
<1> PICK m, u, block : /\ m = BitmapAfterAllocate(mbmp)
                       /\ u = UsedAfterAllocate(mbmp, used_blocks)
                       /\ block = FirstFree(mbmp)
  OBVIOUS
<1>1. \/ MapInTable(m, u, block, call.frame)
      \/ MapTaken(m, u, call.frame)
      \/ MapWithoutTable(m, u, call.frame)
      \/ MapInNewTable(m, u, block, call.frame)
  BY DEF GrowPage
<1>2. block \in Block /\ call.frame \in Page /\ ptab \in [Page -> Entry] /\ block # Junk
  <2>1. block \in Block
    BY TurnAllocation DEF IInv, TypeOK
  <2>2. call.frame \in Page
    BY TurnsLeft, FrameInHeap DEF GrowPage
  <2> QED  BY <2>1, <2>2, BallocAssumption DEF IInv, TypeOK, Block, Junk
<1>3. CASE MapInTable(m, u, block, call.frame)
  BY <1>2, <1>3 DEF MapInTable, GarbageConfined, NotCleared
<1>4. CASE MapTaken(m, u, call.frame) \/ MapWithoutTable(m, u, call.frame)
  BY <1>4 DEF MapTaken, MapWithoutTable, GarbageConfined, NotCleared
<1>5. CASE MapInNewTable(m, u, block, call.frame)
  BY <1>2, <1>5, NewTableGarbage
<1> QED  BY <1>1, <1>3, <1>4, <1>5

LEMMA GiveUpGarbage == ASSUME IInv, GarbageConfined, GiveUp PROVE GarbageConfined'
<1>1. CASE GiveUpUnmapped
  BY <1>1 DEF GiveUpUnmapped, GarbageConfined, NotCleared
<1>2. CASE GiveUpMapped
  <2> PICK page : page = call.frame
    OBVIOUS
  <2>1. call # Idle
    BY TurnsLeft DEF GiveUp
  <2>2. page \in Page /\ TableOf(page) \in Table
    BY <2>1, FrameInHeap
  <2> SUFFICES ASSUME NEW q \in Page, ptab'[q] = Junk PROVE pdir'[TableOf(q)] \in Dirty
    BY DEF GarbageConfined, NotCleared
  <2>3. ptab \in [Page -> Entry] /\ pdir \in [Table -> Block] /\ Junk # Empty
    BY DEF IInv, TypeOK, Junk, Empty
  <2>4. /\ ptab' = [ptab EXCEPT ![page] = Empty]
        /\ \/ pdir' = pdir
           \/ /\ pdir' = [pdir EXCEPT ![TableOf(page)] = NoTable]
              /\ \A p \in PagesOf(TableOf(page)) : p # page => ptab[p] = Empty
    BY <1>2, <2>1, GiveUpEffect
  <2>5. q # page /\ ptab[q] = Junk
    BY <2>2, <2>3, <2>4
  <2>6. pdir'[TableOf(q)] = pdir[TableOf(q)]
    <3>1. CASE TableOf(q) = TableOf(page)
      <4>1. q \in PagesOf(TableOf(page))
        BY <3>1 DEF PagesOf
      <4> QED  BY <2>3, <2>4, <2>5, <4>1
    <3>2. CASE TableOf(q) # TableOf(page)
      <4>1. TableOf(q) \in Table
        BY DEF Table
      <4> QED  BY <2>2, <2>3, <2>4, <3>2, <4>1
    <3> QED  BY <3>1, <3>2
  <2> QED  BY <2>5, <2>6 DEF GarbageConfined, NotCleared
<1> QED  BY <1>1, <1>2 DEF GiveUp

LEMMA GarbageStaysConfined == Spec => []GarbageConfined
<1>1. Init => GarbageConfined
  <2> SUFFICES ASSUME Init, NEW p \in Page PROVE ptab[p] # Junk
    BY DEF GarbageConfined
  <2> QED  BY KernelMemoryAssumption, BallocAssumption DEF Init, Block, Empty, Junk
<1>2. IInv /\ GarbageConfined /\ [Next]_vars => GarbageConfined'
  <2> SUFFICES ASSUME IInv, GarbageConfined, [Next]_vars PROVE GarbageConfined'
    OBVIOUS
  <2>1. CASE UNCHANGED <<pdir, ptab>>
    BY <2>1 DEF GarbageConfined, NotCleared
  <2>2. GrowPage \/ GiveUp \/ UNCHANGED <<pdir, ptab>>
    BY DEF Next, Grow, SetBase, Brk, Sbrk, Begin, Finish, vars
  <2> QED  BY <2>1, <2>2, GrowPageGarbage, GiveUpGarbage
<1> QED  BY <1>1, <1>2, Invariance, PTL DEF Spec

(***************************************************************************)
(* The block pagemngr_map_block put behind a heap page is marked, is no    *)
(* page table, and is reached through no other page, unless through a      *)
(* garbage entry of a table that was not cleared.                          *)
(***************************************************************************)
THEOREM Unshared == Spec => []NoSharing
<1>1. IInv /\ GarbageConfined => NoSharing
  BY DEF IInv, OneOwner, GarbageConfined, NoSharing, MayReach
<1> QED  BY <1>1, Invariance, GarbageStaysConfined, PTL

-------------------------------------------------------------------------------
(***************************************************************************)
(* The loop works above the break: the page it maps or unmaps is neither   *)
(* one the boot code mapped nor one of the heap up to the break.           *)
(***************************************************************************)
LEMMA FrameNotInUse ==
    ASSUME IInv, call # Idle
    PROVE  ~ InUse(call.frame)
<1>1. call.frame \notin BootPage
  BY FrameInHeap
<1>2. brk # NULL => PageOf(brk) \in Nat /\ call.i \in Nat /\ call.frame = call.i + PageOf(brk) + 1
  BY PageOfAddress DEF IInv, TypeOK, Call, CallInRange, NextFrame
<1>3. brk # NULL => call.frame > PageOf(brk)
  BY <1>2
<1> QED  BY <1>1, <1>2, <1>3, KernelMemoryAssumption, PageOfAddress DEF InUse, BasePage

(***************************************************************************)
(* Data does not move: no turn of a call, of one that fails or one that    *)
(* succeeds, changes the backing of a mapped page of the heap up to the    *)
(* break or of a page the boot code mapped.                                *)
(***************************************************************************)
THEOREM DataStays == Spec => StableBacking
<1> DEFINE Stable == \A p \in Page : InUse(p) /\ ptab[p] # Empty => ptab'[p] = ptab[p]
<1>1. ASSUME IInv, GrowPage PROVE Stable
  <2> SUFFICES ASSUME NEW p \in Page, InUse(p), ptab[p] # Empty PROVE ptab'[p] = ptab[p]
    OBVIOUS
  <2>1. call # Idle
    BY <1>1, TurnsLeft DEF GrowPage
  <2>2. p # call.frame
    BY <1>1, <2>1, FrameNotInUse
  <2>3. pdir[TableOf(p)] # NoTable
    BY <1>1 DEF IInv, EntriesHaveTables
  <2>4. ptab \in [Page -> Entry]
    BY <1>1 DEF IInv, TypeOK
  <2> QED
    BY <1>1, <2>2, <2>3, <2>4
    DEF GrowPage, MapInTable, MapTaken, MapWithoutTable, MapInNewTable, PagesOf
<1>2. ASSUME IInv, GiveUp PROVE Stable
  <2>1. call # Idle
    BY <1>2, TurnsLeft DEF GiveUp
  <2>2. \A p \in Page : InUse(p) => p # call.frame
    BY <1>2, <2>1, FrameNotInUse
  <2> QED
    BY <1>2, <2>2 DEF GiveUp, GiveUpMapped, GiveUpUnmapped, IInv, TypeOK
<1>3. ASSUME IInv, Next PROVE Stable
  <2>1. CASE SetBase
    BY <2>1 DEF SetBase
  <2>2. CASE \E addr \in Targets : Brk(addr)
    BY <2>2 DEF Brk, Begin
  <2>3. CASE \E inc \in Increments : Sbrk(inc)
    BY <2>3 DEF Sbrk, Begin
  <2>4. CASE Finish
    BY <2>4 DEF Finish
  <2> QED  BY <1>1, <1>2, <1>3, <2>1, <2>2, <2>3, <2>4 DEF Next, Grow
<1>4. IInv /\ [Next]_vars => [Stable]_vars
  BY <1>3
<1> QED  BY <1>4, Invariance, PTL DEF Spec, StableBacking

-------------------------------------------------------------------------------
(***************************************************************************)
(* One step allocates at most two blocks (a page and its table), or        *)
(* releases at most two (a table and block 0).                             *)
(***************************************************************************)
LEMMA CounterArithmetic ==
    ASSUME NEW n \in UInt, NEW k \in Nat
    PROVE  /\ SameModulo(n - n, k - k)
           /\ SameModulo(Incr(n) - n, (k + 1) - k)
           /\ SameModulo(Incr(Incr(n)) - n, (k + 2) - k)
           /\ SameModulo(Decr(n) - n, k - (k + 1))
           /\ SameModulo(Decr(Decr(n)) - n, k - (k + 2))
BY BallocAssumption DEF UInt, Incr, Decr, SameModulo

LEMMA TwoAllocations ==
    ASSUME NEW m1, NEW u1, IInv,
           m1 = BitmapAfterAllocate(mbmp), u1 = UsedAfterAllocate(mbmp, used_blocks),
           \/ mbmp' = m1 /\ used_blocks' = u1
           \/ mbmp' = BitmapAfterAllocate(m1) /\ used_blocks' = UsedAfterAllocate(m1, u1)
    PROVE  SameModulo(used_blocks' - used_blocks, Cardinality(mbmp') - Cardinality(mbmp))
<1>1. mbmp \in SUBSET Bit /\ used_blocks \in UInt /\ m1 \in SUBSET Bit /\ u1 \in UInt
  BY BitmapTypes, CounterTypes DEF IInv, TypeOK
<1>2. Cardinality(mbmp) \in Nat /\ Cardinality(m1) \in Nat
  BY <1>1, BitmapFinite
<1>3. \/ u1 = Incr(used_blocks) /\ Cardinality(m1) = Cardinality(mbmp) + 1
      \/ u1 = used_blocks /\ Cardinality(m1) = Cardinality(mbmp)
  BY <1>1, AllocateCounts
<1>4. \/ used_blocks' = Incr(u1) /\ Cardinality(mbmp') = Cardinality(m1) + 1
      \/ used_blocks' = u1 /\ Cardinality(mbmp') = Cardinality(m1)
  BY <1>1, AllocateCounts
<1>5. \/ used_blocks' = used_blocks /\ Cardinality(mbmp') = Cardinality(mbmp)
      \/ used_blocks' = Incr(used_blocks) /\ Cardinality(mbmp') = Cardinality(mbmp) + 1
      \/ used_blocks' = Incr(Incr(used_blocks)) /\ Cardinality(mbmp') = Cardinality(mbmp) + 2
  BY <1>2, <1>3, <1>4
<1> QED  BY <1>1, <1>2, <1>5, CounterArithmetic

LEMMA TwoReleases ==
    ASSUME NEW m1, NEW u1, NEW b, NEW c, IInv,
           \/ m1 = mbmp /\ u1 = used_blocks
           \/ m1 = BitmapAfterDeallocate(mbmp, b) /\ u1 = UsedAfterDeallocate(mbmp, used_blocks, b),
           mbmp' = BitmapAfterDeallocate(m1, c), used_blocks' = UsedAfterDeallocate(m1, u1, c)
    PROVE  SameModulo(used_blocks' - used_blocks, Cardinality(mbmp') - Cardinality(mbmp))
<1>1. mbmp \in SUBSET Bit /\ used_blocks \in UInt /\ m1 \in SUBSET Bit /\ u1 \in UInt
  BY BitmapTypes, CounterTypes DEF IInv, TypeOK
<1>2. mbmp' \in SUBSET Bit
  BY <1>1, BitmapTypes
<1>3. Cardinality(mbmp) \in Nat /\ Cardinality(m1) \in Nat /\ Cardinality(mbmp') \in Nat
  BY <1>1, <1>2, BitmapFinite
<1>4. \/ u1 = Decr(used_blocks) /\ Cardinality(mbmp) = Cardinality(m1) + 1
      \/ u1 = used_blocks /\ Cardinality(mbmp) = Cardinality(m1)
  BY <1>1, DeallocateCounts
<1>5. \/ used_blocks' = Decr(u1) /\ Cardinality(m1) = Cardinality(mbmp') + 1
      \/ used_blocks' = u1 /\ Cardinality(m1) = Cardinality(mbmp')
  BY <1>1, DeallocateCounts
<1>6. \/ used_blocks' = used_blocks /\ Cardinality(mbmp) = Cardinality(mbmp')
      \/ used_blocks' = Decr(used_blocks) /\ Cardinality(mbmp) = Cardinality(mbmp') + 1
      \/ used_blocks' = Decr(Decr(used_blocks)) /\ Cardinality(mbmp) = Cardinality(mbmp') + 2
  BY <1>3, <1>4, <1>5
<1> QED  BY <1>1, <1>3, <1>6, CounterArithmetic

(***************************************************************************)
(* The allocator's counter stays in step with its bitmap through every     *)
(* path of brk and sbrk, though a step may allocate or release twice.      *)
(***************************************************************************)
THEOREM CounterCorrect == Spec => CounterFollowsBitmap
<1> DEFINE Agrees ==
        SameModulo(used_blocks' - used_blocks, Cardinality(mbmp') - Cardinality(mbmp))
<1>1. ASSUME IInv, UNCHANGED <<mbmp, used_blocks>> PROVE Agrees
  BY <1>1, BitmapFinite, CounterArithmetic DEF IInv, TypeOK
<1>2. ASSUME IInv, GrowPage PROVE Agrees
  BY <1>2, TwoAllocations
  DEF GrowPage, MapInTable, MapTaken, MapWithoutTable, MapInNewTable
<1>3. ASSUME IInv, GiveUpMapped PROVE Agrees
  <2> PICK table : table = UnmappedTable(call.frame)
    OBVIOUS
  <2> PICK m, u : /\ m = IF table = NoTable THEN mbmp ELSE BitmapAfterDeallocate(mbmp, table)
                  /\ u = IF table = NoTable THEN used_blocks
                         ELSE UsedAfterDeallocate(mbmp, used_blocks, table)
    OBVIOUS
  <2>1. mbmp' = BitmapAfterDeallocate(m, FlagsBlock)
        /\ used_blocks' = UsedAfterDeallocate(m, u, FlagsBlock)
    BY <1>3 DEF GiveUpMapped
  <2> QED  BY <1>3, <2>1, TwoReleases
<1>4. IInv /\ Next => Agrees
  BY <1>1, <1>2, <1>3
  DEF Next, Grow, SetBase, Brk, Sbrk, Begin, GiveUp, GiveUpUnmapped, Finish
<1>5. IInv /\ [Next]_vars => [Agrees]_vars
  BY <1>4
<1> QED  BY <1>5, Invariance, PTL DEF Spec, CounterFollowsBitmap

-------------------------------------------------------------------------------
(***************************************************************************)
(* As long as memory lasts: no allocation ever finds the bitmap full, new  *)
(* page tables hold zeros, and no call moves the break back to an earlier  *)
(* page.  Then the pages below the loop's next frame are backed, those     *)
(* from it on are empty, and no block is lost.                             *)
(***************************************************************************)
MemoryLasts == ~ OutOfMemory

CleanAndForward == Dirty = {} /\ ~ Backward

Front == IF call = Idle THEN NextFrame ELSE call.frame

BackedBelowFront ==
    \A p \in BasePage..HeapTop : IF p < Front THEN ptab[p] > 0 ELSE ptab[p] = Empty

\* the turns of a call end at the page after the one its break will be in
EndsAfterBreak ==
    call # Idle =>
        /\ call.n \in Nat
        /\ NextFrame + call.n = PageOf(call.addr) + 1

PlentyInv == BackedBelowFront /\ EndsAfterBreak /\ NoLeak

LEMMA NextFrameInHeap ==
    ASSUME IInv
    PROVE  /\ BasePage \in Nat /\ NextFrame \in Nat /\ HeapTop \in Nat
           /\ BasePage <= NextFrame /\ NextFrame <= HeapTop
           /\ brk \in Address
<1>1. BasePage \in Nat /\ HeapTop \in Nat /\ BasePage <= HeapTop /\ brk \in Address
  BY PageOfAddress, KernelMemoryAssumption DEF BasePage, Page, IInv, TypeOK
<1>2. brk # NULL => /\ PageOf(brk) \in Nat /\ PageOf(brk) < HeapTop
                    /\ BasePage <= PageOf(brk)
  BY <1>1, PageOfAddress, PageOfMonotone, KernelMemoryAssumption DEF IInv, BreakInHeap, BasePage
<1> QED  BY <1>1, <1>2 DEF NextFrame

(***************************************************************************)
(* The number of turns: without calls that go back, the unsigned           *)
(* subtraction of allocate_new_brk never wraps.                            *)
(***************************************************************************)
LEMMA TurnsAsked ==
    ASSUME IInv, NEW addr \in Address, addr >= HeapBase, PageOf(addr) < HeapTop,
           brk # NULL => PageOf(addr) > PageOf(brk)
    PROVE  NextFrame + (IF brk = NULL THEN FreshCount(addr) ELSE MoreCount(addr, brk))
               = PageOf(addr) + 1
<1>1. /\ PageOf(addr) \in Nat /\ PageOf(addr) < HeapTop /\ BasePage \in Nat
      /\ NumPages \in Nat /\ HeapTop < NumPages /\ HeapTop \in Nat
  BY PageOfAddress, NextFrameInHeap, KernelMemoryAssumption DEF Page
<1>2. CASE brk = NULL
  BY <1>1, <1>2 DEF NextFrame, FreshCount
<1>3. CASE brk # NULL
  <2>1. PageOf(brk) \in Nat
    BY NextFrameInHeap, PageOfAddress
  <2> DEFINE pages == PageOf(addr) + 1 - PageOf(brk)
  <2>2. pages \in 0..(NumPages - 1) /\ pages >= 2
    BY <1>1, <1>3, <2>1
  <2>3. pages % NumPages = pages
    BY <1>1, <2>2
  <2>4. MoreCount(addr, brk) = pages - 1
    BY <2>2, <2>3 DEF MoreCount
  <2> QED  BY <1>1, <1>3, <2>1, <2>4 DEF NextFrame
<1> QED  BY <1>2, <1>3

LEMMA InitPlenty == Init => PlentyInv
<1> SUFFICES ASSUME Init PROVE PlentyInv
  OBVIOUS
<1>1. IInv
  BY InitIInv
<1>2. NextFrame = BasePage /\ call = Idle /\ ptab = InitMap /\ mbmp = InitBitmap
  BY DEF Init, BallocInit, NextFrame
<1>3. BackedBelowFront
  BY <1>1, <1>2, NextFrameInHeap, BootAssumption DEF BackedBelowFront, Front
<1> QED  BY <1>2, <1>3 DEF PlentyInv, EndsAfterBreak, NoLeak

LEMMA MemoryUnchangedNoLeak ==
    ASSUME NoLeak, UNCHANGED <<mbmp, pdir, ptab>>
    PROVE  NoLeak'
BY DEF NoLeak

LEMMA BeginPlenty ==
    ASSUME CleanAndForward, IInv, PlentyInv, NEW fn \in {"brk", "sbrk"}, NEW addr \in Address,
           Asks(addr), Begin(fn, addr)
    PROVE  PlentyInv'
<1>1. NoLeak'
  BY MemoryUnchangedNoLeak DEF PlentyInv, Begin
<1>2. /\ call = Idle /\ Front = NextFrame /\ ptab' = ptab
      /\ heap_base \in {NULL, HeapBase} /\ PageOf(addr) < HeapTop
  BY DEF Begin, Front, Asks, IInv, TypeOK
<1>3. CASE call' = Idle /\ NextFrame' = NextFrame
  BY <1>1, <1>2, <1>3 DEF PlentyInv, BackedBelowFront, EndsAfterBreak, Front
<1>4. CASE (heap_base = NULL /\ Fail(fn, EINVAL)) \/ (addr < heap_base /\ Fail(fn, ENOMEM))
  BY <1>3, <1>4 DEF Fail, NextFrame
<1>5. CASE SamePage(addr) /\ heap_base # NULL /\ addr >= heap_base /\ Succeed(fn, addr, brk)
  <2>1. addr # NULL
    BY <1>2, <1>5, KernelMemoryAssumption DEF NULL, Address
  <2> QED  BY <1>3, <1>5, <2>1 DEF Succeed, NextFrame, SamePage
<1>6. ASSUME ~ SamePage(addr), heap_base # NULL, addr >= heap_base,
             call' = [fn |-> fn, addr |-> addr, old |-> brk, i |-> 0, frame |-> NextFrame,
                      n |-> IF brk = NULL THEN FreshCount(addr) ELSE MoreCount(addr, brk)],
             UNCHANGED <<heap_base, brk, errno, result>>
      PROVE  PlentyInv'
  <2>1. call' # Idle /\ call'.frame = NextFrame /\ call'.addr = addr /\ NextFrame' = NextFrame
    BY <1>6 DEF Idle, NextFrame
  <2>2. BackedBelowFront'
    BY <1>2, <2>1 DEF PlentyInv, BackedBelowFront, Front
  <2>3. addr >= HeapBase /\ brk \in Address
    BY <1>2, <1>6, NextFrameInHeap
  <2>4. brk # NULL => PageOf(addr) > PageOf(brk)
    <3>1. PageOf(addr) \in Nat /\ PageOf(brk) \in Nat
      BY <2>3, PageOfAddress
    <3>2. brk # NULL => PageOf(addr) >= PageOf(brk)
      <4>1. ~ (addr < heap_base)
        BY <1>2, <1>6, KernelMemoryAssumption DEF Address
      <4> QED  BY <4>1 DEF Asks, CleanAndForward
    <3> QED  BY <1>6, <3>1, <3>2 DEF SamePage
  <2>5. call'.n \in Nat
    BY <1>6, <2>3, Counts
  <2>6. NextFrame + call'.n = PageOf(addr) + 1
    BY <1>2, <1>6, <2>3, <2>4, TurnsAsked
  <2> QED  BY <1>1, <2>1, <2>2, <2>5, <2>6 DEF PlentyInv, EndsAfterBreak
<1> QED  BY <1>4, <1>5, <1>6 DEF Begin

(***************************************************************************)
(* A turn of the loop while memory lasts: the frame was empty and gets a   *)
(* block that nobody had, in a table that was there or in a new one.       *)
(***************************************************************************)
Backs(block) ==
    /\ call # Idle /\ call.frame \in BasePage..(HeapTop - 1)
    /\ call.frame \in HeapPage /\ TableOf(call.frame) \in Table
    /\ block \notin mbmp
    /\ ptab[call.frame] = Empty
    /\ ptab' = [ptab EXCEPT ![call.frame] = block]
    /\ \/ pdir' = pdir /\ mbmp' = mbmp \cup {block}
       \/ \E table \in Block :
              /\ pdir[TableOf(call.frame)] = NoTable
              /\ pdir' = [pdir EXCEPT ![TableOf(call.frame)] = table]
              /\ mbmp' = mbmp \cup {block, table}

LEMMA PlentyTurn ==
    ASSUME CleanAndForward, IInv, PlentyInv, MemoryLasts, MemoryLasts', GrowPage
    PROVE  \E block \in Block \ {0} : Backs(block)
<1> PICK m, u, block : /\ m = BitmapAfterAllocate(mbmp)
                       /\ u = UsedAfterAllocate(mbmp, used_blocks)
                       /\ block = FirstFree(mbmp)
  OBVIOUS
<1>1. call # Idle
  BY TurnsLeft DEF GrowPage
<1>2. /\ call.frame \in BasePage..HeapTop /\ call.frame < HeapTop
      /\ call.frame \in HeapPage /\ TableOf(call.frame) \in Table
  BY <1>1, FrameInHeap DEF GrowPage, HeapPage
<1>3. BasePage \in Nat /\ HeapTop \in Nat
  BY NextFrameInHeap
<1>4. ptab[call.frame] = Empty
  BY <1>1, <1>2, <1>3 DEF PlentyInv, BackedBelowFront, Front
<1>5. block \in Block \ {0} /\ block \notin mbmp /\ m = mbmp \cup {block}
  BY FirstFreeIsFree DEF MemoryLasts, OutOfMemory, NULL, BitmapAfterAllocate
<1>6. CASE MapInTable(m, u, block, call.frame)
  <2>1. Backs(block)
    BY <1>1, <1>2, <1>3, <1>4, <1>5, <1>6 DEF MapInTable, Backs
  <2> QED  BY <1>5, <2>1
<1>7. CASE MapTaken(m, u, call.frame)
  BY <1>4, <1>7 DEF MapTaken
<1>8. CASE MapWithoutTable(m, u, call.frame)
  BY <1>8 DEF MapWithoutTable, NoBlockForTable, MemoryLasts, OutOfMemory
<1>9. CASE MapInNewTable(m, u, block, call.frame)
  <2> PICK table : table = FirstFree(m)
    OBVIOUS
  <2>1. table \in Block /\ mbmp' = mbmp \cup {block, table}
    BY <1>5, <1>9, FirstFreeIsFree DEF MapInNewTable, BitmapAfterAllocate
  <2>2. pdir[TableOf(call.frame)] = NoTable /\ pdir' = [pdir EXCEPT ![TableOf(call.frame)] = table]
    BY <1>9 DEF MapInNewTable
  <2>3. PICK fresh \in FreshTables(table, TableOf(call.frame)) :
            ptab' = [p \in Page |->
                        IF p \notin PagesOf(TableOf(call.frame)) THEN ptab[p]
                        ELSE IF p = call.frame /\ fresh[p] = Empty THEN block
                        ELSE fresh[p]]
    BY <1>9 DEF MapInNewTable
  <2>4. \A p \in PagesOf(TableOf(call.frame)) : fresh[p] = Empty /\ ptab[p] = Empty
    BY <2>2, <2>3 DEF CleanAndForward, FreshTables, PagesOf, IInv, EntriesHaveTables
  <2>5. ptab' = [ptab EXCEPT ![call.frame] = block]
    BY <1>2, <2>3, <2>4 DEF HeapPage, PagesOf, IInv, TypeOK
  <2>6. Backs(block)
    <3>1. \E t \in Block :
              /\ pdir[TableOf(call.frame)] = NoTable
              /\ pdir' = [pdir EXCEPT ![TableOf(call.frame)] = t]
              /\ mbmp' = mbmp \cup {block, t}
      BY <2>1, <2>2, Zenon
    <3>2. call.frame \in BasePage..(HeapTop - 1)
      BY <1>2, <1>3
    <3> QED  BY <1>1, <1>2, <1>4, <1>5, <2>5, <3>1, <3>2, Zenon DEF Backs
  <2> QED  BY <1>5, <2>6
<1> QED  BY <1>6, <1>7, <1>8, <1>9 DEF GrowPage

LEMMA GrowPagePlenty ==
    ASSUME CleanAndForward, IInv, PlentyInv, MemoryLasts, MemoryLasts', GrowPage
    PROVE  PlentyInv'
<1>1. PICK block \in Block \ {0} : Backs(block)
  BY PlentyTurn
<1>2. /\ ptab \in [Page -> Entry] /\ pdir \in [Table -> Block] /\ call.frame \in Page
      /\ Block \subseteq Nat /\ Empty \notin Nat /\ block > 0 /\ NoTable = 0
      /\ BasePage..HeapTop \subseteq Page
  <2>1. ptab \in [Page -> Entry] /\ pdir \in [Table -> Block]
    BY DEF IInv, TypeOK
  <2>2. BasePage..HeapTop \subseteq Page
    <3>1. HeapTop \in Page /\ BasePage \in Nat
      BY KernelMemoryAssumption, NextFrameInHeap
    <3>2. NumPages \in Nat
      BY KernelMemoryAssumption
    <3> QED  BY <3>1, <3>2 DEF Page
  <2>3. call.frame \in Page
    BY <1>1 DEF Backs, HeapPage
  <2>4. Block \subseteq Nat /\ Empty \notin Nat /\ NoTable = 0
    BY BallocAssumption DEF Block, Empty, NoTable
  <2>5. block > 0
    BY <1>1, <2>4
  <2> QED  BY <2>1, <2>2, <2>3, <2>4, <2>5
<1>3. call' # Idle /\ call'.frame = call.frame + 1 /\ call'.n = call.n /\ call'.addr = call.addr
      /\ NextFrame' = NextFrame /\ call.frame \in Nat
  <2>1. call \in Call /\ call.i \in Nat
    BY DEF IInv, TypeOK, Call
  <2>2. call'.i = call.i + 1 /\ call'.frame = call.frame + 1 /\ call'.n = call.n /\ call'.addr = call.addr
    BY <2>1 DEF GrowPage, Advance, Call
  <2>3. call'.i # 0
    BY <2>1, <2>2
  <2> QED  BY <2>1, <2>2, <2>3 DEF GrowPage, NextFrame, Idle, Call
<1>4. BackedBelowFront'
  <2> SUFFICES ASSUME NEW p \in BasePage..HeapTop
               PROVE  IF p < call.frame + 1 THEN ptab'[p] > 0 ELSE ptab'[p] = Empty
    BY <1>3 DEF BackedBelowFront, Front
  <2>1. p \in Nat /\ p \in Page
    BY <1>2, NextFrameInHeap
  <2>2. CASE p = call.frame
    BY <1>1, <1>2, <1>3, <2>2 DEF Backs
  <2>3. CASE p # call.frame
    <3>1. ptab'[p] = ptab[p]
      BY <1>1, <1>2, <2>1, <2>3 DEF Backs
    <3>2. IF p < call.frame THEN ptab[p] > 0 ELSE ptab[p] = Empty
      BY <1>1 DEF Backs, PlentyInv, BackedBelowFront, Front
    <3>3. p < call.frame + 1 <=> p < call.frame
      BY <1>3, <2>1, <2>3
    <3> QED  BY <3>1, <3>2, <3>3
  <2> QED  BY <2>2, <2>3
<1>5. EndsAfterBreak'
  BY <1>1, <1>3 DEF Backs, PlentyInv, EndsAfterBreak
<1>6. NoLeak'
  <2> SUFFICES ASSUME NEW b \in (mbmp' \cap Block) \ InitBitmap
               PROVE  (\E p \in HeapPage : ptab'[p] = b) \/ (\E t \in Table : pdir'[t] = b)
    BY DEF NoLeak
  <2>1. b # 0 /\ b # Empty
    BY <1>2, KernelMemoryAssumption DEF HandedOver
  <2>2. CASE b = block
    BY <1>1, <1>2, <2>2 DEF Backs
  <2>3. CASE b \in mbmp
    <3>1. (\E p \in HeapPage : ptab[p] = b) \/ (\E t \in Table : pdir[t] = b)
      BY <2>3 DEF PlentyInv, NoLeak
    <3>2. \A p \in HeapPage : ptab[p] = b => ptab'[p] = b
      BY <1>1, <1>2, <2>1 DEF Backs
    <3>3. \A t \in Table : pdir[t] = b => pdir'[t] = b
      BY <1>1, <1>2, <2>1 DEF Backs
    <3> QED  BY <3>1, <3>2, <3>3
  <2>4. CASE b \notin mbmp /\ b # block
    BY <1>1, <1>2, <2>4 DEF Backs
  <2> QED  BY <2>2, <2>3, <2>4
<1> QED  BY <1>4, <1>5, <1>6 DEF PlentyInv

LEMMA FinishPlenty ==
    ASSUME IInv, PlentyInv, Finish
    PROVE  PlentyInv'
<1>1. NoLeak'
  BY MemoryUnchangedNoLeak DEF PlentyInv, Finish
<1>2. /\ call # Idle /\ call' = Idle /\ brk' = call.addr /\ ptab' = ptab
      /\ call.addr >= HeapBase /\ call.addr \in Address
      /\ call.frame = call.i + NextFrame /\ call.i = call.n
      /\ call.n \in Nat /\ NextFrame \in Nat
  BY NextFrameInHeap DEF Finish, Succeed, IInv, TypeOK, Call, CallInRange
<1>3. NextFrame' = PageOf(call.addr) + 1
  BY <1>2, KernelMemoryAssumption DEF NextFrame, NULL, Address
<1>4. call.frame = PageOf(call.addr) + 1
  BY <1>2 DEF PlentyInv, EndsAfterBreak
<1> QED
  BY <1>1, <1>2, <1>3, <1>4 DEF PlentyInv, BackedBelowFront, EndsAfterBreak, Front

LEMMA NextPlenty ==
    ASSUME CleanAndForward, IInv, PlentyInv, MemoryLasts, MemoryLasts', [Next]_vars
    PROVE  PlentyInv'
<1>1. CASE SetBase
  BY <1>1 DEF SetBase, PlentyInv, BackedBelowFront, EndsAfterBreak, NoLeak, Front, NextFrame
<1>2. ASSUME NEW addr \in Targets, Brk(addr) PROVE PlentyInv'
  BY <1>2, BeginPlenty, KernelMemoryAssumption DEF Brk
<1>3. ASSUME NEW inc \in Increments, Sbrk(inc) PROVE PlentyInv'
  <2>1. CASE inc = 0
    BY <1>3, <2>1
    DEF Sbrk, PlentyInv, BackedBelowFront, EndsAfterBreak, NoLeak, Front, NextFrame
  <2>2. CASE inc # 0
    <3>1. (brk + inc) % AddrSpace \in Address
      BY IncrementedIsAddress
    <3> QED  BY <1>3, <2>2, <3>1, BeginPlenty DEF Sbrk
  <2> QED  BY <2>1, <2>2
<1>4. CASE GrowPage
  BY <1>4, GrowPagePlenty
<1>5. CASE GiveUp
  BY <1>5 DEF GiveUp, GivesUp, MemoryLasts
<1>6. CASE Finish
  BY <1>6, FinishPlenty
<1>7. CASE UNCHANGED vars
  BY <1>7 DEF vars, PlentyInv, BackedBelowFront, EndsAfterBreak, NoLeak, Front, NextFrame
<1> QED  BY <1>1, <1>2, <1>3, <1>4, <1>5, <1>6, <1>7 DEF Next, Grow

(***************************************************************************)
(* As long as memory lasts, the pages of the heap are backed in order.     *)
(***************************************************************************)
THEOREM Plenty ==
    ASSUME CleanAndForward
    PROVE  Spec /\ []MemoryLasts => []PlentyInv
<1>1. IInv /\ PlentyInv /\ MemoryLasts /\ MemoryLasts' /\ [Next]_vars => PlentyInv'
  BY NextPlenty
<1> QED  BY <1>1, InitPlenty, Invariance, PTL DEF Spec

(***************************************************************************)
(* No block is lost: what an allocation marked is behind a page of the     *)
(* heap or is one of its tables.                                           *)
(***************************************************************************)
THEOREM NothingLeaks ==
    ASSUME CleanAndForward
    PROVE  Spec /\ []MemoryLasts => []NoLeak
<1>1. PlentyInv => NoLeak
  BY DEF PlentyInv
<1> QED  BY <1>1, Plenty, PTL

(***************************************************************************)
(* Between calls every page of the heap up to the break has a block.       *)
(***************************************************************************)
THEOREM AllBacked ==
    ASSUME CleanAndForward
    PROVE  Spec /\ []MemoryLasts => []HeapBacked
<1>1. IInv /\ PlentyInv => HeapBacked
  <2> SUFFICES ASSUME IInv, PlentyInv, call = Idle, brk # NULL, NEW p \in BasePage..PageOf(brk)
               PROVE  ptab[p] > 0
    BY DEF HeapBacked
  <2>1. p \in BasePage..HeapTop /\ p < Front
    BY NextFrameInHeap, PageOfAddress DEF IInv, BreakInHeap, Front, NextFrame
  <2> QED  BY <2>1 DEF PlentyInv, BackedBelowFront
<1> QED  BY <1>1, Plenty, Invariance, PTL

-------------------------------------------------------------------------------
(***************************************************************************)
(* The heap implements KernelHeap.  The backed pages of the abstract heap  *)
(* are those below the front.                                              *)
(***************************************************************************)
LEMMA FrontInHeap ==
    ASSUME IInv
    PROVE  /\ BasePage \in Nat /\ HeapTop \in Nat /\ Front \in Nat
           /\ BasePage <= Front /\ Front <= HeapTop
<1>1. CASE call = Idle
  BY <1>1, NextFrameInHeap DEF Front
<1>2. CASE call # Idle
  BY <1>2, FrameInHeap, NextFrameInHeap DEF Front
<1> QED  BY <1>1, <1>2

FramesBelowFront == [p \in BasePage..(Front - 1) |-> ptab[p]]

LEMMA BackedFrames == IInv /\ PlentyInv => HeapFrames = FramesBelowFront
<1> SUFFICES ASSUME IInv, PlentyInv PROVE HeapFrames = FramesBelowFront
  OBVIOUS
<1> DEFINE backed == {p \in BasePage..HeapTop : ptab[p] > 0}
<1>1. ~ (Empty > 0)
  BY DEF Empty
<1>2. \A p \in BasePage..HeapTop : ptab[p] > 0 <=> p < Front
  BY <1>1 DEF PlentyInv, BackedBelowFront
<1>3. backed = BasePage..(Front - 1)
  BY <1>2, FrontInHeap
<1>4. HeapFrames = [p \in backed |-> ptab[p]]
  BY DEF HeapFrames
<1> HIDE DEF backed
<1> QED  BY <1>3, <1>4 DEF FramesBelowFront

LEMMA InitHeap == Init => Heap!HeapInit
<1> SUFFICES ASSUME Init PROVE Heap!HeapInit
  OBVIOUS
<1>1. IInv /\ PlentyInv
  BY InitIInv, InitPlenty
<1>2. Front = BasePage /\ brk = NULL
  BY DEF Init, Front, NextFrame
<1>3. BasePage..(Front - 1) = {}
  BY <1>1, <1>2, FrontInHeap
<1>4. HeapFrames = [p \in {} |-> NULL]
  BY <1>1, <1>3, BackedFrames DEF FramesBelowFront
<1> QED  BY <1>2, <1>4 DEF Heap!HeapInit

LEMMA SetsBreak ==
    ASSUME IInv, PlentyInv, NEW addr \in Address, addr >= HeapBase, PageOf(addr) < Front,
           brk' = addr, ptab' = ptab
    PROVE  Heap!HeapNext
<1>1. HeapFrames' = HeapFrames
  BY DEF HeapFrames
<1>2. BasePage..PageOf(addr) \subseteq Heap!Backed
  BY BackedFrames, FrontInHeap, PageOfAddress DEF FramesBelowFront, Heap!Backed
<1>3. Heap!SetBreak(addr)
  BY <1>1, <1>2 DEF Heap!SetBreak
<1> QED  BY <1>3 DEF Heap!HeapNext

LEMMA GrowsHeap ==
    ASSUME CleanAndForward, IInv, IInv', PlentyInv, PlentyInv', MemoryLasts, MemoryLasts', GrowPage
    PROVE  Heap!HeapNext
<1>1. PICK block \in Block \ {0} : Backs(block)
  BY PlentyTurn
<1>2. Front = call.frame /\ Front' = Front + 1 /\ Front < HeapTop
  <2>1. call \in Call /\ call.i \in Nat /\ call # Idle
    BY <1>1 DEF Backs, IInv, TypeOK, Call
  <2>2. call'.i = call.i + 1 /\ call'.frame = call.frame + 1
    BY <2>1 DEF GrowPage, Advance, Call
  <2>3. call' # Idle
    BY <2>1, <2>2 DEF Idle
  <2> QED  BY <2>1, <2>2, <2>3 DEF Front, GrowPage
<1>3. /\ DOMAIN HeapFrames = BasePage..(Front - 1)
      /\ HeapFrames = [p \in BasePage..(Front - 1) |-> ptab[p]]
  BY BackedFrames DEF FramesBelowFront
<1>4. HeapFrames' = [p \in BasePage..Front |-> ptab'[p]]
  <2>1. (IInv /\ PlentyInv => HeapFrames = FramesBelowFront)'
    BY BackedFrames, PTL
  <2>2. Front' - 1 = Front
    BY <1>2, FrontInHeap
  <2> QED  BY <2>1, <2>2 DEF FramesBelowFront
<1>5. /\ BasePage \in Nat /\ HeapTop \in Nat /\ Front \in Nat /\ BasePage <= Front
      /\ ptab \in [Page -> Entry] /\ BasePage..HeapTop \subseteq Page
  BY FrontInHeap, KernelMemoryAssumption DEF IInv, TypeOK, Page
<1>6. \A p \in BasePage..Front : ptab'[p] = IF p = Front THEN block ELSE ptab[p]
  BY <1>1, <1>2, <1>5 DEF Backs
<1>7. \A p \in BasePage..(Front - 1) : HeapFrames[p] # block
  <2> SUFFICES ASSUME NEW p \in BasePage..(Front - 1), ptab[p] = block PROVE FALSE
    BY <1>3
  <2>1. Used(block)
    BY <1>2, <1>5 DEF Used
  <2> QED  BY <1>1, <2>1, UsedIsMarked DEF Backs
<1>8. HeapFrames' = [p \in BasePage..(Front - 1) \cup {Front} |->
                        IF p = Front THEN block ELSE HeapFrames[p]]
  <2>1. BasePage..Front = BasePage..(Front - 1) \cup {Front}
    BY <1>5
  <2>2. \A p \in BasePage..Front : ptab'[p] = IF p = Front THEN block ELSE HeapFrames[p]
    BY <1>3, <1>5, <1>6
  <2> QED  BY <1>4, <2>1, <2>2
<1>9. brk' = brk
  BY DEF GrowPage
<1>10. Front = IF Heap!Backed = {} THEN BasePage
               ELSE CHOOSE p \in BasePage..(HeapTop + 1) :
                        p \notin Heap!Backed /\ p - 1 \in Heap!Backed
  <2>1. Heap!Backed = BasePage..(Front - 1)
    BY <1>3 DEF Heap!Backed
  <2>2. CASE Front = BasePage
    BY <1>5, <2>1, <2>2
  <2>3. CASE Front # BasePage
    <3>1. BasePage \in Heap!Backed
      BY <1>5, <2>1, <2>3
    <3>2. /\ Front \in BasePage..(HeapTop + 1)
          /\ Front \notin Heap!Backed /\ Front - 1 \in Heap!Backed
      BY <1>2, <1>5, <2>1, <2>3
    <3>3. \A p \in BasePage..(HeapTop + 1) :
              p \notin Heap!Backed /\ p - 1 \in Heap!Backed => p = Front
      BY <1>5, <2>1
    <3>4. (CHOOSE p \in BasePage..(HeapTop + 1) :
                        p \notin Heap!Backed /\ p - 1 \in Heap!Backed) = Front
      BY <3>2, <3>3
    <3> QED  BY <3>1, <3>4
  <2> QED  BY <2>2, <2>3
<1>11. Heap!Back(block)
  <2>1. Heap!Backed = BasePage..(Front - 1)
    BY <1>3 DEF Heap!Backed
  <2>2. Front <= HeapTop
    BY <1>2, <1>5
  <2>3. \A p \in Heap!Backed : HeapFrames[p] # block
    BY <1>7, <2>1
  <2>4. HeapFrames' = [p \in Heap!Backed \cup {Front} |->
                          IF p = Front THEN block ELSE HeapFrames[p]]
    BY <1>8, <2>1
  <2> QED  BY <1>9, <1>10, <2>2, <2>3, <2>4, Zenon DEF Heap!Back
<1> QED  BY <1>11 DEF Heap!HeapNext

LEMMA FinishSetsBreak == ASSUME IInv, PlentyInv, Finish PROVE Heap!HeapNext
<1>1. /\ call # Idle /\ brk' = call.addr /\ ptab' = ptab
      /\ call.addr >= HeapBase /\ call.addr \in Address
      /\ call.frame = call.i + NextFrame /\ call.i = call.n
      /\ call.n \in Nat /\ NextFrame \in Nat
  BY NextFrameInHeap DEF Finish, Succeed, IInv, TypeOK, Call, CallInRange
<1>2. Front = PageOf(call.addr) + 1
  BY <1>1 DEF Front, PlentyInv, EndsAfterBreak
<1>3. PageOf(call.addr) < Front
  BY <1>1, <1>2, PageOfAddress
<1> QED  BY <1>1, <1>3, SetsBreak

LEMMA BeginHeap ==
    ASSUME IInv, PlentyInv, NEW fn, NEW addr \in Address, Begin(fn, addr)
    PROVE  [Heap!HeapNext]_<<brk, HeapFrames>>
<1>1. ptab' = ptab /\ HeapFrames' = HeapFrames
  BY DEF Begin, HeapFrames
<1>2. CASE UNCHANGED brk
  BY <1>1, <1>2
<1>3. CASE SamePage(addr) /\ heap_base # NULL /\ addr >= heap_base /\ Succeed(fn, addr, brk)
  <2>1. addr >= HeapBase
    BY <1>3 DEF IInv, TypeOK
  <2>2. PageOf(addr) < Front
    BY <1>3, NextFrameInHeap, PageOfAddress DEF Begin, SamePage, Front, NextFrame
  <2>3. brk' = addr
    BY <1>3 DEF Succeed
  <2> QED  BY <1>1, <2>1, <2>2, <2>3, SetsBreak
<1> QED  BY <1>2, <1>3 DEF Begin, Fail

LEMMA NextHeap ==
    ASSUME CleanAndForward, IInv, IInv', PlentyInv, PlentyInv', MemoryLasts, MemoryLasts',
           [Next]_vars
    PROVE  [Heap!HeapNext]_<<brk, HeapFrames>>
<1>1. CASE SetBase
  BY <1>1 DEF SetBase, HeapFrames
<1>2. ASSUME NEW addr \in Targets, Brk(addr) PROVE [Heap!HeapNext]_<<brk, HeapFrames>>
  BY <1>2, BeginHeap, KernelMemoryAssumption DEF Brk
<1>3. ASSUME NEW inc \in Increments, Sbrk(inc) PROVE [Heap!HeapNext]_<<brk, HeapFrames>>
  <2>1. CASE inc = 0
    BY <1>3, <2>1 DEF Sbrk, HeapFrames
  <2>2. CASE inc # 0
    <3>1. (brk + inc) % AddrSpace \in Address
      BY IncrementedIsAddress
    <3> QED  BY <1>3, <2>2, <3>1, BeginHeap DEF Sbrk
  <2> QED  BY <2>1, <2>2
<1>4. CASE GrowPage
  BY <1>4, GrowsHeap
<1>5. CASE GiveUp
  BY <1>5 DEF GiveUp, GivesUp, MemoryLasts
<1>6. CASE Finish
  BY <1>6, FinishSetsBreak
<1>7. CASE UNCHANGED vars
  BY <1>7 DEF vars, HeapFrames
<1> QED  BY <1>1, <1>2, <1>3, <1>4, <1>5, <1>6, <1>7 DEF Next, Grow

(***************************************************************************)
(* While memory lasts, brk and sbrk with the page mapper and the allocator *)
(* under them are nothing but a run of backed pages and a break in it.     *)
(***************************************************************************)
THEOREM HeapRefinement ==
    ASSUME CleanAndForward
    PROVE  Spec /\ []MemoryLasts => ImplementsHeap
<1>1. /\ IInv /\ IInv' /\ PlentyInv /\ PlentyInv' /\ MemoryLasts /\ MemoryLasts'
      /\ [Next]_vars
      => [Heap!HeapNext]_<<brk, HeapFrames>>
  BY NextHeap
<1> QED
  BY <1>1, InitHeap, Plenty, Invariance, PTL DEF Spec, ImplementsHeap, Heap!HeapSpec
===============================================================================
