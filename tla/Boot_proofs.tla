------------------------------ MODULE Boot_proofs ------------------------------
(***************************************************************************)
(* Proofs about the boot code, for every memory map, every structure the   *)
(* loader may leave, every size of memory and of the kernel, and whatever  *)
(* the loop reads where the map was written over.                          *)
(***************************************************************************)
EXTENDS Boot, WellFoundedInduction, FiniteSetTheorems, SequenceTheorems, TLAPS

(***************************************************************************)
(* A non-empty set of natural numbers has a least element: what first_free *)
(* finds is well defined.                                                  *)
(***************************************************************************)
LEMMA LeastElement ==
    ASSUME NEW S \in SUBSET Nat, S # {}
    PROVE  \E b \in S : \A c \in S : b <= c
<1> DEFINE Less == OpToRel(<, Nat)
<1>1. PICK b \in S : \A c \in S : ~ (<<c, b>> \in Less)
  <2>1. IsWellFoundedOn(Less, Nat)
    BY NatLessThanWellFounded
  <2> HIDE DEF Less
  <2> QED  BY <2>1, WFMin
<1>2. \A c \in S : ~ (c < b)
  BY <1>1 DEF OpToRel
<1> QED  BY <1>2

(***************************************************************************)
(* first_free returns NULL, or a block of memory whose bit is clear.       *)
(***************************************************************************)
LEMMA FirstFreeIsFree ==
    ASSUME NEW bitmap
    PROVE  FirstFree(bitmap) # NULL => FirstFree(bitmap) \in Block \ bitmap
<1>1. Scanned \subseteq Block /\ Block \subseteq Nat
  BY BallocAssumption DEF Scanned, Block
<1>2. CASE Scanned \subseteq bitmap
  BY <1>2 DEF FirstFree
<1>3. CASE ~ (Scanned \subseteq bitmap)
  <2>1. \E b \in Scanned \ bitmap : \A c \in Scanned \ bitmap : b <= c
    <3>1. Scanned \ bitmap \in SUBSET Nat /\ Scanned \ bitmap # {}
      BY <1>1, <1>3
    <3> QED  BY <3>1, LeastElement
  <2>2. FirstFree(bitmap) \in Scanned \ bitmap
    BY <1>3, <2>1 DEF FirstFree
  <2> QED  BY <1>1, <2>2
<1> QED  BY <1>2, <1>3

(***************************************************************************)
(* The inductive invariant.  That the blocks of the page structures are    *)
(* marked is what keeps the next allocation from finding them again, and   *)
(* that there are none while regions are freed is what keeps free_region   *)
(* from taking them away.                                                  *)
(***************************************************************************)
BitmapOK == mbmp \subseteq Bit /\ got \in [Structure -> Block]
GotMarked == \A x \in Structure : got[x] # NULL => got[x] \in mbmp
GotDistinct == \A x, y \in Structure : got[x] = got[y] /\ got[x] # NULL => x = y
NoneWhileFreeing == ~ Reserved => \A x \in Structure : got[x] = NULL

IInv == BitmapOK /\ GotMarked /\ GotDistinct /\ NoneWhileFreeing /\ KernelNeverHandedOut

LEMMA InitIInv == BootInit => IInv
<1> SUFFICES ASSUME BootInit PROVE IInv
  OBVIOUS
<1>1. mbmp = Bit /\ pc = "regions" /\ got = [x \in Structure |-> NULL]
  BY DEF BootInit, Init, BallocInit
<1>2. NULL \in Block
  BY BallocAssumption DEF NULL, Block
<1> QED
  BY <1>1, <1>2
  DEF IInv, BitmapOK, GotMarked, GotDistinct, NoneWhileFreeing, KernelNeverHandedOut, Reserved

(***************************************************************************)
(* A region is freed before anything is reserved or built.                 *)
(***************************************************************************)
LEMMA FreeRegionIInv ==
    ASSUME IInv, NEW region, FreeRegion(region)
    PROVE  IInv'
<1>1. pc = "regions" /\ pc' = pc /\ got' = got /\ mbmp' \subseteq mbmp
  BY DEF FreeRegion
<1> QED
  BY <1>1
  DEF IInv, BitmapOK, GotMarked, GotDistinct, NoneWhileFreeing, KernelNeverHandedOut, Reserved

LEMMA ReserveKernelIInv ==
    ASSUME IInv, ReserveKernel
    PROVE  IInv'
<1>1. pc = "regions" /\ got' = got /\ mbmp' = mbmp \cup 0..(LowBlocks - 1) \cup KernelBlocks
  BY DEF ReserveKernel
<1>2. 0..(LowBlocks - 1) \cup KernelBlocks = 0..(KernelEnd - 1)
  BY EarlyAssumption DEF KernelBlocks
<1>3. 0..(KernelEnd - 1) \subseteq Bit
  BY EarlyAssumption, BallocAssumption DEF Bit, Block
<1>4. \A x \in Structure : got[x] = NULL
  BY <1>1 DEF IInv, NoneWhileFreeing, Reserved
<1> QED
  BY <1>1, <1>2, <1>3, <1>4
  DEF IInv, BitmapOK, GotMarked, GotDistinct, NoneWhileFreeing, KernelNeverHandedOut

(***************************************************************************)
(* What first_free finds was not marked, so it is none of the kernel's     *)
(* blocks and none that a page structure has.                              *)
(***************************************************************************)
LEMMA BuildIInv ==
    ASSUME IInv, NEW x \in Structure, Build(x)
    PROVE  IInv'
<1> DEFINE new == FirstFree(mbmp)
<1>1. Reserved
  BY DEF Build, Reserved, Structure, Structures
<1>2. CASE new = NULL
  <2>1. mbmp' = mbmp /\ got' = got /\ Reserved'
    BY <1>2 DEF Build, Reserved
  <2> QED
    BY <1>1, <2>1
    DEF IInv, BitmapOK, GotMarked, GotDistinct, NoneWhileFreeing, KernelNeverHandedOut
<1>3. CASE new # NULL
  <2>1. new \in Block \ mbmp
    BY <1>3, FirstFreeIsFree
  <2>2. mbmp' = mbmp \cup {new} /\ got' = [got EXCEPT ![x] = new]
    BY <1>3 DEF Build
  <2>3. Reserved'
    BY <1>3 DEF Build, Reserved, After, Structures
  <2>4. 0..(KernelEnd - 1) \subseteq mbmp
    BY <1>1 DEF IInv, KernelNeverHandedOut
  <2>5. new >= KernelEnd
    BY <2>1, <2>4, EarlyAssumption, BallocAssumption DEF Block
  <2> HIDE DEF new
  <2>6. BitmapOK'
    BY <2>1, <2>2 DEF IInv, BitmapOK, Bit
  <2>7. GotMarked' /\ GotDistinct'
    BY <2>1, <2>2 DEF IInv, BitmapOK, GotMarked, GotDistinct
  <2>8. KernelNeverHandedOut'
    BY <1>1, <2>2, <2>5 DEF IInv, BitmapOK, KernelNeverHandedOut
  <2> QED
    BY <2>3, <2>6, <2>7, <2>8 DEF IInv, NoneWhileFreeing
<1> QED  BY <1>2, <1>3

LEMMA NextIInv == IInv /\ [BootNext]_bootVars => IInv'
<1> SUFFICES ASSUME IInv, [BootNext]_bootVars PROVE IInv'
  OBVIOUS
<1>1. CASE UNCHANGED <<mbmp, pc, got>>
  BY <1>1
  DEF IInv, BitmapOK, GotMarked, GotDistinct, NoneWhileFreeing, KernelNeverHandedOut, Reserved
<1>2. CASE LoaderStep
  BY <1>1, <1>2 DEF LoaderStep
<1>3. CASE FreeNextRegion
  BY <1>3, FreeRegionIInv DEF FreeNextRegion
<1>4. CASE AllocatorStep
  <2>1. CASE Handover
    BY <2>1
    DEF Handover, IInv, BitmapOK, GotMarked, GotDistinct, NoneWhileFreeing,
        KernelNeverHandedOut, Reserved
  <2> QED
    BY <1>4, <2>1, ReserveKernelIInv, BuildIInv DEF AllocatorStep
<1> QED
  BY <1>1, <1>2, <1>3, <1>4 DEF BootNext, bootVars, earlyVars

THEOREM Invariance == BootSpec => []IInv
<1>1. BootInit => IInv
  BY InitIInv
<1>2. IInv /\ [BootNext]_bootVars => IInv'
  BY NextIInv
<1> QED  BY <1>1, <1>2, PTL DEF BootSpec

(***************************************************************************)
(* The kernel and the first megabyte are never handed out                  *)
(* (kmemlow.c:105), whatever the memory map says.                          *)
(***************************************************************************)
THEOREM KernelSafe == BootSpec => []KernelNeverHandedOut
<1>1. IInv => KernelNeverHandedOut
  BY DEF IInv
<1> QED  BY <1>1, Invariance, PTL

(***************************************************************************)
(* The table that an entry of the page tables belongs to: the a-th table   *)
(* has the entries a*n to a*n + n-1.                                       *)
(***************************************************************************)
LEMMA TableOfEntry ==
    ASSUME NEW a \in Nat, NEW n \in Nat \ {0}, NEW b \in 0..(n - 1)
    PROVE  (a * n + b) \div n = a
<1>1. a * n \in Nat
  OBVIOUS
<1> QED  BY <1>1, SMTT(30)

(***************************************************************************)
(* Each table is found under its own entry of the page directory.          *)
(***************************************************************************)
LEMMA DirectoryFinds ==
    ASSUME NEW x \in StructureTables
    PROVE  /\ DirectoryEntry[x] \in 0..(EntriesPerTable - 1)
           /\ PageDirectory[DirectoryEntry[x]] = got[x]
<1>1. StructureTables = {"directory", "low_table", "kernel_table", "stack_table"}
  BY DEF StructureTables, Structure, Structures
<1>2. \A y \in StructureTables : DirectoryEntry[y] \in 0..(EntriesPerTable - 1)
  BY <1>1, EarlyAssumption DEF DirectoryEntry
<1>3. \A y, z \in StructureTables : DirectoryEntry[y] = DirectoryEntry[z] => y = z
  BY <1>1, EarlyAssumption DEF DirectoryEntry
<1>4. (CHOOSE y \in StructureTables : DirectoryEntry[y] = DirectoryEntry[x]) = x
  BY <1>3
<1>5. PageDirectory[DirectoryEntry[x]] = got[x]
  BY <1>2, <1>4 DEF PageDirectory
<1> QED  BY <1>2, <1>5

(***************************************************************************)
(* A page that is mapped has a table, and maps a marked block that is no   *)
(* table: one case for each table that maps pages.                         *)
(***************************************************************************)
LEMMA MappedHasTable ==
    ASSUME IInv, pc = "running", Complete,
           NEW p \in Page, PageTables[p] # Absent
    PROVE  /\ PageDirectory[p \div EntriesPerTable] # NULL
           /\ PageTables[p] \in mbmp \ {got[x] : x \in StructureTables}
<1> DEFINE table == p \div EntriesPerTable
<1>1. 0..(KernelEnd - 1) \subseteq mbmp /\ \A x \in Structure : got[x] \in Block /\ got[x] >= KernelEnd
  BY DEF IInv, KernelNeverHandedOut, Reserved, Complete, BitmapOK
<1>2. {"low_table", "kernel_table", "stack_table"} \subseteq StructureTables /\ "stack" \in Structure
      /\ StructureTables \subseteq Structure /\ "stack" \notin StructureTables
  BY DEF StructureTables, Structure, Structures
<1>3. ASSUME NEW x \in {"low_table", "kernel_table", "stack_table"}, table = DirectoryEntry[x]
      PROVE  PageDirectory[table] # NULL
  BY <1>2, <1>3, DirectoryFinds DEF Complete
<1>4. ASSUME NEW b \in 0..(KernelEnd - 1)
      PROVE  b \in mbmp \ {got[x] : x \in StructureTables}
  BY <1>1, <1>2, EarlyAssumption, BallocAssumption DEF Block
<1>5. CASE p < LowBlocks
  <2>1. p \in 0..(EntriesPerTable - 1) /\ p \in 0..(KernelEnd - 1)
    BY <1>5, EarlyAssumption DEF Page
  <2>2. table = 0
    BY <2>1, EarlyAssumption, TableOfEntry
  <2>3. PageTables[p] = p
    BY <1>5 DEF PageTables
  <2> QED  BY <1>3, <1>4, <2>1, <2>2, <2>3 DEF DirectoryEntry
<1>6. CASE ~ (p < LowBlocks) /\ p \in MappedKernel
  <2>1. PICK b \in LowBlocks..(KernelEnd - 1) : p = KernelPage(b)
    BY <1>6 DEF MappedKernel
  <2>2. b \in 0..(EntriesPerTable - 1) /\ b \in 0..(KernelEnd - 1)
    BY EarlyAssumption
  <2>3. table = KernelTable
    BY <2>1, <2>2, EarlyAssumption, TableOfEntry DEF KernelPage
  <2>4. KernelTable * EntriesPerTable \in Nat
    BY EarlyAssumption
  <2>5. PageTables[p] = b
    BY <1>6, <2>1, <2>2, <2>4 DEF PageTables, KernelPage
  <2> QED  BY <1>3, <1>4, <2>2, <2>3, <2>5 DEF DirectoryEntry
<1>7. CASE ~ (p < LowBlocks) /\ p \notin MappedKernel
  <2>1. p = StackPage /\ PageTables[p] = got["stack"]
    BY <1>7 DEF PageTables
  <2>2. StackPage = (EntriesPerTable - 2) * EntriesPerTable + (EntriesPerTable - 1)
    BY EarlyAssumption DEF StackPage
  <2>3. table = EntriesPerTable - 2
    BY <2>1, <2>2, EarlyAssumption, TableOfEntry
  <2>4. got["stack"] \in mbmp \ {got[x] : x \in StructureTables}
    BY <1>2 DEF IInv, GotMarked, GotDistinct, Complete
  <2> QED  BY <1>3, <2>1, <2>3, <2>4 DEF DirectoryEntry
<1> QED  BY <1>5, <1>6, <1>7

(***************************************************************************)
(* Between the heap's base and the stack nothing is mapped.                *)
(***************************************************************************)
LEMMA HeapUnmapped ==
    ASSUME Complete, NEW p \in HeapPageAtBoot..(StackPage - 1)
    PROVE  PageTables[p] = Absent
<1>1. KernelTable * EntriesPerTable \in Nat /\ EntriesPerTable * EntriesPerTable \in Nat
  BY EarlyAssumption
<1>2. HeapPageAtBoot = KernelTable * EntriesPerTable + KernelEnd
  BY DEF HeapPageAtBoot, Complete, Structure, Structures, KernelPage
<1>3. StackPage = EntriesPerTable * EntriesPerTable - EntriesPerTable - 1
  BY EarlyAssumption DEF StackPage
<1>4. p \in Page
  BY <1>1, <1>2, <1>3, EarlyAssumption DEF Page
<1>5. ~ (p < LowBlocks) /\ p \notin MappedKernel /\ p # StackPage
  BY <1>1, <1>2, <1>3, EarlyAssumption DEF MappedKernel, KernelPage
<1> QED  BY <1>4, <1>5 DEF PageTables

(***************************************************************************)
(* The boot code that gets all its page structures leaves what             *)
(* KernelMemory assumes of it.                                             *)
(***************************************************************************)
THEOREM ContractKept == BootSpec => []BootContract
<1>1. IInv => BootContract
  <2> SUFFICES ASSUME IInv, pc = "running", Complete PROVE BootContract
    BY DEF BootContract
  <2>1. 0..(KernelEnd - 1) \subseteq mbmp /\ \A x \in Structure : got[x] \in Block /\ got[x] >= KernelEnd
    BY DEF IInv, KernelNeverHandedOut, Reserved, Complete, BitmapOK
  <2>2. HandedOver(mbmp)
    BY <2>1, EarlyAssumption DEF HandedOver, IInv, BitmapOK
  <2>3. \A x \in Structure : got[x] \in mbmp /\ got[x] \notin 0..(KernelEnd - 1)
    BY <2>1, EarlyAssumption, BallocAssumption DEF IInv, GotMarked, Complete, Block
  <2>4. \A x, y \in Structure : got[x] = got[y] => x = y
    BY DEF IInv, GotDistinct, Complete
  <2> QED
    BY <2>2, <2>3, <2>4, MappedHasTable, HeapUnmapped DEF BootContract
<1> QED  BY <1>1, Invariance, PTL

-------------------------------------------------------------------------------

(***************************************************************************)
(* The functions that Multiboot and SequencesExt choose by a recursive     *)
(* equation exist: a walk that only goes up, and the sequences that a      *)
(* concatenation goes through.                                             *)
(***************************************************************************)
Walks(w, N, Stop, val, next) == w = [a \in 1..N |-> IF a \in Stop THEN val[a] ELSE w[next[a]]]

LEMMA WalkExists ==
    ASSUME NEW N \in Nat, NEW Stop, NEW val, NEW next,
           \A a \in 1..N : a \notin Stop => next[a] \in (a + 1)..N
    PROVE  \E w : Walks(w, N, Stop, val, next)
<1> DEFINE Part(j, w) ==
               \A a \in (N + 1 - j)..N : w[a] = IF a \in Stop THEN val[a] ELSE w[next[a]]
           Bad == {j \in 0..N : ~ \E w : Part(j, w)}
<1>1. ASSUME Bad = {}
      PROVE  \E w : w = [a \in 1..N |-> IF a \in Stop THEN val[a] ELSE w[next[a]]]
  <2>1. N \in 0..N /\ N + 1 - N = 1
    OBVIOUS
  <2>2. PICK w : Part(N, w)
    BY <1>1, <2>1
  <2>3. \A a \in 1..N : w[a] = IF a \in Stop THEN val[a] ELSE w[next[a]]
    BY <2>1, <2>2
  <2> DEFINE v == [a \in 1..N |-> w[a]]
  <2>4. \A a \in 1..N : a \notin Stop => next[a] \in 1..N
    OBVIOUS
  <2>5. v = [a \in 1..N |-> IF a \in Stop THEN val[a] ELSE v[next[a]]]
    BY <2>3, <2>4
  <2> QED  BY <2>5
<1> SUFFICES ASSUME Bad # {} PROVE FALSE
  BY <1>1 DEF Walks
<1>2. PICK j \in Bad : \A i \in Bad : j <= i
  <2>1. Bad \in SUBSET Nat
    BY SMT
  <2> HIDE DEF Bad
  <2> QED  BY <2>1, LeastElement
<1>3. CASE j = 0
  <2>1. Part(0, val)
    OBVIOUS
  <2> QED  BY <1>3, <2>1
<1>4. CASE j # 0
  <2>1. j \in Nat /\ j - 1 \in 0..N /\ N + 1 - j \in 1..N
    BY <1>4
  <2>2. PICK w : Part(j - 1, w)
    <3>1. j - 1 \notin Bad
      <4> HIDE DEF Bad
      <4> QED  BY <1>2, <2>1
    <3> QED  BY <2>1, <3>1
  <2> DEFINE first == N + 1 - j
             v == [a \in first..N |-> IF a # first THEN w[a]
                                      ELSE IF a \in Stop THEN val[a] ELSE w[next[a]]]
  <2>3. N + 1 - (j - 1) = first + 1 /\ first \in 1..N
    BY <2>1
  <2>4. \A a \in (first + 1)..N : w[a] = IF a \in Stop THEN val[a] ELSE w[next[a]]
    BY <2>2, <2>3
  <2> HIDE DEF first
  <2>5. \A a \in first..N : a \notin Stop => next[a] \in (first + 1)..N
    BY <2>3
  <2>6. \A a \in (first + 1)..N : a \in first..N /\ a # first /\ v[a] = w[a]
    BY <2>3
  <2>7. \A a \in first..N : v[a] = IF a \in Stop THEN val[a] ELSE v[next[a]]
    <3> SUFFICES ASSUME NEW a \in first..N
                 PROVE  v[a] = IF a \in Stop THEN val[a] ELSE v[next[a]]
      OBVIOUS
    <3>1. v[a] = IF a \in Stop THEN val[a] ELSE w[next[a]]
      <4>1. CASE a = first
        BY <4>1
      <4>2. CASE a # first
        BY <2>3, <2>4, <2>6, <4>2
      <4> QED  BY <4>1, <4>2
    <3> HIDE DEF v
    <3> QED  BY <2>5, <2>6, <3>1
  <2>8. Part(j, v)
    BY <2>7 DEF first
  <2> QED  BY <2>8
<1> QED  BY <1>3, <1>4

LEMMA ConcatenationExists ==
    ASSUME NEW N \in Nat, NEW s
    PROVE  \E f : f = [i \in 1..N |-> IF i = 1 THEN s[i] ELSE f[i - 1] \o s[i]]
<1> DEFINE Part(j, f) == \A i \in 1..j : f[i] = IF i = 1 THEN s[i] ELSE f[i - 1] \o s[i]
           Bad == {j \in 0..N : ~ \E f : Part(j, f)}
<1>1. ASSUME Bad = {}
      PROVE  \E f : f = [i \in 1..N |-> IF i = 1 THEN s[i] ELSE f[i - 1] \o s[i]]
  <2>1. PICK f : Part(N, f)
    <3>1. N \in 0..N
      OBVIOUS
    <3> QED  BY <1>1, <3>1
  <2> DEFINE g == [i \in 1..N |-> f[i]]
  <2>2. \A i \in 1..N : i # 1 => i - 1 \in 1..N
    OBVIOUS
  <2>3. \A i \in 1..N : g[i] = IF i = 1 THEN s[i] ELSE g[i - 1] \o s[i]
    BY <2>1, <2>2
  <2>4. g = [i \in 1..N |-> IF i = 1 THEN s[i] ELSE g[i - 1] \o s[i]]
    BY <2>3
  <2> QED  BY <2>4
<1> SUFFICES ASSUME Bad # {} PROVE FALSE
  BY <1>1
<1>2. PICK j \in Bad : \A i \in Bad : j <= i
  <2>1. Bad \in SUBSET Nat
    BY SMT
  <2> HIDE DEF Bad
  <2> QED  BY <2>1, LeastElement
<1>3. CASE j = 0
  <2>1. Part(0, s)
    OBVIOUS
  <2> QED  BY <1>3, <2>1
<1>4. CASE j # 0
  <2>1. j \in Nat /\ j - 1 \in 0..N /\ j \in 1..N
    BY <1>4
  <2>2. PICK f : Part(j - 1, f)
    <3>1. j - 1 \notin Bad
      <4> HIDE DEF Bad
      <4> QED  BY <1>2, <2>1
    <3> QED  BY <2>1, <3>1
  <2> DEFINE g == [i \in 1..j |-> IF i # j THEN f[i]
                                  ELSE IF i = 1 THEN s[i] ELSE f[i - 1] \o s[i]]
  <2>3. \A i \in 1..(j - 1) : i \in 1..j /\ i # j /\ g[i] = f[i]
    BY <2>1
  <2>4. \A i \in 1..j : i # 1 => i - 1 \in 1..(j - 1)
    BY <2>1
  <2>5. \A i \in 1..j : g[i] = IF i = 1 THEN s[i] ELSE g[i - 1] \o s[i]
    <3> SUFFICES ASSUME NEW i \in 1..j
                 PROVE  g[i] = IF i = 1 THEN s[i] ELSE g[i - 1] \o s[i]
      OBVIOUS
    <3>1. g[i] = IF i = 1 THEN s[i] ELSE f[i - 1] \o s[i]
      <4>1. CASE i = j
        BY <4>1
      <4>2. CASE i # j
        <5>1. i \in 1..(j - 1)
          BY <2>1, <4>2
        <5> QED  BY <2>2, <2>3, <5>1
      <4> QED  BY <4>1, <4>2
    <3> HIDE DEF g
    <3> QED  BY <2>3, <2>4, <3>1
  <2> QED  BY <2>5
<1> QED  BY <1>3, <1>4

(***************************************************************************)
(* What FlattenSeq joins, one part after the other.                        *)
(***************************************************************************)
Joined(s) == CHOOSE f : f = [i \in 1..Len(s) |-> IF i = 1 THEN s[i] ELSE f[i - 1] \o s[i]]

LEMMA FlattenJoins ==
    ASSUME NEW s, Len(s) \in Nat \ {0}
    PROVE  /\ M!FlattenSeq(s) = Joined(s)[Len(s)]
           /\ \A i \in 1..Len(s) :
                  Joined(s)[i] = IF i = 1 THEN s[i] ELSE Joined(s)[i - 1] \o s[i]
<1>1. M!FlattenSeq(s) = Joined(s)[Len(s)]
  BY DEF M!FlattenSeq, Joined
<1>2. \E f : f = [i \in 1..Len(s) |-> IF i = 1 THEN s[i] ELSE f[i - 1] \o s[i]]
  BY ConcatenationExists
<1>3. Joined(s) = [i \in 1..Len(s) |-> IF i = 1 THEN s[i] ELSE Joined(s)[i - 1] \o s[i]]
  BY <1>2, Zenon DEF Joined
<1> HIDE DEF Joined
<1> QED  BY <1>1, <1>3, Zenon

-------------------------------------------------------------------------------
(***************************************************************************)
(* Cells as the loader, the copy and the bitmap leave them: a tag says its *)
(* own length, and the number of an entry is one of the map's.             *)
(***************************************************************************)
TagKind == {"memsz", "mmap", "name"}
TagLen(t) == IF t = "mmap" THEN 1 + Entries ELSE 1

SaneCell ==
    {c \in [kind : TagKind \cup {"head", "entry", "end", "ones", "other"}, n : Nat] :
        /\ c.kind = "entry" => c.n \in 1..Entries
        /\ c.kind \in TagKind => c.n = TagLen(c.kind)}

\* the tag t with what belongs to it, from cell at of s on
TagAt(s, at, t) ==
    /\ s[at] = [kind |-> t, n |-> TagLen(t)]
    /\ t = "mmap" => \A k \in 1..Entries : s[at + k] = [kind |-> "entry", n |-> k]

\* s goes on as far as its maps do
MapsWhole(s) == \A x \in 1..Len(s) : s[x].kind = "mmap" => x + Entries <= Len(s)

LEMMA TagLenPositive == ASSUME NEW t PROVE TagLen(t) \in Nat \ {0}
BY LoaderAssumption DEF TagLen

LEMMA Joining ==
    ASSUME NEW T, NEW s \in Seq(T), NEW t \in Seq(T)
    PROVE  /\ s \o t \in Seq(T)
           /\ Len(s \o t) = Len(s) + Len(t)
           /\ \A i \in 1..Len(s) : (s \o t)[i] = s[i]
           /\ \A i \in 1..Len(t) : (s \o t)[Len(s) + i] = t[i]
           /\ \A i \in 1..Len(s \o t) : i \in 1..Len(s) \/ \E k \in 1..Len(t) : i = Len(s) + k
<1>1. s \o t \in Seq(T) /\ Len(s \o t) = Len(s) + Len(t)
  BY ConcatProperties
<1>2. \A i \in 1..(Len(s) + Len(t)) :
          (s \o t)[i] = IF i <= Len(s) THEN s[i] ELSE t[i - Len(s)]
  BY ConcatProperties
<1>3. Len(s) \in Nat /\ Len(t) \in Nat
  BY LenProperties
<1>4. \A i \in 1..Len(s) : (s \o t)[i] = s[i]
  BY <1>2, <1>3
<1>5. ASSUME NEW i \in 1..Len(t)
      PROVE  (s \o t)[Len(s) + i] = t[i]
  <2>1. Len(s) + i \in 1..(Len(s) + Len(t)) /\ ~ (Len(s) + i <= Len(s)) /\ (Len(s) + i) - Len(s) = i
    BY <1>3
  <2> QED  BY <1>2, <2>1
<1>6. ASSUME NEW i \in 1..Len(s \o t), i \notin 1..Len(s)
      PROVE  \E k \in 1..Len(t) : i = Len(s) + k
  <2>1. i - Len(s) \in 1..Len(t) /\ i = Len(s) + (i - Len(s))
    BY <1>1, <1>3, <1>6
  <2> QED  BY <2>1
<1> QED  BY <1>1, <1>4, <1>5, <1>6

LEMMA MapCellsSane ==
    /\ M!MapCells \in Seq(SaneCell) /\ Len(M!MapCells) = Entries
    /\ \A k \in 1..Entries : M!MapCells[k] = [kind |-> "entry", n |-> k]
<1>1. \A k \in 1..Entries : [kind |-> "entry", n |-> k] \in SaneCell
  BY LoaderAssumption DEF SaneCell, TagKind
<1> QED  BY <1>1, LoaderAssumption DEF M!MapCells

(***************************************************************************)
(* The cells of one tag.                                                   *)
(***************************************************************************)
LEMMA TagCellsLayout ==
    ASSUME NEW t \in TagKind
    PROVE  /\ M!TagCells(t) \in Seq(SaneCell) /\ Len(M!TagCells(t)) = TagLen(t)
           /\ TagAt(M!TagCells(t), 1, t)
           /\ MapsWhole(M!TagCells(t))
<1>1. CASE t = "mmap"
  <2> DEFINE head == <<[kind |-> "mmap", n |-> 1 + Entries]>>
             both == head \o M!MapCells
  <2>1. [kind |-> "mmap", n |-> 1 + Entries] \in SaneCell
    BY LoaderAssumption DEF SaneCell, TagKind, TagLen
  <2>2. head \in Seq(SaneCell) /\ Len(head) = 1 /\ head[1] = [kind |-> "mmap", n |-> 1 + Entries]
    BY <2>1
  <2>3. M!TagCells(t) = both
    BY <1>1 DEF M!TagCells
  <2> HIDE DEF head
  <2>4. head \in Seq(SaneCell) /\ M!MapCells \in Seq(SaneCell) /\ Len(M!MapCells) = Entries
    BY <2>2, MapCellsSane
  <2>5. /\ both \in Seq(SaneCell) /\ Len(both) = 1 + Entries
        /\ \A i \in 1..1 : both[i] = head[i]
        /\ \A i \in 1..Entries : both[1 + i] = M!MapCells[i]
        /\ \A i \in 1..Len(both) : i \in 1..1 \/ \E k \in 1..Entries : i = 1 + k
    <3> DEFINE map == M!MapCells
    <3> HIDE DEF map
    <3>1. head \in Seq(SaneCell) /\ map \in Seq(SaneCell) /\ Len(map) = Entries
      BY <2>4 DEF map
    <3>2. /\ head \o map \in Seq(SaneCell) /\ Len(head \o map) = Len(head) + Len(map)
          /\ \A i \in 1..Len(head) : (head \o map)[i] = head[i]
          /\ \A i \in 1..Len(map) : (head \o map)[Len(head) + i] = map[i]
          /\ \A i \in 1..Len(head \o map) :
                i \in 1..Len(head) \/ \E k \in 1..Len(map) : i = Len(head) + k
      <4>1. /\ head \o map \in Seq(SaneCell) /\ Len(head \o map) = Len(head) + Len(map)
            /\ \A i \in 1..Len(head) : (head \o map)[i] = head[i]
        BY <3>1, Joining
      <4>2. \A i \in 1..Len(map) : (head \o map)[Len(head) + i] = map[i]
        BY <3>1, Joining
      <4>3. \A i \in 1..Len(head \o map) :
                i \in 1..Len(head) \/ \E k \in 1..Len(map) : i = Len(head) + k
        BY <3>1, Joining
      <4> QED  BY <4>1, <4>2, <4>3
    <3> QED  BY <2>2, <3>1, <3>2 DEF map
  <2> HIDE DEF both
  <2>6. both[1] = [kind |-> "mmap", n |-> 1 + Entries]
    BY <2>2, <2>5
  <2>7. \A k \in 1..Entries : both[1 + k] = [kind |-> "entry", n |-> k]
    BY <2>5, MapCellsSane
  <2>8. MapsWhole(both)
    <3> SUFFICES ASSUME NEW x \in 1..Len(both), both[x].kind = "mmap"
                 PROVE  x + Entries <= Len(both)
      BY DEF MapsWhole
    <3>1. x = 1
      <4> SUFFICES ASSUME NEW k \in 1..Entries, x = 1 + k PROVE FALSE
        BY <2>5
      <4>1. both[x] = [kind |-> "entry", n |-> k]
        BY <2>7
      <4> QED  BY <4>1
    <3> QED  BY <2>5, <3>1, LoaderAssumption
  <2> QED  BY <1>1, <2>3, <2>5, <2>6, <2>7, <2>8 DEF TagAt, TagLen
<1>2. CASE t # "mmap"
  <2>1. M!TagCells(t) = <<[kind |-> t, n |-> 1]>> /\ TagLen(t) = 1
    BY <1>2 DEF M!TagCells, TagLen
  <2>2. [kind |-> t, n |-> 1] \in SaneCell
    BY <1>2 DEF SaneCell, TagKind, TagLen
  <2> QED  BY <1>2, <2>1, <2>2 DEF TagAt, MapsWhole
<1> QED  BY <1>1, <1>2

LEMMA TagAtJoined ==
    ASSUME NEW s \in Seq(SaneCell), NEW r \in Seq(SaneCell), NEW at \in Nat \ {0}, NEW t
    PROVE  /\ at + TagLen(t) <= Len(s) + 1 /\ TagAt(s, at, t) => TagAt(s \o r, at, t)
           /\ at + TagLen(t) <= Len(r) + 1 /\ TagAt(r, at, t) => TagAt(s \o r, Len(s) + at, t)
<1>1. TagLen(t) \in Nat \ {0} /\ (t = "mmap" => TagLen(t) = 1 + Entries) /\ Entries \in Nat
  BY TagLenPositive, LoaderAssumption DEF TagLen
<1>2. Len(s) \in Nat /\ Len(r) \in Nat
  OBVIOUS
<1>3. /\ \A i \in 1..Len(s) : (s \o r)[i] = s[i]
      /\ \A i \in 1..Len(r) : (s \o r)[Len(s) + i] = r[i]
  BY Joining
<1>4. ASSUME at + TagLen(t) <= Len(s) + 1, TagAt(s, at, t)
      PROVE  TagAt(s \o r, at, t)
  <2>1. at \in 1..Len(s)
    BY <1>1, <1>2, <1>4
  <2>2. t = "mmap" => \A k \in 1..Entries : at + k \in 1..Len(s)
    BY <1>1, <1>2, <1>4
  <2> QED  BY <1>3, <1>4, <2>1, <2>2 DEF TagAt
<1>5. ASSUME at + TagLen(t) <= Len(r) + 1, TagAt(r, at, t)
      PROVE  TagAt(s \o r, Len(s) + at, t)
  <2>1. at \in 1..Len(r)
    BY <1>1, <1>2, <1>5
  <2>2. t = "mmap" => \A k \in 1..Entries :
                          at + k \in 1..Len(r) /\ (Len(s) + at) + k = Len(s) + (at + k)
    BY <1>1, <1>2, <1>5
  <2> QED  BY <1>3, <1>5, <2>1, <2>2 DEF TagAt
<1> QED  BY <1>4, <1>5

LEMMA MapsWholeJoined ==
    ASSUME NEW s \in Seq(SaneCell), NEW r \in Seq(SaneCell), MapsWhole(s), MapsWhole(r)
    PROVE  MapsWhole(s \o r)
<1>1. Len(s) \in Nat /\ Len(r) \in Nat /\ Entries \in Nat
  BY LoaderAssumption
<1>2. /\ Len(s \o r) = Len(s) + Len(r)
      /\ \A i \in 1..Len(s) : (s \o r)[i] = s[i]
      /\ \A i \in 1..Len(r) : (s \o r)[Len(s) + i] = r[i]
      /\ \A x \in 1..Len(s \o r) : x \in 1..Len(s) \/ \E k \in 1..Len(r) : x = Len(s) + k
  BY Joining
<1> SUFFICES ASSUME NEW x \in 1..Len(s \o r), (s \o r)[x].kind = "mmap"
             PROVE  x + Entries <= Len(s \o r)
  BY DEF MapsWhole
<1>3. CASE x \in 1..Len(s)
  <2>1. x + Entries <= Len(s)
    BY <1>2, <1>3 DEF MapsWhole
  <2> QED  BY <1>1, <1>2, <1>3, <2>1
<1>4. ASSUME NEW k \in 1..Len(r), x = Len(s) + k
      PROVE  x + Entries <= Len(s \o r)
  <2>1. k + Entries <= Len(r)
    BY <1>2, <1>4 DEF MapsWhole
  <2> QED  BY <1>1, <1>2, <1>4, <2>1
<1> QED  BY <1>2, <1>3, <1>4

(***************************************************************************)
(* The first n tags of a list, from cell off[j] of s on the j-th.          *)
(***************************************************************************)
LaidOut(s, off, list, n) ==
    /\ s \in Seq(SaneCell) /\ MapsWhole(s)
    /\ off \in [1..(n + 1) -> Nat \ {0}] /\ off[n + 1] = Len(s) + 1
    /\ \A j \in 1..n :
           off[j + 1] = off[j] + TagLen(list[j]) /\ off[j + 1] <= off[n + 1] /\ TagAt(s, off[j], list[j])

LEMMA OneMoreTag ==
    ASSUME NEW list, NEW n \in Nat, NEW s, NEW off, LaidOut(s, off, list, n),
           list[n + 1] \in TagKind
    PROVE  \E more : more[1] = off[1] /\ LaidOut(s \o M!TagCells(list[n + 1]), more, list, n + 1)
<1> DEFINE t == list[n + 1]
           r == M!TagCells(t)
           more == [j \in 1..(n + 2) |-> IF j = n + 2 THEN off[n + 1] + TagLen(t) ELSE off[j]]
<1>1. r \in Seq(SaneCell) /\ Len(r) = TagLen(t) /\ TagAt(r, 1, t) /\ MapsWhole(r)
  BY TagCellsLayout
<1>2. TagLen(t) \in Nat \ {0}
  BY TagLenPositive
<1> HIDE DEF r, t
<1>3. s \in Seq(SaneCell) /\ MapsWhole(s) /\ off \in [1..(n + 1) -> Nat \ {0}] /\ off[n + 1] = Len(s) + 1
  BY DEF LaidOut
<1>4. s \o r \in Seq(SaneCell) /\ Len(s \o r) = Len(s) + Len(r) /\ MapsWhole(s \o r)
  <2>1. r \in Seq(SaneCell) /\ s \in Seq(SaneCell)
    BY <1>1, <1>3
  <2> QED  BY <1>1, <1>3, <2>1, Joining, MapsWholeJoined
<1>5. \A j \in 1..(n + 1) : j \in 1..(n + 2) /\ j # n + 2
  OBVIOUS
<1>6. /\ \A j \in 1..(n + 1) : more[j] = off[j]
      /\ more[n + 2] = off[n + 1] + TagLen(t)
      /\ more \in [1..(n + 2) -> Nat \ {0}]
  BY <1>2, <1>3, <1>5
<1> HIDE DEF more
<1>7. more[n + 2] = Len(s \o r) + 1 /\ Len(s) \in Nat
  BY <1>1, <1>2, <1>3, <1>4, <1>6
<1>8. ASSUME NEW j \in 1..(n + 1)
      PROVE  /\ more[j + 1] = more[j] + TagLen(list[j])
             /\ more[j + 1] <= more[n + 2] /\ TagAt(s \o r, more[j], list[j])
  <2>1. s \in Seq(SaneCell) /\ r \in Seq(SaneCell)
    BY <1>1, <1>3
  <2>2. CASE j = n + 1
    <3>1. TagAt(s \o r, Len(s) + 1, t)
      <4>1. 1 + TagLen(t) <= Len(r) + 1 /\ 1 \in Nat \ {0}
        BY <1>1, <1>2
      <4> QED  BY <1>1, <2>1, <4>1, TagAtJoined
    <3>2. j + 1 = n + 2 /\ more[j] = off[n + 1] /\ list[j] = t
      BY <1>6, <2>2 DEF t
    <3> QED  BY <1>2, <1>3, <1>6, <3>1, <3>2
  <2>3. CASE j # n + 1
    <3>1. j \in 1..n /\ j + 1 \in 1..(n + 1)
      BY <2>3
    <3>2. /\ off[j + 1] = off[j] + TagLen(list[j]) /\ off[j + 1] <= off[n + 1]
          /\ TagAt(s, off[j], list[j]) /\ off[j] \in Nat \ {0} /\ off[n + 1] \in Nat
          /\ off[j + 1] \in Nat
      BY <1>3, <3>1 DEF LaidOut
    <3>3. TagAt(s \o r, off[j], list[j])
      BY <1>3, <2>1, <3>2, TagAtJoined
    <3>4. more[j] = off[j] /\ more[j + 1] = off[j + 1]
      BY <1>6, <3>1
    <3> QED  BY <1>2, <1>6, <3>2, <3>3, <3>4
  <2> QED  BY <2>2, <2>3
<1>9. LaidOut(s \o r, more, list, n + 1)
  <2>1. (n + 1) + 1 = n + 2
    OBVIOUS
  <2> QED  BY <1>4, <1>6, <1>7, <1>8, <2>1 DEF LaidOut
<1>10. more[1] = off[1]
  BY <1>6
<1> QED  BY <1>9, <1>10 DEF r, t

(***************************************************************************)
(* The tags of a list, one after the other, and the structure around them. *)
(***************************************************************************)
LEMMA TagsLayout ==
    ASSUME NEW list \in Seq(TagKind)
    PROVE  \E off : off[1] = 1 /\ LaidOut(M!TagsOf(list), off, list, Len(list))
<1> DEFINE L == Len(list)
           cells == [i \in DOMAIN list |-> M!TagCells(list[i])]
           Start == [j \in 1..1 |-> 1]
           Shown(i) == \E off : off[1] = 1 /\ LaidOut(Joined(cells)[i], off, list, i)
           Bad == {i \in 1..L : ~ Shown(i)}
<1>1. L \in Nat /\ DOMAIN list = 1..L /\ \A i \in 1..L : list[i] \in TagKind
  OBVIOUS
<1>2. M!TagsOf(list) = M!FlattenSeq(cells) /\ Len(cells) = L
  <2>1. M!TagsOf(list) = M!FlattenSeq(cells)
    BY Zenon DEF M!TagsOf
  <2>2. Len(cells) = L
    BY <1>1
  <2> QED  BY <2>1, <2>2
<1>3. LaidOut(<<>>, Start, list, 0)
  <2>1. <<>> \in Seq(SaneCell) /\ Len(<<>>) = 0 /\ MapsWhole(<<>>)
    BY DEF MapsWhole
  <2>2. Start \in [1..(0 + 1) -> Nat \ {0}] /\ Start[0 + 1] = 0 + 1
    OBVIOUS
  <2> QED  BY <2>1, <2>2 DEF LaidOut
<1>4. CASE L = 0
  <2>1. M!FlattenSeq(cells) = <<>>
    <3>1. cells = <<>>
      BY <1>1, <1>4
    <3> QED  BY <3>1 DEF M!FlattenSeq
  <2>2. Start[1] = 1
    OBVIOUS
  <2> QED  BY <1>2, <1>3, <1>4, <2>1, <2>2
<1>5. CASE L # 0
  <2>1. /\ M!FlattenSeq(cells) = Joined(cells)[L]
        /\ \A i \in 1..L : Joined(cells)[i] = IF i = 1 THEN cells[i]
                                              ELSE Joined(cells)[i - 1] \o cells[i]
    <3> HIDE DEF cells
    <3> QED  BY <1>1, <1>2, <1>5, FlattenJoins
  <2>2. \A i \in 1..L : cells[i] = M!TagCells(list[i])
    BY <1>1
  <2> HIDE DEF cells
  <2>3. Bad = {}
    <3> SUFFICES ASSUME Bad # {} PROVE FALSE
      OBVIOUS
    <3>1. PICK i \in Bad : \A j \in Bad : i <= j
      <4>1. Bad \in SUBSET Nat
        BY <1>1
      <4> HIDE DEF Bad
      <4> QED  BY <4>1, LeastElement
    <3>2. i \in 1..L /\ ~ Shown(i)
      OBVIOUS
    <3>3. CASE i = 1
      <4>1. Joined(cells)[1] = M!TagCells(list[1])
        BY <2>1, <2>2, <3>2, <3>3
      <4>2. M!TagCells(list[1]) \in Seq(SaneCell) /\ list[1] \in TagKind
        BY <1>1, <3>2, <3>3, TagCellsLayout
      <4>3. <<>> \o M!TagCells(list[1]) = M!TagCells(list[1])
        BY <4>2, ConcatEmptySeq
      <4>4. \E off : off[1] = Start[1] /\ LaidOut(<<>> \o M!TagCells(list[0 + 1]), off, list, 0 + 1)
        <5>1. list[0 + 1] \in TagKind
          BY <4>2
        <5> HIDE DEF Start, Bad, Shown
        <5> QED  BY <1>3, <5>1, OneMoreTag
      <4>5. Start[1] = 1 /\ 0 + 1 = 1
        OBVIOUS
      <4> HIDE DEF Start
      <4>6. \E off : off[1] = 1 /\ LaidOut(M!TagCells(list[1]), off, list, 1)
        BY <4>3, <4>4, <4>5
      <4> QED  BY <3>2, <3>3, <4>1, <4>6
    <3>4. CASE i # 1
      <4>1. i - 1 \in 1..L /\ i - 1 \in Nat /\ (i - 1) + 1 = i /\ ~ (i <= i - 1)
        BY <1>1, <3>2, <3>4
      <4>2. i - 1 \notin Bad
        <5> HIDE DEF Bad
        <5> QED  BY <3>1, <4>1
      <4>3. PICK off : off[1] = 1 /\ LaidOut(Joined(cells)[i - 1], off, list, i - 1)
        BY <4>1, <4>2
      <4>4. list[i] \in TagKind
        BY <1>1, <3>2
      <4>5. \E more : more[1] = off[1]
                /\ LaidOut(Joined(cells)[i - 1] \o M!TagCells(list[(i - 1) + 1]), more, list, (i - 1) + 1)
        <5>1. list[(i - 1) + 1] \in TagKind
          BY <4>1, <4>4
        <5> HIDE DEF Bad, Shown
        <5> QED  BY <4>1, <4>3, <5>1, OneMoreTag
      <4>6. Joined(cells)[i] = Joined(cells)[i - 1] \o M!TagCells(list[i])
        BY <2>1, <2>2, <3>2, <3>4
      <4>7. \E more : more[1] = 1 /\ LaidOut(Joined(cells)[i], more, list, i)
        BY <4>1, <4>3, <4>5, <4>6
      <4> QED  BY <3>2, <4>7
    <3> QED  BY <3>3, <3>4
  <2>4. Shown(L)
    <3>1. L \in 1..L
      BY <1>1, <1>5
    <3> QED  BY <2>3, <3>1
  <2> QED  BY <1>2, <2>1, <2>4
<1> QED  BY <1>4, <1>5

\* the second standard's structure: the list's j-th tag is at off[j]
Arranged(s, off, list) ==
    /\ s \in Seq(SaneCell) /\ MapsWhole(s)
    /\ s[1] = [kind |-> "head", n |-> Len(s)]
    /\ off \in [1..(Len(list) + 1) -> Nat \ {0}]
    /\ off[1] = 2 /\ off[Len(list) + 1] = Len(s) /\ s[Len(s)].kind = "end"
    /\ \A j \in 1..Len(list) :
           off[j + 1] = off[j] + TagLen(list[j]) /\ off[j + 1] <= Len(s) /\ TagAt(s, off[j], list[j])

LEMMA StructureLayout ==
    ASSUME NEW list \in Seq(TagKind)
    PROVE  \E off : Arranged(M!Structure(2, list), off, list)
<1> DEFINE L == Len(list)
           T == M!TagsOf(list)
           last == <<[kind |-> "end", n |-> 1]>>
           body == T \o last
           head == <<[kind |-> "head", n |-> Len(body) + 1]>>
           s == head \o body
<1>1. M!Structure(2, list) = s
  BY DEF M!Structure
<1>2. PICK off : off[1] = 1 /\ LaidOut(T, off, list, L)
  BY TagsLayout
<1>3. /\ T \in Seq(SaneCell) /\ MapsWhole(T) /\ L \in Nat
      /\ off \in [1..(L + 1) -> Nat \ {0}] /\ off[L + 1] = Len(T) + 1
  BY <1>2 DEF LaidOut
<1>4. last \in Seq(SaneCell) /\ Len(last) = 1 /\ last[1].kind = "end" /\ MapsWhole(last)
  BY DEF SaneCell, TagKind, MapsWhole
<1> HIDE DEF T, last
<1>5. body \in Seq(SaneCell) /\ Len(body) = Len(T) + 1 /\ MapsWhole(body)
      /\ \A i \in 1..Len(last) : body[Len(T) + i] = last[i]
  <2>1. T \in Seq(SaneCell) /\ last \in Seq(SaneCell)
    BY <1>3, <1>4
  <2>2. body \in Seq(SaneCell) /\ Len(body) = Len(T) + Len(last) /\ MapsWhole(body)
    <3>1. body \in Seq(SaneCell) /\ Len(body) = Len(T) + Len(last)
      BY <2>1, Joining
    <3> QED  BY <1>3, <1>4, <2>1, <3>1, MapsWholeJoined
  <2>3. \A i \in 1..Len(last) : body[Len(T) + i] = last[i]
    BY <2>1, Joining
  <2> QED  BY <1>4, <2>2, <2>3
<1>6. body[Len(body)].kind = "end"
  BY <1>4, <1>5
<1> HIDE DEF body
<1>7. head \in Seq(SaneCell) /\ Len(head) = 1 /\ head[1] = [kind |-> "head", n |-> Len(body) + 1]
      /\ MapsWhole(head)
  <2>1. Len(body) + 1 \in Nat
    BY <1>5
  <2> QED  BY <2>1 DEF SaneCell, TagKind, MapsWhole
<1> HIDE DEF head
<1>8. s \in Seq(SaneCell) /\ Len(s) = Len(body) + 1 /\ MapsWhole(s)
      /\ (\A i \in 1..Len(head) : s[i] = head[i])
      /\ (\A i \in 1..Len(body) : s[Len(head) + i] = body[i])
  <2>0. head \in Seq(SaneCell) /\ body \in Seq(SaneCell)
    BY <1>5, <1>7
  <2>1. s \in Seq(SaneCell) /\ Len(s) = Len(head) + Len(body) /\ MapsWhole(s)
    BY <1>5, <1>7, Joining, MapsWholeJoined
  <2>2. \A i \in 1..Len(head) : s[i] = head[i]
    BY <2>0, Joining
  <2>3. ASSUME NEW i \in 1..Len(body) PROVE s[Len(head) + i] = body[i]
    BY <2>0, Joining
  <2> QED  BY <1>5, <1>7, <2>1, <2>2, <2>3
<1>9. ASSUME NEW j \in 1..L
      PROVE  off[j + 1] = off[j] + TagLen(list[j]) /\ off[j + 1] <= Len(T) + 1
             /\ TagAt(s, off[j] + 1, list[j])
  <2>1. /\ off[j + 1] = off[j] + TagLen(list[j]) /\ off[j + 1] <= Len(T) + 1
        /\ TagAt(T, off[j], list[j]) /\ off[j] \in Nat \ {0}
    <3>1. j \in 1..(L + 1)
      BY <1>3
    <3> QED  BY <1>2, <1>3, <3>1 DEF LaidOut
  <2>2. TagAt(body, off[j], list[j])
    BY <1>3, <1>4, <2>1, TagAtJoined DEF body
  <2>3. TagLen(list[j]) \in Nat \ {0} /\ off[j] + TagLen(list[j]) <= Len(body) + 1
    BY <1>3, <1>5, <2>1, TagLenPositive
  <2>4. TagAt(s, Len(head) + off[j], list[j])
    BY <1>5, <1>7, <2>1, <2>2, <2>3, TagAtJoined
  <2>5. Len(head) + off[j] = off[j] + 1
    BY <1>7, <2>1
  <2> QED  BY <2>1, <2>4, <2>5
<1> DEFINE at == [j \in 1..(L + 1) |-> off[j] + 1]
<1>10. at \in [1..(L + 1) -> Nat \ {0}] /\ at[1] = 2 /\ at[L + 1] = Len(s)
  BY <1>2, <1>3, <1>5, <1>8
<1>11. \A j \in 1..L : j \in 1..(L + 1) /\ j + 1 \in 1..(L + 1)
  BY <1>3
<1>12. \A j \in 1..L : at[j + 1] = off[j + 1] + 1 /\ at[j] = off[j] + 1
                       /\ off[j] \in Nat /\ off[j + 1] \in Nat
  BY <1>3, <1>11
<1> HIDE DEF at
<1>13. \A j \in 1..L : at[j + 1] = at[j] + TagLen(list[j]) /\ at[j + 1] <= Len(s)
                       /\ TagAt(s, at[j], list[j])
  BY <1>3, <1>5, <1>8, <1>9, <1>12, TagLenPositive
<1>14. s[1] = [kind |-> "head", n |-> Len(s)] /\ s[Len(s)].kind = "end"
  <2>1. Len(body) \in 1..Len(body) /\ Len(s) = Len(head) + Len(body) /\ 1 \in 1..Len(head)
    BY <1>3, <1>5, <1>7, <1>8
  <2> QED  BY <1>6, <1>7, <1>8, <2>1
<1> HIDE DEF s
<1>15. Arranged(s, at, list)
  BY <1>8, <1>10, <1>13, <1>14 DEF Arranged
<1> QED  BY <1>1, <1>15

LEMMA OtherStructureLayout ==
    ASSUME NEW std, std # 2, NEW list
    PROVE  /\ M!Structure(std, list) \in Seq(SaneCell) /\ Len(M!Structure(std, list)) = Entries + 1
           /\ MapsWhole(M!Structure(std, list))
           /\ \A i \in 1..(Entries + 1) :
                  M!Structure(std, list)[i] =
                      IF i = 1 THEN [kind |-> "head", n |-> Entries] ELSE [kind |-> "entry", n |-> i - 1]
<1> DEFINE head == <<[kind |-> "head", n |-> Entries]>>
           map == M!MapCells
           s == head \o map
<1>1. M!Structure(std, list) = s
  BY DEF M!Structure
<1>2. head \in Seq(SaneCell) /\ Len(head) = 1 /\ head[1] = [kind |-> "head", n |-> Entries]
  BY LoaderAssumption DEF SaneCell, TagKind
<1>3. map \in Seq(SaneCell) /\ Len(map) = Entries
      /\ \A k \in 1..Entries : map[k] = [kind |-> "entry", n |-> k]
  BY MapCellsSane
<1> HIDE DEF head, map
<1>4. s \in Seq(SaneCell) /\ Len(s) = Entries + 1
  <2>1. head \in Seq(SaneCell) /\ map \in Seq(SaneCell)
    BY <1>2, <1>3
  <2>2. s \in Seq(SaneCell) /\ Len(s) = Len(head) + Len(map)
    BY <2>1, Joining
  <2> QED  BY <1>2, <1>3, <2>2, LoaderAssumption
<1>5. \A i \in 1..(Entries + 1) :
          s[i] = IF i = 1 THEN [kind |-> "head", n |-> Entries] ELSE [kind |-> "entry", n |-> i - 1]
  <2>1. head \in Seq(SaneCell) /\ map \in Seq(SaneCell)
    BY <1>2, <1>3
  <2>2. \A i \in 1..Len(head) : s[i] = head[i]
    BY <2>1, Joining
  <2>3. ASSUME NEW k \in 1..Len(map) PROVE s[Len(head) + k] = map[k]
    BY <2>1, Joining
  <2> HIDE DEF s
  <2>4. s[1] = [kind |-> "head", n |-> Entries]
    BY <1>2, <2>2
  <2>5. \A k \in 1..Entries : s[1 + k] = [kind |-> "entry", n |-> k]
    BY <1>2, <1>3, <2>3
  <2>6. \A i \in 1..(Entries + 1) : i # 1 => i - 1 \in 1..Entries /\ 1 + (i - 1) = i
    BY LoaderAssumption
  <2> QED  BY <2>4, <2>5, <2>6
<1> HIDE DEF s
<1>6. MapsWhole(s)
  BY <1>4, <1>5 DEF MapsWhole
<1> QED  BY <1>1, <1>4, <1>5, <1>6

-------------------------------------------------------------------------------
(***************************************************************************)
(* Memory holds only such cells, and no map is cut off by its end.         *)
(***************************************************************************)
SaneMemory ==
    /\ mem \in [M!Cell -> SaneCell]
    /\ \A a \in M!Cell : mem[a].kind = "mmap" => a + Entries <= Cells

\* the structure that was loaded is at cell p
Lies(p) == \A i \in 1..Len(Loaded) : p + i - 1 \in M!Cell /\ mem[p + i - 1] = Loaded[i]

Walk(type) ==
    CHOOSE w : w = [a \in 1..(2 * Cells) |->
                       IF ~ M!IsTag(a) THEN 0
                       ELSE IF mem[a].kind = type THEN a
                       ELSE w[M!NextTag(a)]]

(***************************************************************************)
(* Each tag is passed by its length, so the walk goes up and ends.         *)
(***************************************************************************)
LEMMA TagsGoUp ==
    ASSUME SaneMemory, NEW a \in M!Cell, M!IsTag(a)
    PROVE  M!NextTag(a) \in (a + 1)..(2 * Cells)
<1>1. mem[a] \in SaneCell /\ mem[a].kind \in TagKind /\ (mem[a].kind = "mmap" => a + Entries <= Cells)
  BY DEF SaneMemory, M!IsTag, TagKind
<1>2. mem[a].n = TagLen(mem[a].kind)
  BY <1>1 DEF SaneCell
<1>3. a \in 1..Cells /\ Cells \in Nat /\ Entries \in Nat
  BY LoaderAssumption DEF M!Cell
<1>4. CASE mem[a].kind = "mmap"
  BY <1>1, <1>2, <1>3, <1>4 DEF TagLen, M!NextTag
<1>5. CASE mem[a].kind # "mmap"
  BY <1>1, <1>2, <1>3, <1>5 DEF TagLen, M!NextTag
<1> QED  BY <1>4, <1>5

LEMMA WalkEquation ==
    ASSUME SaneMemory, NEW type, NEW c \in 1..(2 * Cells)
    PROVE  Walk(type)[c] = IF ~ M!IsTag(c) THEN 0
                           ELSE IF mem[c].kind = type THEN c
                           ELSE Walk(type)[M!NextTag(c)]
<1> DEFINE N == 2 * Cells
           Stop == {a \in 1..N : ~ M!IsTag(a) \/ mem[a].kind = type}
           val == [a \in 1..N |-> IF M!IsTag(a) THEN a ELSE 0]
           next == [a \in 1..N |-> M!NextTag(a)]
<1>1. N \in Nat
  BY LoaderAssumption
<1>2. \A a \in 1..N : a \notin Stop => next[a] \in (a + 1)..N
  <2> SUFFICES ASSUME NEW a \in 1..N, a \notin Stop PROVE next[a] \in (a + 1)..N
    OBVIOUS
  <2>1. M!IsTag(a) /\ a \in M!Cell
    BY DEF M!IsTag
  <2> QED  BY <2>1, TagsGoUp
<1>3. \E w : Walks(w, N, Stop, val, next)
  <2> HIDE DEF N, Stop, val, next
  <2> QED  BY <1>1, <1>2, WalkExists
<1>4. \E w : w = [a \in 1..(2 * Cells) |->
                     IF ~ M!IsTag(a) THEN 0
                     ELSE IF mem[a].kind = type THEN a
                     ELSE w[M!NextTag(a)]]
  <2>1. PICK w : w = [a \in 1..N |-> IF a \in Stop THEN val[a] ELSE w[next[a]]]
    BY <1>3 DEF Walks
  <2>2. w = [a \in 1..N |-> IF ~ M!IsTag(a) THEN 0
                            ELSE IF mem[a].kind = type THEN a
                            ELSE w[M!NextTag(a)]]
    BY <2>1
  <2> QED  BY <2>2
<1>5. Walk(type) = [a \in 1..(2 * Cells) |->
                       IF ~ M!IsTag(a) THEN 0
                       ELSE IF mem[a].kind = type THEN a
                       ELSE Walk(type)[M!NextTag(a)]]
  BY <1>4, Zenon DEF Walk
<1> QED  BY <1>5, Zenon

(***************************************************************************)
(* The walk ends at a tag of the kind that is looked for, or nowhere.      *)
(***************************************************************************)
LEMMA FindsKind ==
    ASSUME SaneMemory, mboot_ptr \in M!Cell, NEW type
    PROVE  \/ M!mboot2_find_tag(type) = 0
           \/ /\ M!mboot2_find_tag(type) \in M!Cell
              /\ mem[M!mboot2_find_tag(type)].kind = type
<1> DEFINE N == 2 * Cells
           Finds(a) == a = 0 \/ (a \in M!Cell /\ mem[a].kind = type)
           w == Walk(type)
           Bad == {k \in 0..(N - 1) : ~ Finds(w[N - k])}
<1>1. M!mboot2_find_tag(type) = w[mboot_ptr + 1]
  <2>1. mboot_ptr # 0
    BY LoaderAssumption DEF M!Cell
  <2> QED  BY <2>1 DEF M!mboot2_find_tag, Walk, M!NULL
<1>2. Cells \in Nat /\ N \in Nat /\ mboot_ptr + 1 \in 1..N
  BY LoaderAssumption DEF M!Cell
<1>3. \A a \in 1..N : w[a] = IF ~ M!IsTag(a) THEN 0
                             ELSE IF mem[a].kind = type THEN a
                             ELSE w[M!NextTag(a)]
  BY WalkEquation
<1> HIDE DEF w
<1>4. Bad = {}
  <2> SUFFICES ASSUME Bad # {} PROVE FALSE
    OBVIOUS
  <2>1. PICK k \in Bad : \A j \in Bad : k <= j
    <3>1. Bad \in SUBSET Nat
      BY <1>2
    <3> HIDE DEF Bad
    <3> QED  BY <3>1, LeastElement
  <2> DEFINE a == N - k
  <2>2. k \in 0..(N - 1) /\ a \in 1..N /\ ~ Finds(w[a])
    BY <1>2
  <2> HIDE DEF a
  <2>3. M!IsTag(a) /\ mem[a].kind # type /\ w[a] = w[M!NextTag(a)]
    BY <1>3, <2>2 DEF M!IsTag
  <2>4. M!NextTag(a) \in (a + 1)..N
    <3>1. a \in M!Cell
      BY <2>3 DEF M!IsTag
    <3> QED  BY <2>3, <3>1, TagsGoUp
  <2> DEFINE j == N - M!NextTag(a)
  <2>5. j \in 0..(N - 1) /\ ~ (k <= j) /\ N - j = M!NextTag(a)
    BY <1>2, <2>2, <2>4 DEF a
  <2>6. ~ Finds(w[M!NextTag(a)])
    BY <2>2, <2>3
  <2> HIDE DEF j, Finds
  <2>7. j \in Bad
    BY <2>5, <2>6
  <2> HIDE DEF Bad
  <2> QED  BY <2>1, <2>5, <2>7
<1>5. N - (mboot_ptr + 1) \in 0..(N - 1) /\ N - (N - (mboot_ptr + 1)) = mboot_ptr + 1
  BY <1>2
<1>6. Finds(w[mboot_ptr + 1])
  <2> HIDE DEF Finds, N
  <2> QED  BY <1>4, <1>5
<1> QED  BY <1>1, <1>6

(***************************************************************************)
(* If the structure lies where it is taken to be, a tag is found when the  *)
(* loader left one, and where it left it.                                  *)
(***************************************************************************)
LEMMA FindsTag ==
    ASSUME SaneMemory, mboot_ptr \in M!Cell, standard = 2, tags \in Seq(TagKind),
           Lies(mboot_ptr), NEW type
    PROVE  /\ type \notin ToSet(tags) => M!mboot2_find_tag(type) = 0
           /\ type \in ToSet(tags) => \E i \in 1..Len(Loaded) :
                  /\ M!mboot2_find_tag(type) = mboot_ptr + i - 1
                  /\ i + TagLen(type) <= Len(Loaded)
                  /\ TagAt(Loaded, i, type)
<1> DEFINE L == Len(tags)
           w == Walk(type)
<1>1. PICK off : Arranged(Loaded, off, tags)
  BY StructureLayout DEF Loaded
<1> DEFINE at(j) == mboot_ptr + off[j] - 1
           Right(j) == \/ w[at(j)] = 0 /\ \A i \in j..L : tags[i] # type
                       \/ \E i \in j..L : tags[i] = type /\ w[at(j)] = at(i)
           Bad == {k \in 0..L : ~ Right(L + 1 - k)}
<1>2. /\ Loaded \in Seq(SaneCell) /\ L \in Nat /\ Len(Loaded) \in Nat
      /\ off \in [1..(L + 1) -> Nat \ {0}] /\ off[1] = 2 /\ off[L + 1] = Len(Loaded)
      /\ Loaded[Len(Loaded)].kind = "end"
      /\ \A j \in 1..L : off[j + 1] = off[j] + TagLen(tags[j]) /\ off[j + 1] <= Len(Loaded)
                         /\ TagAt(Loaded, off[j], tags[j])
  BY <1>1 DEF Arranged
<1>3. mboot_ptr \in Nat /\ M!Cell \subseteq 1..(2 * Cells) /\ M!Cell \subseteq Nat
  BY LoaderAssumption DEF M!Cell
<1>4. \A j \in 1..(L + 1) : off[j] \in 1..Len(Loaded)
  <2>1. ASSUME NEW j \in 1..L PROVE off[j] \in 1..Len(Loaded)
    <3>1. j \in 1..(L + 1) /\ TagLen(tags[j]) \in Nat \ {0}
      BY TagLenPositive
    <3>2. off[j] \in Nat \ {0} /\ off[j + 1] = off[j] + TagLen(tags[j]) /\ off[j + 1] <= Len(Loaded)
      BY <1>2, <3>1
    <3> QED  BY <1>2, <3>1, <3>2
  <2>2. off[L + 1] \in 1..Len(Loaded)
    <3>1. off[L + 1] \in Nat \ {0}
      BY <1>2
    <3> QED  BY <1>2, <3>1
  <2>3. \A j \in 1..(L + 1) : j \in 1..L \/ j = L + 1
    BY <1>2
  <2> QED  BY <2>1, <2>2, <2>3
<1>5. \A j \in 1..(L + 1) : at(j) \in M!Cell /\ mem[at(j)] = Loaded[off[j]] /\ at(j) \in 1..(2 * Cells)
  BY <1>3, <1>4 DEF Lies
<1>6. \A a \in 1..(2 * Cells) : w[a] = IF ~ M!IsTag(a) THEN 0
                                       ELSE IF mem[a].kind = type THEN a
                                       ELSE w[M!NextTag(a)]
  BY WalkEquation
<1>7. \A j \in 1..L : /\ at(j) \in M!Cell /\ M!IsTag(at(j)) /\ mem[at(j)].kind = tags[j]
                      /\ M!NextTag(at(j)) = at(j + 1)
  <2> SUFFICES ASSUME NEW j \in 1..L
               PROVE  /\ at(j) \in M!Cell /\ M!IsTag(at(j)) /\ mem[at(j)].kind = tags[j]
                      /\ M!NextTag(at(j)) = at(j + 1)
    OBVIOUS
  <2>1. j \in 1..(L + 1) /\ tags[j] \in TagKind /\ TagLen(tags[j]) \in Nat
    BY <1>2, TagLenPositive
  <2>2. mem[at(j)] = [kind |-> tags[j], n |-> TagLen(tags[j])] /\ at(j) \in M!Cell
    BY <1>2, <1>5, <2>1 DEF TagAt
  <2>3. off[j + 1] = off[j] + TagLen(tags[j]) /\ off[j] \in Nat
    BY <1>2, <2>1
  <2>4. at(j) + TagLen(tags[j]) = at(j + 1)
    BY <1>3, <2>1, <2>3
  <2> HIDE DEF at
  <2> QED  BY <2>1, <2>2, <2>4 DEF M!IsTag, M!NextTag, TagKind
<1>8. ~ M!IsTag(at(L + 1))
  <2>1. L + 1 \in 1..(L + 1)
    BY <1>2
  <2>2. mem[at(L + 1)] = Loaded[Len(Loaded)]
    BY <1>2, <1>5, <2>1
  <2> QED  BY <1>2, <2>2 DEF M!IsTag
<1> HIDE DEF at, w
<1>9. Bad = {}
  <2> SUFFICES ASSUME Bad # {} PROVE FALSE
    OBVIOUS
  <2>1. PICK k \in Bad : \A j \in Bad : k <= j
    <3>1. Bad \in SUBSET Nat
      BY <1>2
    <3> HIDE DEF Bad
    <3> QED  BY <3>1, LeastElement
  <2> DEFINE j == L + 1 - k
  <2>2. k \in 0..L /\ ~ Right(j)
    OBVIOUS
  <2>3. j \in 1..(L + 1)
    BY <1>2, <2>2
  <2> HIDE DEF j
  <2>4. CASE j = L + 1
    <3>1. w[at(j)] = 0
      BY <1>5, <1>6, <1>8, <2>3, <2>4
    <3>2. \A i \in j..L : FALSE
      BY <1>2, <2>4
    <3> QED  BY <2>2, <3>1, <3>2
  <2>5. CASE j # L + 1
    <3>1. j \in 1..L /\ j \in j..L /\ \A i \in (j + 1)..L : i \in j..L
      BY <1>2, <2>3, <2>5
    <3>2. w[at(j)] = IF tags[j] = type THEN at(j) ELSE w[at(j + 1)]
      <4>1. at(j) \in 1..(2 * Cells)
        BY <1>5, <2>3
      <4>2. M!IsTag(at(j)) /\ mem[at(j)].kind = tags[j] /\ M!NextTag(at(j)) = at(j + 1)
        BY <1>7, <3>1
      <4>3. w[at(j)] = IF ~ M!IsTag(at(j)) THEN 0
                       ELSE IF mem[at(j)].kind = type THEN at(j)
                       ELSE w[M!NextTag(at(j))]
        BY <1>6, <4>1
      <4> QED  BY <4>2, <4>3, Zenon
    <3>3. CASE tags[j] = type
      <4>1. w[at(j)] = at(j)
        BY <3>2, <3>3
      <4>2. Right(j)
        BY <3>1, <3>3, <4>1
      <4> QED  BY <2>2, <4>2
    <3>4. CASE tags[j] # type
      <4>1. k - 1 \in 0..L /\ ~ (k <= k - 1) /\ L + 1 - (k - 1) = j + 1
        BY <1>2, <2>2, <3>1 DEF j
      <4>2. k - 1 \notin Bad
        <5> HIDE DEF Bad
        <5> QED  BY <2>1, <4>1
      <4>3. Right(j + 1)
        <5>1. Right(L + 1 - (k - 1))
          <6> HIDE DEF Right
          <6> QED  BY <4>1, <4>2
        <5> QED  BY <4>1, <5>1
      <4>4. \A i \in j..L : i = j \/ i \in (j + 1)..L
        BY <1>2, <3>1
      <4>5. w[at(j)] = w[at(j + 1)]
        BY <3>2, <3>4
      <4>6. CASE w[at(j + 1)] = 0 /\ \A i \in (j + 1)..L : tags[i] # type
        BY <2>2, <3>4, <4>4, <4>5, <4>6
      <4>7. CASE \E i \in (j + 1)..L : tags[i] = type /\ w[at(j + 1)] = at(i)
        BY <2>2, <3>1, <4>5, <4>7
      <4> QED  BY <4>3, <4>6, <4>7
    <3> QED  BY <3>3, <3>4
  <2> QED  BY <2>4, <2>5
<1>10. Right(1)
  <2>1. L \in 0..L /\ L + 1 - L = 1
    BY <1>2
  <2> HIDE DEF Right
  <2>2. Right(L + 1 - L)
    BY <1>9, <2>1
  <2> QED  BY <2>1, <2>2
<1>11. M!mboot2_find_tag(type) = w[at(1)]
  <2>1. at(1) = mboot_ptr + 1 /\ mboot_ptr # 0
    BY <1>2, <1>3, LoaderAssumption DEF at, M!Cell
  <2> QED  BY <2>1 DEF M!mboot2_find_tag, Walk, M!NULL, w
<1>12. ToSet(tags) = {tags[i] : i \in 1..L}
  BY DEF ToSet
<1>13. CASE w[at(1)] = 0 /\ \A i \in 1..L : tags[i] # type
  BY <1>11, <1>12, <1>13
<1>14. CASE \E i \in 1..L : tags[i] = type /\ w[at(1)] = at(i)
  <2>1. PICK i \in 1..L : tags[i] = type /\ w[at(1)] = at(i)
    BY <1>14
  <2>2. type \in ToSet(tags)
    BY <1>12, <2>1
  <2>3. i \in 1..(L + 1) /\ off[i] \in 1..Len(Loaded)
    BY <1>4, <2>1
  <2>4. off[i] + TagLen(type) <= Len(Loaded) /\ TagAt(Loaded, off[i], type)
    BY <1>2, <2>1
  <2>5. M!mboot2_find_tag(type) = mboot_ptr + off[i] - 1
    BY <1>11, <2>1 DEF at
  <2> QED  BY <2>2, <2>3, <2>4, <2>5
<1> QED  BY <1>10, <1>13, <1>14

-------------------------------------------------------------------------------
(***************************************************************************)
(* The inductive invariant about the loader's side: what was loaded, where *)
(* it is taken to be, how far it was copied and read.                      *)
(***************************************************************************)
LoaderOK ==
    /\ standard \in Standards /\ aligned \in Alignments /\ tags \in TagLists /\ mmap \in Maps
    /\ place \in Places
    /\ SaneMemory
    /\ standard # 2 => \A a \in M!Cell : mem[a].kind = "head" => mem[a].n = Entries

Moved == standard = 2 /\ step \in {"fill", "regions", "done"}

InPlace ==
    /\ mboot_ptr = IF Moved THEN EndCell + Len(Loaded) ELSE place
    /\ step \in {"init", "relocate"} /\ place # 0 => Lies(place)

Copying ==
    step = "copy" =>
        /\ standard = 2
        /\ copy = [from |-> mboot_ptr, to |-> EndCell + Len(Loaded),
                   length |-> Len(Loaded), done |-> copy.done]
        /\ copy.done \in 0..Len(Loaded)

InOrder ==
    /\ step \in {"init", "relocate", "copy", "fill", "regions", "done", "panic"}
    /\ current_mmap_entry \in 0..Entries /\ entry = current_mmap_entry + 1
    /\ step \notin {"regions", "done"} => current_mmap_entry = 0 /\ mbmp = Bit /\ found = <<>>
    /\ step # "done" => pc = "regions"

NumbersOK ==
    /\ used_blocks \in UInt /\ kinit_errno \in Nat /\ beyond \subseteq Nat \ Bit
    /\ pc \in {"regions", "handover", "running"} \cup Structure

LoaderInv == LoaderOK /\ InPlace /\ Copying /\ InOrder /\ PanicNamesFault /\ NumbersOK

LEMMA LoadedSane ==
    ASSUME standard \in Standards, tags \in TagLists
    PROVE  /\ Loaded \in Seq(SaneCell) /\ MapsWhole(Loaded) /\ Len(Loaded) \in Nat \ {0}
           /\ standard = 2 => Loaded[1].n = Len(Loaded)
           /\ standard # 2 => \A i \in 1..Len(Loaded) : Loaded[i].kind = "head" => Loaded[i].n = Entries
           /\ standard # 2 => Len(Loaded) = Entries + 1
           /\ tags \in Seq(TagKind)
<1>1. tags \in Seq(TagKind)
  BY LoaderAssumption DEF TagKind
<1>2. CASE standard = 2
  <2>1. PICK off : Arranged(Loaded, off, tags)
    BY <1>1, <1>2, StructureLayout DEF Loaded
  <2>2. /\ Loaded \in Seq(SaneCell) /\ MapsWhole(Loaded)
        /\ Loaded[1] = [kind |-> "head", n |-> Len(Loaded)]
        /\ off \in [1..(Len(tags) + 1) -> Nat \ {0}] /\ off[Len(tags) + 1] = Len(Loaded)
    BY <2>1 DEF Arranged
  <2>3. Len(Loaded) \in Nat \ {0}
    <3>1. Len(tags) + 1 \in 1..(Len(tags) + 1)
      BY <1>1
    <3> QED  BY <2>2, <3>1
  <2> QED  BY <1>1, <1>2, <2>2, <2>3
<1>3. CASE standard # 2
  <2>1. /\ Loaded \in Seq(SaneCell) /\ Len(Loaded) = Entries + 1 /\ MapsWhole(Loaded)
        /\ \A i \in 1..(Entries + 1) :
               Loaded[i] = IF i = 1 THEN [kind |-> "head", n |-> Entries]
                           ELSE [kind |-> "entry", n |-> i - 1]
    BY <1>3, OtherStructureLayout DEF Loaded
  <2>2. \A i \in 1..Len(Loaded) : Loaded[i].kind = "head" => Loaded[i].n = Entries
    BY <2>1
  <2>3. Len(Loaded) \in Nat \ {0}
    BY <2>1, LoaderAssumption
  <2> QED  BY <1>1, <1>3, <2>1, <2>2, <2>3
<1> QED  BY <1>2, <1>3

(***************************************************************************)
(* Where the structure is taken to be there is room for it, and one cell   *)
(* behind it; a loader of the second standard whose structure is missing   *)
(* gets no further than multiboot_init.                                    *)
(***************************************************************************)
LEMMA HasRoom ==
    ASSUME LoaderOK, InPlace
    PROVE  /\ mboot_ptr \in M!Cell \cup {0} /\ mboot_ptr \in Nat
           /\ mboot_ptr + Len(Loaded) <= Cells
<1>1. Len(Loaded) \in Nat \ {0} /\ standard \in Standards /\ tags \in TagLists
  BY LoadedSane DEF LoaderOK
<1>2. CASE Moved
  <2>1. EndCell + 2 * Len(Loaded) + Entries <= Cells
    BY <1>1, <1>2, LoaderAssumption DEF Moved, Loaded
  <2> QED  BY <1>1, <1>2, <2>1, LoaderAssumption DEF InPlace, M!Cell
<1>3. CASE ~ Moved
  <2>1. mboot_ptr = place /\ place \in M!Cell \cup {0} /\ M!Cell \subseteq Nat
    BY <1>3, LoaderAssumption DEF InPlace, LoaderOK, M!Cell, M!NULL
  <2>2. place + Len(Loaded) <= Cells
    BY <1>1, LoaderAssumption DEF LoaderOK, Loaded
  <2> QED  BY <2>1, <2>2
<1> QED  BY <1>2, <1>3

LEMMA HasPlace ==
    ASSUME LoaderInv, standard = 2, step \notin {"init", "panic"}
    PROVE  place # 0 /\ mboot_ptr \in M!Cell
<1>1. place # 0
  BY DEF LoaderInv, PanicNamesFault, M!NULL
<1>2. mboot_ptr # 0
  <2>1. EndCell \in Nat \ {0} /\ Len(Loaded) \in Nat
    BY LoadedSane, LoaderAssumption DEF LoaderInv, LoaderOK, M!Cell
  <2> QED  BY <1>1, <2>1 DEF LoaderInv, InPlace
<1> QED  BY <1>1, <1>2, HasRoom DEF LoaderInv

(***************************************************************************)
(* The loop reads cells that exist, no more of them than the map has       *)
(* entries.                                                                *)
(***************************************************************************)
LEMMA ReadsInside ==
    ASSUME LoaderOK, InPlace, standard # 0, M!HeadReadable,
           current_mmap_entry \in Nat, current_mmap_entry < M!MapEntries
    PROVE  /\ M!MapEntries = Entries
           /\ M!EntryAt(current_mmap_entry) \in M!Cell
<1>1. /\ mboot_ptr # 0 => mboot_ptr \in M!Cell
      /\ mboot_ptr + Len(Loaded) <= Cells /\ standard \in Standards /\ tags \in TagLists
  BY HasRoom DEF LoaderOK
<1>2. SaneMemory /\ Entries \in Nat /\ Cells \in Nat
  BY LoaderAssumption DEF LoaderOK
<1>3. CASE standard = 2
  <2> DEFINE map == M!mboot2_find_tag("mmap")
  <2>1. map = 0 \/ (map \in M!Cell /\ mem[map].kind = "mmap")
    <3>1. CASE mboot_ptr = 0
      BY <3>1 DEF M!mboot2_find_tag, M!NULL
    <3>2. CASE mboot_ptr # 0
      BY <1>1, <1>2, <3>2, FindsKind
    <3> QED  BY <3>1, <3>2
  <2>2. M!MapEntries = IF map = 0 THEN 0 ELSE mem[map].n - 1
    BY <1>3 DEF M!MapEntries, M!NULL
  <2>3. M!EntryAt(current_mmap_entry) = map + 1 + current_mmap_entry
    BY <1>3 DEF M!EntryAt
  <2> HIDE DEF map
  <2>4. map # 0
    BY <2>2
  <2>5. map \in M!Cell /\ map + Entries <= Cells /\ mem[map] \in SaneCell /\ mem[map].kind = "mmap"
    BY <1>2, <2>1, <2>4 DEF SaneMemory
  <2>6. mem[map].n = 1 + Entries
    BY <2>5 DEF SaneCell, TagKind, TagLen
  <2>7. M!MapEntries = Entries
    BY <1>2, <2>2, <2>4, <2>6
  <2> QED  BY <1>2, <2>3, <2>5, <2>7 DEF M!Cell
<1>4. CASE standard # 2
  <2>1. standard = 1 /\ mem[mboot_ptr].kind = "head" /\ mboot_ptr \in M!Cell
    BY <1>1, <1>4, LoaderAssumption DEF M!HeadReadable, M!NULL
  <2>2. mem[mboot_ptr].n = Entries /\ Len(Loaded) = Entries + 1
    BY <1>1, <1>4, <2>1, LoadedSane DEF LoaderOK
  <2>3. M!MapEntries = Entries /\ M!EntryAt(current_mmap_entry) = mboot_ptr + 1 + 1 + current_mmap_entry
    BY <1>4, <2>2 DEF M!MapEntries, M!EntryAt
  <2> QED  BY <1>1, <1>2, <2>2, <2>3 DEF M!Cell
<1> QED  BY <1>3, <1>4

(***************************************************************************)
(* The loader's structure is made of sane cells, and lies where it was     *)
(* put.                                                                    *)
(***************************************************************************)
LEMMA InitLoaderInv == BootInit => LoaderInv
<1> SUFFICES ASSUME BootInit PROVE LoaderInv
  OBVIOUS
<1> DEFINE len == Len(Loaded)
<1>1. /\ standard \in Standards /\ aligned \in Alignments /\ tags \in TagLists /\ place \in Places
      /\ mboot_ptr = place
      /\ mem = [a \in M!Cell |-> IF place # 0 /\ a \in place..(place + Len(Loaded) - 1)
                                 THEN Loaded[a - place + 1] ELSE M!Blank]
      /\ current_mmap_entry = 0 /\ step = "init" /\ kinit_errno = 0 /\ found = <<>>
  BY DEF BootInit, M!Init, Loaded, M!NULL
<1>2. /\ mbmp = Bit /\ used_blocks = TotalBlocks /\ mmap \in Maps /\ entry = 1 /\ pc = "regions"
      /\ beyond = {}
  BY DEF BootInit, Init, BallocInit
<1>3. /\ Loaded \in Seq(SaneCell) /\ MapsWhole(Loaded) /\ len \in Nat \ {0}
      /\ standard # 2 => \A i \in 1..len : Loaded[i].kind = "head" => Loaded[i].n = Entries
  BY <1>1, LoadedSane
<1>4. /\ place # 0 => place \in M!Cell
      /\ place + len <= Cells /\ Cells \in Nat /\ Entries \in Nat
  BY <1>1, LoaderAssumption DEF Loaded, M!NULL
<1> HIDE DEF len
<1>5. ASSUME NEW a \in M!Cell
      PROVE  \/ mem[a] = M!Blank
             \/ place # 0 /\ \E i \in 1..len : a = place + i - 1 /\ mem[a] = Loaded[i]
  <2>1. CASE place # 0 /\ a \in place..(place + len - 1)
    <3>1. mem[a] = Loaded[a - place + 1]
      BY <1>1, <2>1 DEF len
    <3>2. a - place + 1 \in 1..len /\ a = place + (a - place + 1) - 1
      BY <1>3, <1>4, <2>1 DEF M!Cell
    <3> QED  BY <2>1, <3>1, <3>2
  <2>2. CASE ~ (place # 0 /\ a \in place..(place + len - 1))
    BY <1>1, <2>2 DEF len
  <2> QED  BY <2>1, <2>2
<1>6. M!Blank \in SaneCell /\ M!Blank.kind = "other"
  BY DEF M!Blank, SaneCell, TagKind
<1>7. \A i \in 1..len : Loaded[i] \in SaneCell
  BY <1>3 DEF len
<1>8. SaneMemory
  <2>1. ASSUME NEW a \in M!Cell PROVE mem[a] \in SaneCell
    BY <1>5, <1>6, <1>7
  <2>2. mem \in [M!Cell -> SaneCell]
    BY <1>1, <2>1
  <2>3. ASSUME NEW a \in M!Cell, mem[a].kind = "mmap"
        PROVE  a + Entries <= Cells
    <3>1. PICK i \in 1..len : place # 0 /\ a = place + i - 1 /\ mem[a] = Loaded[i]
      BY <1>5, <1>6, <2>3
    <3>2. i + Entries <= len
      BY <1>3, <2>3, <3>1 DEF MapsWhole, len
    <3> QED  BY <1>3, <1>4, <3>1, <3>2 DEF M!Cell
  <2> QED  BY <2>2, <2>3 DEF SaneMemory
<1>9. standard # 2 => \A a \in M!Cell : mem[a].kind = "head" => mem[a].n = Entries
  BY <1>3, <1>5, <1>6
<1>10. LoaderOK
  BY <1>1, <1>2, <1>8, <1>9 DEF LoaderOK
<1>11. ASSUME place # 0
       PROVE  Lies(place)
  <2> SUFFICES ASSUME NEW i \in 1..len
               PROVE  place + i - 1 \in M!Cell /\ mem[place + i - 1] = Loaded[i]
    BY DEF Lies, len
  <2>1. /\ place + i - 1 \in M!Cell /\ (place + i - 1) - place + 1 = i
        /\ place + i - 1 \in place..(place + len - 1)
    BY <1>3, <1>4, <1>11 DEF M!Cell
  <2> QED  BY <1>1, <1>11, <2>1 DEF len
<1>12. InPlace /\ Copying /\ InOrder /\ PanicNamesFault
  BY <1>1, <1>2, <1>4, <1>11 DEF InPlace, Moved, Copying, InOrder, PanicNamesFault
<1>13. NumbersOK
  BY <1>1, <1>2, EarlyAssumption, BallocAssumption DEF NumbersOK, UInt
<1> QED  BY <1>10, <1>12, <1>13 DEF LoaderInv

(***************************************************************************)
(* multiboot_init sees what the loader left.                               *)
(***************************************************************************)
LEMMA HasIsIn ==
    ASSUME LoaderOK, InPlace, step \in {"init", "relocate"}, ~ M!NoStructure, NEW type
    PROVE  M!Has(type) <=> type \in ToSet(tags)
<1>1. CASE standard = 2
  <2>1. SaneMemory /\ mboot_ptr \in M!Cell /\ tags \in Seq(TagKind) /\ Lies(mboot_ptr)
    <3>1. mboot_ptr = place /\ mboot_ptr # 0
      BY <1>1 DEF InPlace, Moved, M!NoStructure, M!NULL
    <3> QED  BY <3>1, HasRoom, LoadedSane DEF LoaderOK, InPlace
  <2>2. /\ type \notin ToSet(tags) => M!mboot2_find_tag(type) = 0
        /\ type \in ToSet(tags) => \E i \in 1..Len(Loaded) : M!mboot2_find_tag(type) = mboot_ptr + i - 1
    BY <1>1, <2>1, FindsTag
  <2>3. \A i \in 1..Len(Loaded) : mboot_ptr + i - 1 # 0
    BY <2>1, LoaderAssumption DEF M!Cell
  <2>4. M!Has(type) <=> M!mboot2_find_tag(type) # 0
    BY <1>1 DEF M!Has, M!NULL
  <2> QED  BY <2>2, <2>3, <2>4
<1>2. CASE standard # 2
  BY <1>2 DEF M!Has, M!ToSet, ToSet
<1> QED  BY <1>1, <1>2

(***************************************************************************)
(* One lemma for each step of the boot code.                               *)
(***************************************************************************)
LEMMA BootInitStep ==
    ASSUME LoaderInv, M!multiboot_init, UNCHANGED <<mbmp, used_blocks, mmap, entry, pc, beyond, got>>
    PROVE  LoaderInv'
<1>1. /\ step = "init" /\ kinit_errno' = (IF M!Fault = 0 THEN kinit_errno ELSE M!Fault)
      /\ step' = (IF M!Fault = 0 THEN "relocate" ELSE "panic")
      /\ mem' = mem /\ standard' = standard /\ aligned' = aligned /\ tags' = tags /\ place' = place
      /\ mboot_ptr' = mboot_ptr /\ current_mmap_entry' = current_mmap_entry /\ copy' = copy
      /\ found' = found
  BY DEF M!multiboot_init, M!loader
<1>2. Loaded' = Loaded
  BY <1>1 DEF Loaded
<1>3. /\ ~ M!NoStructure => \A type : M!Has(type) <=> type \in ToSet(tags)
      /\ M!NoStructure <=> standard = 2 /\ place = 0
  <2>1. mboot_ptr = place
    BY <1>1 DEF LoaderInv, InPlace, Moved
  <2> QED  BY <1>1, <2>1, HasIsIn DEF LoaderInv, M!NoStructure, M!NULL
<1>4. LoaderOK'
  BY <1>1 DEF LoaderInv, LoaderOK, SaneMemory
<1>5. place # 0 => Lies(place)'
  BY <1>1, <1>2 DEF LoaderInv, InPlace, Lies
<1>6. InPlace' /\ Copying' /\ InOrder'
  BY <1>1, <1>5 DEF LoaderInv, InPlace, Moved, Copying, InOrder
<1>7. M!Fault \in Nat
  BY DEF M!Fault, M!MBOOT_ERROR_MISALIGNED_HEADER, M!MBOOT_ERROR_UNSUPPORTED,
         M!MBOOT_ERROR_INVALID_BOOTSTRUCT, M!MBOOT_ERROR_INVALID_MEMSIZE,
         M!MBOOT_ERROR_INVALID_MEMORY_MAP
<1>8. NumbersOK'
  BY <1>1, <1>7 DEF LoaderInv, NumbersOK
<1>9. PanicNamesFault'
  <2>1. aligned \in BOOLEAN
    BY LoaderAssumption DEF LoaderInv, LoaderOK
  <2>2. ToSet(tags)' = ToSet(tags)
    BY <1>1
  <2> DEFINE Missing == standard = 2 /\ place = 0
             Named ==
                 IF ~ aligned THEN M!MBOOT_ERROR_MISALIGNED_HEADER
                 ELSE IF standard = 0 THEN M!MBOOT_ERROR_UNSUPPORTED
                 ELSE IF Missing THEN M!MBOOT_ERROR_INVALID_BOOTSTRUCT
                 ELSE IF "memsz" \notin ToSet(tags) THEN M!MBOOT_ERROR_INVALID_MEMSIZE
                 ELSE M!MBOOT_ERROR_INVALID_MEMORY_MAP
             Good == aligned /\ standard # 0 /\ ~ Missing /\ {"memsz", "mmap"} \subseteq ToSet(tags)
  <2>3. M!Fault = IF Good THEN 0 ELSE Named
    BY <1>3, <2>1 DEF M!Fault
  <2>4. Named # 0
    BY DEF M!MBOOT_ERROR_MISALIGNED_HEADER, M!MBOOT_ERROR_UNSUPPORTED,
           M!MBOOT_ERROR_INVALID_BOOTSTRUCT, M!MBOOT_ERROR_INVALID_MEMSIZE,
           M!MBOOT_ERROR_INVALID_MEMORY_MAP
  <2>5. CASE Good
    <3>1. step' = "relocate"
      BY <1>1, <2>3, <2>5
    <3> QED  BY <1>1, <2>2, <2>5, <3>1 DEF PanicNamesFault, M!NULL
  <2>6. CASE ~ Good
    <3> HIDE DEF Good
    <3>1. step' = "panic" /\ kinit_errno' = Named
      BY <1>1, <2>3, <2>4, <2>6
    <3> QED  BY <1>1, <2>2, <3>1 DEF PanicNamesFault, M!NULL
  <2> QED  BY <2>5, <2>6
<1> QED  BY <1>4, <1>6, <1>8, <1>9 DEF LoaderInv

LEMMA RelocateStep ==
    ASSUME LoaderInv, M!mboot2_relocate_tags \/ M!multiboot_unimplemented,
           UNCHANGED <<mbmp, used_blocks, mmap, entry, pc, beyond, got>>
    PROVE  LoaderInv'
<1>1. /\ step = "relocate" /\ kinit_errno' = kinit_errno
      /\ mem' = mem /\ standard' = standard /\ aligned' = aligned /\ tags' = tags /\ place' = place
      /\ mboot_ptr' = mboot_ptr /\ current_mmap_entry' = current_mmap_entry
      /\ found' = found
  BY DEF M!mboot2_relocate_tags, M!multiboot_unimplemented, M!loader
<1>2. Loaded' = Loaded
  BY <1>1 DEF Loaded
<1>3. LoaderOK' /\ NumbersOK'
  BY <1>1 DEF LoaderInv, LoaderOK, SaneMemory, NumbersOK
<1>4. CASE M!mboot2_relocate_tags
  <2>1. mem[mboot_ptr].n = Len(Loaded) /\ Len(Loaded) \in Nat
    <3>1. standard = 2 /\ Len(Loaded) \in Nat \ {0} /\ Loaded[1].n = Len(Loaded)
      BY <1>4, LoadedSane DEF M!mboot2_relocate_tags, LoaderInv, LoaderOK
    <3>2. 1 \in 1..Len(Loaded) /\ mboot_ptr \in Nat
      BY <3>1, HasRoom DEF LoaderInv
    <3>3. mboot_ptr + 1 - 1 = mboot_ptr
      BY <3>2
    <3>4. Lies(mboot_ptr)
      BY <1>1, <3>1, HasPlace DEF LoaderInv, InPlace, Moved
    <3>5. mem[mboot_ptr] = Loaded[1]
      BY <3>2, <3>3, <3>4 DEF Lies
    <3> QED  BY <3>1, <3>5
  <2>2. /\ standard = 2 /\ step' = "copy"
        /\ copy' = [from |-> mboot_ptr, to |-> EndCell + Len(Loaded), length |-> Len(Loaded), done |-> 0]
    BY <1>4, <2>1 DEF M!mboot2_relocate_tags, M!Destination
  <2>3. Copying'
    BY <1>1, <1>2, <2>1, <2>2 DEF Copying
  <2> QED
    BY <1>1, <1>2, <1>3, <2>2, <2>3
    DEF LoaderInv, InPlace, Moved, InOrder, PanicNamesFault
<1>5. CASE M!multiboot_unimplemented
  <2>1. standard = 1 /\ step' = "fill"
    BY <1>5 DEF M!multiboot_unimplemented
  <2> QED
    BY <1>1, <1>2, <1>3, <2>1 DEF LoaderInv, InPlace, Moved, Copying, InOrder, PanicNamesFault
<1> QED  BY <1>4, <1>5

(***************************************************************************)
(* What is copied are cells of memory, and a map is not cut off where it   *)
(* is copied to.                                                           *)
(***************************************************************************)
LEMMA CopyInside ==
    ASSUME LoaderInv, M!ki_memcpy
    PROVE  /\ copy.from + copy.done \in M!Cell /\ copy.to + copy.done \in M!Cell
           /\ copy.to + copy.done + Entries <= Cells
           /\ copy.from = mboot_ptr /\ copy.to = EndCell + Len(Loaded) /\ standard = 2
           /\ copy.done \in 0..(Len(Loaded) - 1)
<1>1. /\ step = "copy" /\ copy.done < copy.length
  BY DEF M!ki_memcpy
<1>2. /\ standard = 2 /\ copy.from = mboot_ptr /\ copy.to = EndCell + Len(Loaded)
      /\ copy.length = Len(Loaded) /\ copy.done \in 0..Len(Loaded)
  BY <1>1 DEF LoaderInv, Copying
<1>3. Len(Loaded) \in Nat /\ EndCell + 2 * Len(Loaded) + Entries <= Cells
  BY <1>2, LoadedSane, LoaderAssumption DEF LoaderInv, LoaderOK, Loaded
<1>4. mboot_ptr \in M!Cell /\ mboot_ptr + Len(Loaded) <= Cells
  BY <1>1, <1>2, HasRoom, HasPlace DEF LoaderInv
<1>5. EndCell \in Nat /\ mboot_ptr \in Nat \ {0} /\ Entries \in Nat /\ Cells \in Nat
  BY <1>4, LoaderAssumption DEF M!Cell
<1>6. copy.done \in 0..(Len(Loaded) - 1)
  BY <1>1, <1>2, <1>3
<1>7. /\ mboot_ptr + copy.done \in 1..Cells
      /\ EndCell + Len(Loaded) + copy.done \in 1..Cells
      /\ EndCell + Len(Loaded) + copy.done + Entries <= Cells
  BY <1>3, <1>4, <1>5, <1>6
<1> QED  BY <1>2, <1>6, <1>7 DEF M!Cell

LEMMA CopyStep ==
    ASSUME LoaderInv, M!ki_memcpy, UNCHANGED <<mbmp, used_blocks, mmap, entry, pc, beyond, got>>
    PROVE  LoaderInv'
<1> DEFINE from == copy.from + copy.done
           to == copy.to + copy.done
<1>1. /\ step = "copy" /\ step' = step /\ kinit_errno' = kinit_errno
      /\ mem' = [mem EXCEPT ![to] = mem[from]]
      /\ copy' = [copy EXCEPT !.done = @ + 1]
      /\ standard' = standard /\ aligned' = aligned /\ tags' = tags /\ place' = place
      /\ mboot_ptr' = mboot_ptr /\ current_mmap_entry' = current_mmap_entry
      /\ found' = found
  BY DEF M!ki_memcpy, M!loader
<1>2. Loaded' = Loaded
  BY <1>1 DEF Loaded
<1>3. /\ from \in M!Cell /\ to \in M!Cell /\ to + Entries <= Cells /\ standard = 2
      /\ copy.done \in 0..(Len(Loaded) - 1)
  BY CopyInside
<1> HIDE DEF from, to
<1>4. SaneMemory'
  <2>1. mem' \in [M!Cell -> SaneCell]
    BY <1>1, <1>3 DEF LoaderInv, LoaderOK, SaneMemory
  <2>2. \A a \in M!Cell : mem'[a] = mem[a] \/ a = to
    BY <1>1, <1>3 DEF LoaderInv, LoaderOK, SaneMemory
  <2> QED  BY <1>3, <2>1, <2>2 DEF LoaderInv, LoaderOK, SaneMemory
<1>5. LoaderOK' /\ NumbersOK'
  BY <1>1, <1>3, <1>4 DEF LoaderInv, LoaderOK, NumbersOK
<1>6. Copying'
  <2>1. copy = [from |-> mboot_ptr, to |-> EndCell + Len(Loaded), length |-> Len(Loaded), done |-> copy.done]
    BY <1>1 DEF LoaderInv, Copying
  <2>2. copy' = [from |-> mboot_ptr, to |-> EndCell + Len(Loaded), length |-> Len(Loaded),
                 done |-> copy.done + 1]
    BY <1>1, <2>1
  <2>3. copy.done + 1 \in 0..Len(Loaded)
    BY <1>3, LoadedSane DEF LoaderInv, LoaderOK
  <2> QED  BY <1>1, <1>2, <1>3, <2>2, <2>3 DEF Copying
<1> QED
  BY <1>1, <1>2, <1>5, <1>6 DEF LoaderInv, InPlace, Moved, InOrder, PanicNamesFault

LEMMA RelocatedStep ==
    ASSUME LoaderInv, M!Relocated, UNCHANGED <<mbmp, used_blocks, mmap, entry, pc, beyond, got>>
    PROVE  LoaderInv'
<1>1. /\ step = "copy" /\ step' = "fill" /\ kinit_errno' = kinit_errno /\ mem' = mem
      /\ mboot_ptr' = copy.to
      /\ standard' = standard /\ aligned' = aligned /\ tags' = tags /\ place' = place
      /\ current_mmap_entry' = current_mmap_entry /\ found' = found
  BY DEF M!Relocated, M!loader
<1>2. Loaded' = Loaded
  BY <1>1 DEF Loaded
<1>3. standard = 2 /\ copy.to = EndCell + Len(Loaded)
  BY <1>1 DEF LoaderInv, Copying
<1>4. LoaderOK' /\ NumbersOK'
  BY <1>1 DEF LoaderInv, LoaderOK, SaneMemory, NumbersOK
<1> QED
  BY <1>1, <1>2, <1>3, <1>4
  DEF LoaderInv, InPlace, Moved, Copying, InOrder, PanicNamesFault

LEMMA FillStep ==
    ASSUME LoaderInv, M!FillBitmap, UNCHANGED <<mbmp, used_blocks, mmap, entry, pc, beyond, got>>
    PROVE  LoaderInv'
<1>1. /\ step = "fill" /\ step' = "regions" /\ kinit_errno' = kinit_errno
      /\ mem' = [a \in M!Cell |-> IF a \in M!Bitmap THEN M!Ones ELSE mem[a]]
      /\ standard' = standard /\ aligned' = aligned /\ tags' = tags /\ place' = place /\ mboot_ptr' = mboot_ptr
      /\ current_mmap_entry' = current_mmap_entry /\ found' = found
  BY DEF M!FillBitmap, M!loader
<1>2. Loaded' = Loaded
  BY <1>1 DEF Loaded
<1>3. M!Ones \in SaneCell /\ M!Ones.kind = "ones"
  BY DEF M!Ones, SaneCell, TagKind
<1>4. /\ mem' \in [M!Cell -> SaneCell]
      /\ \A a \in M!Cell : mem'[a] = mem[a] \/ mem'[a] = M!Ones
  BY <1>1, <1>3 DEF LoaderInv, LoaderOK, SaneMemory
<1>5. LoaderOK'
  BY <1>1, <1>3, <1>4 DEF LoaderInv, LoaderOK, SaneMemory
<1> QED
  BY <1>1, <1>2, <1>5
  DEF LoaderInv, InPlace, Moved, Copying, InOrder, PanicNamesFault, NumbersOK

LEMMA NoNextStep ==
    ASSUME LoaderInv, M!NoNext, UNCHANGED <<mbmp, used_blocks, mmap, entry, pc, beyond, got>>
    PROVE  LoaderInv'
<1>1. /\ step = "regions" /\ step' = "done"
      /\ kinit_errno' \in {kinit_errno, 6} /\ mem' = mem
      /\ standard' = standard /\ aligned' = aligned /\ tags' = tags /\ place' = place /\ mboot_ptr' = mboot_ptr
      /\ current_mmap_entry' = current_mmap_entry /\ found' = found
  BY DEF M!NoNext, M!loader, M!MBOOT_ERROR_ENTRY_NOT_FOUND
<1>2. Loaded' = Loaded
  BY <1>1 DEF Loaded
<1>3. LoaderOK'
  BY <1>1 DEF LoaderInv, LoaderOK, SaneMemory
<1>4. NumbersOK'
  BY <1>1 DEF LoaderInv, NumbersOK
<1> QED
  BY <1>1, <1>2, <1>3, <1>4
  DEF LoaderInv, InPlace, Moved, Copying, InOrder, PanicNamesFault

LEMMA CountersStay ==
    ASSUME NEW used \in UInt, NEW n \in Nat
    PROVE  Plus(used, n) \in UInt /\ Minus(used, n) \in UInt
<1>1. UIntMax + 1 \in Nat \ {0} /\ used + n \in Int /\ used - n \in Int
  BY BallocAssumption DEF UInt
<1>2. \A x \in Int : x % (UIntMax + 1) \in 0..((UIntMax + 1) - 1)
  BY <1>1
<1>3. (UIntMax + 1) - 1 = UIntMax
  BY BallocAssumption
<1> QED  BY <1>1, <1>2, <1>3 DEF Plus, Minus, UInt

(***************************************************************************)
(* The blocks of a region are numbers, and as many as fit in a counter's   *)
(* arithmetic.                                                             *)
(***************************************************************************)
LEMMA BlocksAreNumbers ==
    ASSUME NEW region \in Region
    PROVE  /\ (region.base % AddrSpace) \div PageSize \in Nat
           /\ BlockCount(region.length) \in Nat
           /\ Blocks(region.base, region.length) \subseteq Nat
<1>1. region.base \in Nat /\ region.length \in Nat /\ AddrSpace \in Nat \ {0} /\ PageSize \in Nat \ {0}
  BY EarlyAssumption DEF Region
<1>2. region.base % AddrSpace \in Nat /\ region.length % AddrSpace \in Nat
  BY <1>1
<1>3. \A n \in Nat : n \div PageSize \in Nat
  BY <1>1
<1>4. (region.base % AddrSpace) \div PageSize \in Nat /\ BlockCount(region.length) \in Nat
  BY <1>2, <1>3 DEF BlockCount
<1> QED  BY <1>4 DEF Blocks

(***************************************************************************)
(* What the loop frees is a region of the map, or what bytes that are no   *)
(* entry look like.                                                        *)
(***************************************************************************)
LEMMA RegionsAreRegions ==
    ASSUME LoaderOK, NEW a \in M!Cell, NEW region \in RegionsIn(mem[a])
    PROVE  region \in Region
<1>1. mem[a] \in SaneCell /\ mmap \in [1..Entries -> Region] /\ Noise \subseteq Region
  BY LoaderAssumption DEF LoaderOK, SaneMemory
<1>2. CASE mem[a].kind = "entry"
  <2>1. mem[a].n \in 1..Entries
    BY <1>1, <1>2 DEF SaneCell
  <2> QED  BY <1>1, <1>2, <2>1 DEF RegionsIn
<1>3. CASE mem[a].kind # "entry"
  BY <1>1, <1>3 DEF RegionsIn
<1> QED  BY <1>2, <1>3

LEMMA FreeNextStep ==
    ASSUME LoaderInv, FreeNextRegion
    PROVE  LoaderInv'
<1> DEFINE at == M!EntryAt(current_mmap_entry)
<1>1. /\ step = "regions" /\ M!HeadReadable /\ current_mmap_entry < M!MapEntries
      /\ current_mmap_entry' = current_mmap_entry + 1
      /\ standard' = standard /\ aligned' = aligned /\ tags' = tags /\ place' = place /\ mboot_ptr' = mboot_ptr
      /\ step' = step
  BY DEF FreeNextRegion, M!GetNext, M!loader
<1>2. PICK region \in RegionsIn(mem[at]) : FreeRegion(region) /\ mem' = Cleared(region)
  BY DEF FreeNextRegion
<1>3. Loaded' = Loaded
  BY <1>1 DEF Loaded
<1>4. standard # 0 /\ current_mmap_entry \in 0..Entries /\ Entries \in Nat
  BY <1>1, LoaderAssumption DEF LoaderInv, PanicNamesFault, InOrder
<1>5. M!MapEntries = Entries /\ at \in M!Cell
  BY <1>1, <1>4, ReadsInside DEF LoaderInv
<1>6. region \in Region
  BY <1>2, <1>5, RegionsAreRegions DEF LoaderInv
<1>7. /\ pc = "regions" /\ pc' = pc /\ entry' = entry + 1 /\ mmap' = mmap /\ kinit_errno' = kinit_errno
      /\ used_blocks' = used_blocks \/ used_blocks' = Minus(used_blocks, BlockCount(region.length))
      /\ beyond' = beyond \/ beyond' = beyond \cup (Blocks(region.base, region.length) \ Bit)
  BY <1>2 DEF FreeRegion
<1>8. NumbersOK'
  <2>1. BlockCount(region.length) \in Nat /\ Blocks(region.base, region.length) \subseteq Nat
    BY <1>6, BlocksAreNumbers
  <2>2. used_blocks \in UInt /\ beyond \subseteq Nat \ Bit /\ kinit_errno \in Nat
    BY DEF LoaderInv, NumbersOK
  <2>3. used_blocks' \in UInt
    BY <1>7, <2>1, <2>2, CountersStay
  <2>4. beyond' \subseteq Nat \ Bit
    BY <1>7, <2>1, <2>2
  <2> QED  BY <1>7, <2>2, <2>3, <2>4 DEF NumbersOK
<1>9. LoaderOK'
  <2>1. Torn \in SaneCell /\ Torn.kind = "other"
    BY DEF Torn, SaneCell, TagKind
  <2>2. mem \in [M!Cell -> SaneCell]
    BY DEF LoaderInv, LoaderOK, SaneMemory
  <2>3. /\ mem' \in [M!Cell -> SaneCell]
        /\ \A a \in M!Cell : mem'[a] = mem[a] \/ mem'[a] = Torn
    BY <1>2, <2>1, <2>2 DEF Cleared
  <2> QED  BY <1>1, <1>7, <2>1, <2>3 DEF LoaderInv, LoaderOK, SaneMemory
<1>10. InOrder'
  BY <1>1, <1>4, <1>5, <1>7 DEF LoaderInv, InOrder
<1> QED
  BY <1>1, <1>3, <1>8, <1>9, <1>10 DEF LoaderInv, InPlace, Moved, Copying, PanicNamesFault

LEMMA AllocatorStepKeeps ==
    ASSUME LoaderInv, AllocatorStep
    PROVE  LoaderInv'
<1>1. /\ step = "done" /\ UNCHANGED multibootVars
      /\ ReserveKernel \/ (\E x \in Structure : Build(x)) \/ Handover
  BY DEF AllocatorStep
<1>2. /\ mem' = mem /\ standard' = standard /\ aligned' = aligned /\ tags' = tags /\ place' = place
      /\ mboot_ptr' = mboot_ptr /\ current_mmap_entry' = current_mmap_entry /\ copy' = copy
      /\ step' = step /\ found' = found
  BY <1>1 DEF multibootVars
<1>3. mmap' = mmap /\ entry' = entry
  BY <1>1 DEF ReserveKernel, Build, Handover
<1>4. NumbersOK'
  <2>1. Structures[1] \in Structure /\ \A x \in Structure : After(x) \in Structure \cup {"handover"}
    <3>1. Structure = {"directory", "low_table", "kernel_table", "stack_table", "stack"}
      BY DEF Structure, Structures
    <3>2. \A k \in 1..5 : k # 5 => Structures[k + 1] \in Structure
      BY <3>1 DEF Structures
    <3>3. \A x \in Structure : \E k \in 1..5 : Structures[k] = x
      BY DEF Structure, Structures
    <3>4. Len(Structures) = 5
      BY DEF Structures
    <3>5. ASSUME NEW x \in Structure PROVE After(x) \in Structure \cup {"handover"}
      <4> DEFINE k == CHOOSE k \in 1..Len(Structures) : Structures[k] = x
      <4>1. k \in 1..5
        BY <3>3, <3>4
      <4>2. After(x) = IF k = 5 THEN "handover" ELSE Structures[k + 1]
        BY <3>4 DEF After
      <4> HIDE DEF k
      <4> QED  BY <3>2, <4>1, <4>2
    <3> QED  BY <3>1, <3>5 DEF Structures
  <2>2. NumbersOK /\ KernelEnd \in Nat
    BY EarlyAssumption DEF LoaderInv
  <2>3. CASE ReserveKernel
    BY <2>1, <2>2, <2>3, CountersStay DEF ReserveKernel, NumbersOK
  <2>4. CASE \E x \in Structure : Build(x)
    BY <2>1, <2>2, <2>4 DEF Build, NumbersOK, ENOMEM
  <2>5. CASE Handover
    BY <2>2, <2>5 DEF Handover, NumbersOK
  <2> QED  BY <1>1, <2>3, <2>4, <2>5
<1>5. Loaded' = Loaded
  BY <1>2 DEF Loaded
<1> QED
  BY <1>1, <1>2, <1>3, <1>4, <1>5
  DEF LoaderInv, LoaderOK, SaneMemory, InPlace, Moved, Copying, InOrder, PanicNamesFault

LEMMA NextLoaderInv == LoaderInv /\ [BootNext]_bootVars => LoaderInv'
<1> SUFFICES ASSUME LoaderInv, [BootNext]_bootVars PROVE LoaderInv'
  OBVIOUS
<1>1. CASE UNCHANGED bootVars
  <2>1. Loaded' = Loaded
    BY <1>1 DEF bootVars, multibootVars, Loaded
  <2> QED
    BY <1>1, <2>1
    DEF bootVars, earlyVars, multibootVars, LoaderInv, LoaderOK, SaneMemory, InPlace, Moved, Lies,
        Copying, InOrder, PanicNamesFault, NumbersOK
<1>2. CASE LoaderStep
  <2>1. UNCHANGED <<mbmp, used_blocks, mmap, entry, pc, beyond, got>>
    BY <1>2 DEF LoaderStep
  <2> QED
    BY <1>2, <2>1, BootInitStep, RelocateStep, CopyStep, RelocatedStep, FillStep, NoNextStep
    DEF LoaderStep
<1> QED
  BY <1>1, <1>2, FreeNextStep, AllocatorStepKeeps DEF BootNext

(***************************************************************************)
(* The loader's side of the boot code keeps its invariant, wherever the    *)
(* structure was put and whatever the loop reads: multiboot_get_mmap_next  *)
(* reads inside memory, in the order of the map and no more entries than   *)
(* the map has.                                                            *)
(***************************************************************************)
THEOREM LoaderInvariance == BootSpec => []LoaderInv
<1>1. BootInit => LoaderInv
  BY InitLoaderInv
<1>2. LoaderInv /\ [BootNext]_bootVars => LoaderInv'
  BY NextLoaderInv
<1> QED  BY <1>1, <1>2, PTL DEF BootSpec

(***************************************************************************)
(* If multiboot_init finds a fault the boot code panics with that fault's  *)
(* error code (multiboot.h), that of a missing structure included, and     *)
(* goes on only with one that has the memory size and the memory map: what *)
(* the walk over the tags finds is what the loader left.                   *)
(***************************************************************************)
THEOREM FaultNamed == BootSpec => []PanicNamesFault
<1>1. LoaderInv => PanicNamesFault
  BY DEF LoaderInv
<1> QED  BY <1>1, LoaderInvariance, PTL

-------------------------------------------------------------------------------
(***************************************************************************)
(* What was copied is right and what is still to copy is; the structure    *)
(* lies where the loop reads it; the loop has read its entries in order.   *)
(* The copy goes from the first cell to the last, so it is right unless    *)
(* the structure is in the way of the place it is moved to.                *)
(***************************************************************************)
CopiedRight ==
    step = "copy" /\ ~ OverwritesItself =>
        \A i \in 1..Len(Loaded) :
            /\ i <= copy.done => mem[EndCell + Len(Loaded) + i - 1] = Loaded[i]
            /\ i > copy.done => mem[mboot_ptr + i - 1] = Loaded[i]

Kept == (standard = 2 /\ step = "fill" /\ ~ OverwritesItself) \/ Readable => Lies(mboot_ptr)

ReadSoFar ==
    Readable =>
        /\ found \in Seq(SaneCell) /\ Len(found) = current_mmap_entry
        /\ \A i \in 1..current_mmap_entry : found[i] = [kind |-> "entry", n |-> i]
        /\ step = "done" => current_mmap_entry = Entries

ReadInv == CopiedRight /\ Kept /\ ReadSoFar

(***************************************************************************)
(* Where the structure lies, the k-th call of multiboot_get_mmap_next      *)
(* reads the map's k-th entry, and the loop ends with the last.            *)
(***************************************************************************)
LEMMA ReadsEntries ==
    ASSUME LoaderInv, Readable, Lies(mboot_ptr)
    PROVE  /\ M!MapEntries = Entries
           /\ \A c \in 0..(Entries - 1) :
                  mem[M!EntryAt(c)] = [kind |-> "entry", n |-> c + 1]
<1>1. /\ standard = 2 /\ "mmap" \in ToSet(tags) /\ SaneMemory /\ mboot_ptr \in M!Cell
      /\ tags \in Seq(TagKind) /\ Len(Loaded) \in Nat
  BY HasPlace, LoadedSane DEF Readable, LoaderInv, PanicNamesFault, LoaderOK
<1>2. PICK i \in 1..Len(Loaded) :
          /\ M!mboot2_find_tag("mmap") = mboot_ptr + i - 1
          /\ i + TagLen("mmap") <= Len(Loaded)
          /\ TagAt(Loaded, i, "mmap")
  BY <1>1, FindsTag
<1>3. mboot_ptr \in Nat \ {0} /\ Entries \in Nat
  BY <1>1, LoaderAssumption DEF M!Cell
<1>4. mem[mboot_ptr + i - 1] = [kind |-> "mmap", n |-> 1 + Entries]
  BY <1>2 DEF Lies, TagAt, TagLen
<1>5. M!MapEntries = Entries
  <2>1. mboot_ptr + i - 1 # 0
    BY <1>3
  <2> QED  BY <1>1, <1>2, <1>3, <1>4, <2>1 DEF M!MapEntries, M!NULL
<1>6. ASSUME NEW c \in 0..(Entries - 1)
      PROVE  mem[M!EntryAt(c)] = [kind |-> "entry", n |-> c + 1]
  <2>1. M!EntryAt(c) = mboot_ptr + (i + (c + 1)) - 1
    BY <1>1, <1>2, <1>3 DEF M!EntryAt
  <2>2. i + (c + 1) \in 1..Len(Loaded) /\ c + 1 \in 1..Entries
    BY <1>1, <1>2, <1>3 DEF TagLen
  <2>3. Loaded[i + (c + 1)] = [kind |-> "entry", n |-> c + 1]
    BY <1>2, <2>2 DEF TagAt
  <2> QED  BY <2>1, <2>2, <2>3 DEF Lies
<1> QED  BY <1>5, <1>6

LEMMA InitReadInv == BootInit => ReadInv
BY DEF BootInit, M!Init, ReadInv, CopiedRight, Kept, Readable, ReadSoFar

(***************************************************************************)
(* The copy: what it has still to copy is not where it writes.             *)
(***************************************************************************)
LEMMA LoaderStepReadInv ==
    ASSUME LoaderInv, ReadInv, LoaderStep
    PROVE  ReadInv'
<1>1. mmap' = mmap /\ standard' = standard /\ aligned' = aligned /\ tags' = tags /\ place' = place
  BY DEF LoaderStep, M!multiboot_init, M!mboot2_relocate_tags, M!multiboot_unimplemented,
         M!ki_memcpy, M!Relocated, M!FillBitmap, M!NoNext, M!loader
<1>2. Loaded' = Loaded /\ (OverwritesItself' <=> OverwritesItself)
  BY <1>1 DEF Loaded, OverwritesItself, M!Destination
<1>3. standard \in Standards /\ tags \in TagLists /\ Len(Loaded) \in Nat \ {0} /\ mboot_ptr \in Nat
      /\ EndCell \in Nat
  BY LoadedSane, HasRoom, LoaderAssumption DEF LoaderInv, LoaderOK, M!Cell
<1>4. CASE M!multiboot_init \/ M!multiboot_unimplemented
  <2>1. step' \in {"relocate", "panic"} \/ (standard = 1 /\ step' = "fill")
    BY <1>4 DEF M!multiboot_init, M!multiboot_unimplemented
  <2> QED
    BY <1>1, <2>1 DEF ReadInv, CopiedRight, Kept, Readable, ReadSoFar
<1>5. CASE M!mboot2_relocate_tags
  <2>1. /\ step = "relocate" /\ step' = "copy" /\ mem' = mem /\ mboot_ptr' = mboot_ptr
        /\ copy'.done = 0
    BY <1>5 DEF M!mboot2_relocate_tags
  <2>2. Lies(mboot_ptr)
    <3>1. standard = 2 /\ step \notin {"init", "panic"}
      BY <1>5 DEF M!mboot2_relocate_tags
    <3> QED  BY <2>1, <3>1, HasPlace DEF LoaderInv, InPlace, Moved
  <2>3. CopiedRight'
    BY <1>2, <1>3, <2>1, <2>2 DEF CopiedRight, Lies
  <2> QED  BY <2>1, <2>3 DEF ReadInv, Kept, Readable, ReadSoFar
<1>6. CASE M!ki_memcpy
  <2> DEFINE d == copy.done
             E == EndCell + Len(Loaded)
  <2>1. /\ step = "copy" /\ step' = "copy" /\ mem' = [mem EXCEPT ![E + d] = mem[mboot_ptr + d]]
        /\ copy' = [copy EXCEPT !.done = d + 1] /\ mboot_ptr' = mboot_ptr
        /\ d \in 0..(Len(Loaded) - 1) /\ E + d \in M!Cell /\ standard = 2
    BY <1>6, CopyInside DEF M!ki_memcpy
  <2>2. copy'.done = d + 1
    BY <2>1 DEF LoaderInv, Copying
  <2> SUFFICES ASSUME ~ OverwritesItself PROVE ReadInv'
    BY <1>2, <2>1 DEF ReadInv, CopiedRight, Kept, Readable, ReadSoFar
  <2>3. mboot_ptr <= EndCell \/ mboot_ptr >= E
    <3>1. mboot_ptr = place
      BY <2>1 DEF LoaderInv, InPlace, Moved
    <3> QED  BY <1>3, <3>1 DEF OverwritesItself, M!Destination
  <2>4. \A i \in 1..Len(Loaded) :
            /\ i <= d => mem[E + i - 1] = Loaded[i]
            /\ i > d => mem[mboot_ptr + i - 1] = Loaded[i]
    BY <2>1 DEF ReadInv, CopiedRight
  <2>5. mem \in [M!Cell -> SaneCell] /\ M!Cell = 1..Cells /\ Cells \in Nat
    BY LoaderAssumption DEF LoaderInv, LoaderOK, SaneMemory, M!Cell
  <2>6. mboot_ptr + Len(Loaded) <= Cells /\ E + Len(Loaded) <= Cells /\ mboot_ptr \in M!Cell
    <3>1. E + Len(Loaded) + Entries <= Cells
      <4>1. EndCell + 2 * Len(Loaded) + Entries <= Cells
        BY <1>3, <2>1, LoaderAssumption DEF Loaded
      <4> QED  BY <1>3, <4>1, LoaderAssumption
    <3>2. mboot_ptr \in M!Cell
      BY <2>1, HasPlace
    <3> QED  BY <1>3, <3>1, <3>2, HasRoom, LoaderAssumption DEF LoaderInv
  <2> HIDE DEF d
  <2>7. ASSUME NEW i \in 1..Len(Loaded)
        PROVE  /\ i <= d + 1 => mem'[E + i - 1] = Loaded[i]
               /\ i > d + 1 => mem'[mboot_ptr + i - 1] = Loaded[i]
    <3>1. CASE i <= d
      <4>1. E + i - 1 # E + d
        BY <1>3, <2>1, <3>1
      <4>2. E + i - 1 \in M!Cell
        BY <1>3, <2>5, <2>6
      <4> QED  BY <1>3, <2>1, <2>4, <2>5, <3>1, <4>1, <4>2
    <3>2. CASE i = d + 1
      <4>1. E + i - 1 = E + d /\ mboot_ptr + i - 1 = mboot_ptr + d /\ i > d
        BY <1>3, <2>1, <3>2
      <4>2. mem'[E + d] = mem[mboot_ptr + d]
        BY <2>1, <2>5
      <4>3. mem'[E + i - 1] = Loaded[i]
        BY <2>4, <4>1, <4>2
      <4> QED  BY <2>1, <3>2, <4>3
    <3>3. CASE i > d + 1
      <4>1. mboot_ptr + i - 1 # E + d
        BY <1>3, <2>1, <2>3, <3>3
      <4>2. mboot_ptr + i - 1 \in M!Cell
        BY <1>3, <2>5, <2>6
      <4>3. i > d
        BY <2>1, <3>3
      <4> QED  BY <1>3, <2>1, <2>4, <2>5, <3>3, <4>1, <4>2, <4>3
    <3> QED  BY <2>1, <3>1, <3>2, <3>3
  <2>8. CopiedRight'
    BY <1>2, <2>1, <2>2, <2>7 DEF CopiedRight
  <2> QED  BY <2>1, <2>8 DEF ReadInv, Kept, Readable, ReadSoFar
<1>7. CASE M!Relocated
  <2>1. /\ step = "copy" /\ step' = "fill" /\ mem' = mem /\ mboot_ptr' = copy.to
        /\ copy.done = copy.length
    BY <1>7 DEF M!Relocated
  <2>2. copy.to = EndCell + Len(Loaded) /\ copy.length = Len(Loaded) /\ standard = 2
    BY <2>1 DEF LoaderInv, Copying
  <2>3. EndCell + 2 * Len(Loaded) + Entries <= Cells
    BY <1>3, <2>2, LoaderAssumption DEF Loaded
  <2> SUFFICES ASSUME ~ OverwritesItself PROVE ReadInv'
    BY <1>2, <2>1 DEF ReadInv, CopiedRight, Kept, Readable, ReadSoFar
  <2>4. ASSUME NEW i \in 1..Len(Loaded)
        PROVE  mboot_ptr' + i - 1 \in M!Cell /\ mem'[mboot_ptr' + i - 1] = Loaded[i]
    <3>1. mem[EndCell + Len(Loaded) + i - 1] = Loaded[i]
      BY <1>3, <2>1, <2>2 DEF ReadInv, CopiedRight
    <3>2. EndCell + Len(Loaded) + i - 1 \in M!Cell
      BY <1>3, <2>3, LoaderAssumption DEF M!Cell
    <3> QED  BY <2>1, <2>2, <3>1, <3>2
  <2>5. Lies(mboot_ptr)'
    BY <1>2, <2>4 DEF Lies
  <2> QED  BY <2>1, <2>5 DEF ReadInv, CopiedRight, Kept, Readable, ReadSoFar
<1>8. CASE M!FillBitmap
  <2>1. /\ step = "fill" /\ step' = "regions" /\ mboot_ptr' = mboot_ptr
        /\ mem' = [a \in M!Cell |-> IF a \in M!Bitmap THEN M!Ones ELSE mem[a]]
        /\ current_mmap_entry' = current_mmap_entry /\ found' = found
    BY <1>8 DEF M!FillBitmap
  <2>2. ASSUME standard = 2, ~ OverwritesItself
        PROVE  Lies(mboot_ptr)'
    <3>1. Lies(mboot_ptr) /\ mboot_ptr = EndCell + Len(Loaded)
      BY <2>1, <2>2 DEF ReadInv, Kept, LoaderInv, InPlace, Moved
    <3>2. \A a \in M!Bitmap : a < EndCell
      <4>1. BitmapWords \in Int
        BY BallocAssumption DEF BitmapWords
      <4> QED  BY <4>1, LoaderAssumption DEF M!Bitmap, M!Cell
    <3>3. \A i \in 1..Len(Loaded) : mboot_ptr + i - 1 \notin M!Bitmap
      BY <1>3, <3>1, <3>2
    <3> QED  BY <1>2, <2>1, <3>1, <3>3 DEF Lies
  <2>3. Readable' => ReadSoFar'
    <3>1. current_mmap_entry = 0 /\ found = <<>>
      BY <2>1 DEF LoaderInv, InOrder
    <3> QED  BY <2>1, <3>1 DEF ReadSoFar
  <2> QED  BY <1>1, <1>2, <2>1, <2>2, <2>3 DEF ReadInv, CopiedRight, Kept, Readable, ReadSoFar
<1>9. CASE M!NoNext
  <2>1. /\ step = "regions" /\ step' = "done" /\ mem' = mem /\ mboot_ptr' = mboot_ptr
        /\ current_mmap_entry' = current_mmap_entry /\ found' = found
        /\ current_mmap_entry >= M!MapEntries
    BY <1>9 DEF M!NoNext
  <2>2. OutOfReach' <=> OutOfReach
    BY <1>1, <1>2, <2>1 DEF OutOfReach, Extent
  <2>3. Readable' <=> Readable
    BY <1>1, <1>2, <2>1, <2>2 DEF Readable
  <2>4. Readable => current_mmap_entry = Entries
    <3>1. current_mmap_entry \in 0..Entries /\ Entries \in Nat
      BY LoaderAssumption DEF LoaderInv, InOrder
    <3>2. ASSUME Readable PROVE M!MapEntries = Entries
      BY <3>2, ReadsEntries DEF ReadInv, Kept
    <3> QED  BY <2>1, <3>1, <3>2
  <2>5. Kept'
    BY <1>2, <2>1, <2>3 DEF ReadInv, Kept, Lies
  <2>6. ReadSoFar'
    BY <2>1, <2>3, <2>4 DEF ReadInv, ReadSoFar
  <2> QED  BY <2>1, <2>5, <2>6 DEF ReadInv, CopiedRight
<1> QED  BY <1>4, <1>5, <1>6, <1>7, <1>8, <1>9 DEF LoaderStep

(***************************************************************************)
(* One turn of the loop, on a structure that its own map does not reach:   *)
(* the next entry of the map is read, its region freed, and the structure  *)
(* stays as it is.                                                         *)
(***************************************************************************)
LEMMA FreeNextReads ==
    ASSUME LoaderInv, ReadInv, FreeNextRegion
    PROVE  /\ Readable' <=> Readable
           /\ Readable => /\ current_mmap_entry' = current_mmap_entry + 1
                          /\ current_mmap_entry' \in 1..Entries
                          /\ mmap' = mmap
                          /\ FreeRegion(mmap[current_mmap_entry'])
           /\ ReadInv'
<1> DEFINE c == current_mmap_entry
           cell == mem[M!EntryAt(c)]
<1>1. /\ step = "regions" /\ step' = step /\ c < M!MapEntries /\ c' = c + 1
      /\ found' = Append(found, cell)
      /\ standard' = standard /\ tags' = tags /\ place' = place /\ mboot_ptr' = mboot_ptr
  BY DEF FreeNextRegion, M!GetNext, M!loader
<1>2. PICK region \in RegionsIn(cell) : FreeRegion(region) /\ mem' = Cleared(region)
  BY DEF FreeNextRegion
<1>3. mmap' = mmap
  BY <1>2 DEF FreeRegion
<1>4. Loaded' = Loaded
  BY <1>1 DEF Loaded
<1>5. Readable' <=> Readable
  BY <1>1, <1>3, <1>4 DEF Readable, OverwritesItself, M!Destination, OutOfReach, Extent
<1>6. c \in 0..Entries /\ Entries \in Nat /\ mmap \in [1..Entries -> Region]
  BY LoaderAssumption DEF LoaderInv, InOrder, LoaderOK
<1>7. ASSUME Readable
      PROVE  /\ c' = c + 1 /\ c' \in 1..Entries /\ mmap' = mmap /\ FreeRegion(mmap[c'])
             /\ Lies(mboot_ptr)' /\ ReadSoFar'
  <2>1. Lies(mboot_ptr)
    BY <1>7 DEF ReadInv, Kept
  <2>2. M!MapEntries = Entries /\ \A k \in 0..(Entries - 1) :
                                      mem[M!EntryAt(k)] = [kind |-> "entry", n |-> k + 1]
    BY <1>7, <2>1, ReadsEntries
  <2>3. c \in 0..(Entries - 1) /\ c + 1 \in 1..Entries
    BY <1>1, <1>6, <2>2
  <2>4. cell = [kind |-> "entry", n |-> c + 1]
    BY <2>2, <2>3
  <2> HIDE DEF c, cell
  <2>5. region = mmap[c + 1]
    BY <1>2, <2>4 DEF RegionsIn
  <2>6. Lies(mboot_ptr)'
    <3>1. CASE ~ Frees(region)
      BY <1>1, <1>2, <1>4, <2>1, <3>1 DEF Cleared, Lies
    <3>2. CASE Frees(region)
      <4> DEFINE hit == CellsOf(Blocks(region.base, region.length)) \ M!Bitmap
      <4>1. mem' = [a \in M!Cell |-> IF a \in hit THEN Torn ELSE mem[a]]
        BY <1>2, <3>2 DEF Cleared
      <4>2. hit \cap Extent = {}
        <5>1. Len(mmap) = Entries
          BY <1>6
        <5> QED  BY <1>7, <2>3, <2>5, <3>2, <5>1 DEF Readable, OutOfReach
      <4> HIDE DEF hit
      <4>3. \A i \in 1..Len(Loaded) : mboot_ptr + i - 1 \in Extent
        <5>1. Len(Loaded) \in Nat /\ mboot_ptr \in Nat
          BY LoadedSane, HasRoom DEF LoaderInv, LoaderOK
        <5> QED  BY <5>1 DEF Extent
      <4> QED  BY <1>1, <1>4, <2>1, <4>1, <4>2, <4>3 DEF Lies
    <3> QED  BY <3>1, <3>2
  <2>7. ReadSoFar'
    <3>1. found \in Seq(SaneCell) /\ Len(found) = c
          /\ \A i \in 1..c : found[i] = [kind |-> "entry", n |-> i]
      BY <1>7 DEF ReadInv, ReadSoFar, c
    <3>2. cell \in SaneCell
      BY <2>3, <2>4 DEF SaneCell, TagKind
    <3>3. found' \in Seq(SaneCell) /\ Len(found') = c + 1
          /\ \A i \in 1..(c + 1) : found'[i] = [kind |-> "entry", n |-> i]
      BY <1>1, <1>6, <2>4, <3>1, <3>2
    <3>4. current_mmap_entry' = c + 1 /\ step' = "regions"
      BY <1>1 DEF c
    <3> QED  BY <3>3, <3>4 DEF ReadSoFar
  <2> QED  BY <1>1, <1>2, <1>3, <2>3, <2>5, <2>6, <2>7 DEF c
<1>8. ReadInv'
  BY <1>1, <1>5, <1>7 DEF ReadInv, CopiedRight, Kept, ReadSoFar
<1> QED  BY <1>5, <1>7, <1>8

LEMMA AllocatorReads ==
    ASSUME ReadInv, AllocatorStep
    PROVE  ReadInv' /\ (Readable' <=> Readable)
<1>1. /\ step = "done" /\ UNCHANGED multibootVars
      /\ ReserveKernel \/ (\E x \in Structure : Build(x)) \/ Handover
  BY DEF AllocatorStep
<1>2. /\ mem' = mem /\ standard' = standard /\ tags' = tags /\ place' = place
      /\ mboot_ptr' = mboot_ptr /\ current_mmap_entry' = current_mmap_entry
      /\ step' = step /\ found' = found
  BY <1>1 DEF multibootVars
<1>3. mmap' = mmap
  BY <1>1 DEF ReserveKernel, Build, Handover
<1>4. Loaded' = Loaded
  BY <1>2 DEF Loaded
<1>5. Readable' <=> Readable
  BY <1>2, <1>3, <1>4 DEF Readable, OverwritesItself, M!Destination, OutOfReach, Extent
<1> QED
  BY <1>1, <1>2, <1>4, <1>5 DEF ReadInv, CopiedRight, Kept, Lies, ReadSoFar

(***************************************************************************)
(* Every step keeps what was read right.                                   *)
(***************************************************************************)
LEMMA NextReadInv == LoaderInv /\ ReadInv /\ [BootNext]_bootVars => ReadInv'
<1> SUFFICES ASSUME LoaderInv, ReadInv, [BootNext]_bootVars PROVE ReadInv'
  OBVIOUS
<1>1. CASE UNCHANGED bootVars
  <2>1. Loaded' = Loaded
    BY <1>1 DEF bootVars, multibootVars, Loaded
  <2> QED
    BY <1>1, <2>1
    DEF bootVars, earlyVars, multibootVars, ReadInv, CopiedRight, Kept, Readable, OverwritesItself,
        M!Destination, OutOfReach, Extent, Lies, ReadSoFar
<1> QED
  BY <1>1, LoaderStepReadInv, FreeNextReads, AllocatorReads DEF BootNext

LEMMA ReadInvariance == BootSpec => [](LoaderInv /\ ReadInv)
<1>1. BootInit => LoaderInv /\ ReadInv
  BY InitLoaderInv, InitReadInv
<1>2. LoaderInv /\ ReadInv /\ [BootNext]_bootVars => (LoaderInv /\ ReadInv)'
  BY NextLoaderInv, NextReadInv
<1> QED  BY <1>1, <1>2, PTL DEF BootSpec

(***************************************************************************)
(* The loop over multiboot_get_mmap_next sees the entries that the loader  *)
(* left, once and in order, and nothing else (MapRead), on a structure     *)
(* that its own map does not reach and that is not in the way of the place *)
(* mboot2_relocate_tags copies it to.                                      *)
(***************************************************************************)
THEOREM MapWholeRead == BootSpec => []MapRead
<1>1. LoaderInv /\ ReadInv => MapRead
  <2> SUFFICES ASSUME LoaderInv, ReadInv, Readable
               PROVE  /\ IsPrefix(found, M!MapCells)
                      /\ step = "done" => found = M!MapCells
                      /\ \A i \in DOMAIN Loaded : mem[mboot_ptr + i - 1] = Loaded[i]
    BY DEF MapRead
  <2> DEFINE c == current_mmap_entry
  <2>1. /\ found \in Seq(SaneCell) /\ Len(found) = c
        /\ \A i \in 1..c : found[i] = [kind |-> "entry", n |-> i]
        /\ step = "done" => c = Entries
    BY DEF ReadInv, ReadSoFar
  <2>2. c \in 0..Entries /\ Entries \in Nat
    BY LoaderAssumption DEF LoaderInv, InOrder
  <2>3. /\ M!MapCells \in Seq(SaneCell) /\ Len(M!MapCells) = Entries
        /\ \A k \in 1..Entries : M!MapCells[k] = [kind |-> "entry", n |-> k]
    BY MapCellsSane
  <2> HIDE DEF c
  <2>4. \A i \in 1..c : found[i] = M!MapCells[i]
    BY <2>1, <2>2, <2>3
  <2>5. IsPrefix(found, M!MapCells)
    <3>1. SubSeq(found, 1, c) = [i \in 1..c |-> found[i]]
      BY <2>1, <2>2
    <3>2. SubSeq(M!MapCells, 1, c) = [i \in 1..c |-> M!MapCells[i]]
      BY <2>2, <2>3
    <3>3. SubSeq(found, 1, c) = SubSeq(M!MapCells, 1, c)
      BY <2>4, <3>1, <3>2
    <3> QED  BY <2>1, <2>2, <2>3, <3>3 DEF IsPrefix
  <2>6. ASSUME step = "done" PROVE found = M!MapCells
    BY <2>1, <2>3, <2>4, <2>6
  <2>7. \A i \in DOMAIN Loaded : mem[mboot_ptr + i - 1] = Loaded[i]
    <3>1. Loaded \in Seq(SaneCell)
      BY LoadedSane DEF LoaderInv, LoaderOK
    <3>2. DOMAIN Loaded = 1..Len(Loaded)
      BY <3>1
    <3> QED  BY <3>2 DEF ReadInv, Kept, Lies
  <2> QED  BY <2>5, <2>6, <2>7
<1> QED  BY <1>1, ReadInvariance, PTL

-------------------------------------------------------------------------------
(***************************************************************************)
(* A structure that is still to be built has no block, so the block of one *)
(* that is built stays.                                                    *)
(***************************************************************************)
LaterNull ==
    \A k, m \in 1..Len(Structures) :
        pc = Structures[k] /\ k <= m => got[Structures[m]] = NULL

(***************************************************************************)
(* The allocator offers the blocks that the loop freed, and no other: they *)
(* are free, or a page structure has them, or they are the kernel's.       *)
(***************************************************************************)
Freed(b) ==
    \E k \in 1..current_mmap_entry :
        Frees(mmap[k]) /\ b \in Blocks(mmap[k].base, mmap[k].length)

Offered(b) == b \notin mbmp \/ \E x \in Structure : got[x] = b /\ b # NULL

FreedOffered ==
    Readable => \A b \in Block : /\ Offered(b) => Freed(b)
                                 /\ Freed(b) => b < KernelEnd \/ Offered(b)

(***************************************************************************)
(* The order of ki_setup_paging.                                           *)
(***************************************************************************)
LEMMA StructuresAre ==
    /\ Len(Structures) = 5
    /\ Structure = {"directory", "low_table", "kernel_table", "stack_table", "stack"}
    /\ \A k \in 1..5 : Structures[k] \in Structure
    /\ \A x \in Structure : \E k \in 1..5 : x = Structures[k]
    /\ \A k, m \in 1..5 : Structures[k] = Structures[m] => k = m
    /\ \A k \in 1..5 : After(Structures[k]) = IF k = 5 THEN "handover" ELSE Structures[k + 1]
<1>1. /\ Len(Structures) = 5
      /\ Structure = {"directory", "low_table", "kernel_table", "stack_table", "stack"}
      /\ \A k \in 1..5 : Structures[k] \in Structure
      /\ \A x \in Structure : \E k \in 1..5 : x = Structures[k]
  BY DEF Structure, Structures
<1>2. \A k, m \in 1..5 : Structures[k] = Structures[m] => k = m
  BY DEF Structures
<1>3. ASSUME NEW k \in 1..5
      PROVE  After(Structures[k]) = IF k = 5 THEN "handover" ELSE Structures[k + 1]
  <2>1. (CHOOSE j \in 1..Len(Structures) : Structures[j] = Structures[k]) = k
    BY <1>1, <1>2
  <2> QED  BY <1>1, <2>1 DEF After
<1> QED  BY <1>1, <1>2, <1>3

LEMMA LaterNullKept ==
    ASSUME IInv, LaterNull, [BootNext]_bootVars
    PROVE  LaterNull'
<1>1. CASE UNCHANGED <<pc, got>>
  BY <1>1 DEF LaterNull
<1>2. CASE \E region : FreeRegion(region)
  BY <1>1, <1>2 DEF FreeRegion
<1>3. CASE ReserveKernel
  <2>1. \A x \in Structure : got'[x] = NULL
    BY <1>3 DEF ReserveKernel, IInv, NoneWhileFreeing, Reserved
  <2> QED  BY <2>1, StructuresAre DEF LaterNull
<1>4. ASSUME NEW x \in Structure, Build(x)
      PROVE  LaterNull'
  <2>1. PICK k \in 1..5 : x = Structures[k]
    BY StructuresAre
  <2>2. pc = Structures[k] /\ \A m \in 1..5 : k <= m => got[Structures[m]] = NULL
    BY <1>4, <2>1, StructuresAre DEF Build, LaterNull
  <2>3. CASE pc' = "handover"
    BY <2>3, StructuresAre DEF LaterNull
  <2>4. CASE pc' # "handover"
    <3>1. pc' = After(Structures[k]) /\ \E b : got' = [got EXCEPT ![Structures[k]] = b]
      BY <1>4, <2>1, <2>4 DEF Build
    <3>2. k # 5 /\ pc' = Structures[k + 1] /\ k + 1 \in 1..5
      BY <2>4, <3>1, StructuresAre
    <3>3. ASSUME NEW j \in 1..5, NEW m \in 1..5, pc' = Structures[j], j <= m
          PROVE  got'[Structures[m]] = NULL
      <4>1. j = k + 1
        <5>1. Structures[j] = Structures[k + 1]
          BY <3>2, <3>3
        <5> HIDE DEF Structures
        <5> QED  BY <3>2, <5>1, StructuresAre
      <4>2. m # k /\ k <= m
        BY <3>3, <4>1
      <4>3. Structures[m] # Structures[k]
        BY <4>2, StructuresAre
      <4> QED  BY <2>2, <3>1, <4>2, <4>3, StructuresAre DEF IInv, BitmapOK
    <3> QED  BY <3>3, StructuresAre DEF LaterNull
  <2> QED  BY <2>3, <2>4
<1>5. CASE Handover
  BY <1>5, StructuresAre DEF Handover, LaterNull
<1> QED
  BY <1>1, <1>2, <1>3, <1>4, <1>5
  DEF BootNext, LoaderStep, FreeNextRegion, AllocatorStep, bootVars, earlyVars

(***************************************************************************)
(* As long as no region was read nothing is offered.                       *)
(***************************************************************************)
LEMMA InitFreed == BootInit => LaterNull /\ FreedOffered
<1> SUFFICES ASSUME BootInit PROVE LaterNull /\ FreedOffered
  OBVIOUS
<1>1. pc = "regions" /\ step = "init"
  BY DEF BootInit, Init, M!Init
<1> QED  BY <1>1, StructuresAre DEF LaterNull, FreedOffered, Readable

LEMMA LoaderStepFreed ==
    ASSUME IInv, LoaderInv, FreedOffered, LoaderStep
    PROVE  FreedOffered'
<1>1. /\ mbmp' = mbmp /\ mmap' = mmap /\ got' = got
      /\ current_mmap_entry' = current_mmap_entry /\ standard' = standard /\ tags' = tags /\ place' = place
  BY DEF LoaderStep, M!multiboot_init, M!mboot2_relocate_tags, M!multiboot_unimplemented,
         M!ki_memcpy, M!Relocated, M!FillBitmap, M!NoNext, M!loader
<1>2. \A b : (Offered(b)' <=> Offered(b)) /\ (Freed(b)' <=> Freed(b))
  BY <1>1 DEF Offered, Freed
<1>3. CASE M!FillBitmap
  <2>1. step = "fill"
    BY <1>3 DEF M!FillBitmap
  <2>2. current_mmap_entry = 0 /\ mbmp = Bit /\ pc = "regions"
    BY <2>1 DEF LoaderInv, InOrder
  <2>3. \A b \in Block : ~ Offered(b) /\ ~ Freed(b)
    BY <2>2 DEF Offered, Freed, IInv, NoneWhileFreeing, Reserved, Bit
  <2> QED  BY <1>2, <2>3 DEF FreedOffered
<1>4. CASE M!NoNext
  <2>1. step = "regions" /\ step' = "done" /\ mboot_ptr' = mboot_ptr
    BY <1>4 DEF M!NoNext
  <2>2. Loaded' = Loaded
    BY <1>1 DEF Loaded
  <2>3. Readable' => Readable
    BY <1>1, <2>1, <2>2 DEF Readable, OverwritesItself, M!Destination, OutOfReach, Extent
  <2> QED  BY <1>2, <2>3 DEF FreedOffered
<1>5. CASE ~ M!FillBitmap /\ ~ M!NoNext
  <2>1. standard = 2 => step' \notin {"regions", "done"}
    BY <1>5
    DEF LoaderStep, M!multiboot_init, M!mboot2_relocate_tags, M!multiboot_unimplemented,
        M!ki_memcpy, M!Relocated
  <2> QED  BY <1>1, <2>1 DEF FreedOffered, Readable
<1> QED  BY <1>3, <1>4, <1>5

(***************************************************************************)
(* A region's blocks are freed, and are the ones of the next entry.        *)
(***************************************************************************)
LEMMA FreeNextFreed ==
    ASSUME IInv, LoaderInv, ReadInv, FreedOffered, FreeNextRegion
    PROVE  FreedOffered'
<1> SUFFICES ASSUME Readable' PROVE FreedOffered'
  BY DEF FreedOffered
<1> DEFINE c == current_mmap_entry
           region == mmap[c + 1]
           blocks == Blocks(region.base, region.length)
<1>1. /\ Readable /\ c' = c + 1 /\ mmap' = mmap /\ FreeRegion(region)
  BY FreeNextReads
<1>2. c \in 0..Entries /\ Entries \in Nat
  BY LoaderAssumption DEF LoaderInv, InOrder
<1>3. /\ pc = "regions" /\ got' = got
      /\ mbmp' = IF Frees(region) THEN mbmp \ blocks ELSE mbmp
  BY <1>1 DEF FreeRegion
<1>4. \A x \in Structure : got[x] = NULL
  BY <1>3 DEF IInv, NoneWhileFreeing, Reserved
<1>5. \A b : (Offered(b) <=> b \notin mbmp) /\ (Offered(b)' <=> b \notin mbmp')
  BY <1>3, <1>4 DEF Offered
<1> HIDE DEF c, region, blocks
<1>6. \A b : Freed(b)' <=> Freed(b) \/ (Frees(region) /\ b \in blocks)
  <2>1. \A k : k \in 1..(c + 1) <=> k \in 1..c \/ k = c + 1
    BY <1>2
  <2>2. \A b : Freed(b)' <=> \E k \in 1..(c + 1) : Frees(mmap[k]) /\ b \in Blocks(mmap[k].base, mmap[k].length)
    BY <1>1 DEF Freed, c
  <2>3. \A b : Freed(b) <=> \E k \in 1..c : Frees(mmap[k]) /\ b \in Blocks(mmap[k].base, mmap[k].length)
    BY DEF Freed, c
  <2> QED  BY <2>1, <2>2, <2>3 DEF region, blocks
<1>7. \A b \in Block : (Offered(b) => Freed(b)) /\ (Freed(b) => b < KernelEnd \/ Offered(b))
  BY <1>1 DEF FreedOffered
<1>8. \A b \in Block : (Offered(b)' => Freed(b)') /\ (Freed(b)' => b < KernelEnd \/ Offered(b)')
  BY <1>3, <1>5, <1>6, <1>7
<1> QED  BY <1>8 DEF FreedOffered

(***************************************************************************)
(* The kernel's blocks are taken back; a block that is allocated goes to   *)
(* the page structure that is built.                                       *)
(***************************************************************************)
LEMMA AllocatorFreed ==
    ASSUME IInv, ReadInv, LaterNull, FreedOffered, AllocatorStep
    PROVE  FreedOffered'
<1> SUFFICES ASSUME Readable' PROVE FreedOffered'
  BY DEF FreedOffered
<1>1. (Readable /\ ReserveKernel) \/ (\E x \in Structure : Build(x)) \/ Handover
  BY AllocatorReads DEF AllocatorStep
<1>2. mmap' = mmap /\ current_mmap_entry' = current_mmap_entry
  BY DEF AllocatorStep, multibootVars, ReserveKernel, Build, Handover
<1>3. \A b : Freed(b)' <=> Freed(b)
  BY <1>2 DEF Freed
<1>4. \A b \in Block : (Offered(b) => Freed(b)) /\ (Freed(b) => b < KernelEnd \/ Offered(b))
  BY AllocatorReads DEF FreedOffered
<1>5. CASE ReserveKernel
  <2>1. /\ pc = "regions" /\ got' = got
        /\ mbmp' = mbmp \cup 0..(LowBlocks - 1) \cup KernelBlocks
    BY <1>5 DEF ReserveKernel
  <2>2. \A b \in Block : b \in 0..(LowBlocks - 1) \cup KernelBlocks => b < KernelEnd
    BY EarlyAssumption, BallocAssumption DEF KernelBlocks, Block
  <2>3. \A b \in Block : /\ Offered(b)' => Offered(b)
                         /\ Offered(b) => Offered(b)' \/ b < KernelEnd
    BY <2>1, <2>2 DEF Offered
  <2> QED  BY <1>3, <1>4, <2>3 DEF FreedOffered
<1>6. ASSUME NEW x \in Structure, Build(x)
      PROVE  FreedOffered'
  <2> DEFINE new == FirstFree(mbmp)
  <2>1. CASE new = NULL
    <3>1. mbmp' = mbmp /\ got' = got
      BY <1>6, <2>1 DEF Build
    <3>2. \A b : Offered(b)' <=> Offered(b)
      BY <3>1 DEF Offered
    <3> QED  BY <1>3, <1>4, <3>2 DEF FreedOffered
  <2>2. CASE new # NULL
    <3>1. new \in Block \ mbmp
      BY <2>2, FirstFreeIsFree
    <3>2. /\ pc = x /\ mbmp' = mbmp \cup {new} /\ got' = [got EXCEPT ![x] = new]
          /\ got \in [Structure -> Block]
      BY <1>6, <2>2 DEF Build, IInv, BitmapOK
    <3>3. got[x] = NULL
      <4>1. PICK k \in 1..5 : x = Structures[k]
        BY StructuresAre
      <4>2. k <= k
        OBVIOUS
      <4> QED  BY <3>2, <4>1, <4>2, StructuresAre DEF LaterNull
    <3> HIDE DEF new
    <3>4. \A b \in Block : Offered(b)' <=> Offered(b)
      <4>1. \A y \in Structure : got'[y] = IF y = x THEN new ELSE got[y]
        BY <3>2
      <4> QED  BY <2>2, <3>1, <3>2, <3>3, <4>1 DEF Offered
    <3> QED  BY <1>3, <1>4, <3>4 DEF FreedOffered
  <2> QED  BY <2>1, <2>2
<1>7. CASE Handover
  <2>1. mbmp' = mbmp /\ got' = got
    BY <1>7 DEF Handover
  <2>2. \A b : Offered(b)' <=> Offered(b)
    BY <2>1 DEF Offered
  <2> QED  BY <1>3, <1>4, <2>2 DEF FreedOffered
<1> QED  BY <1>1, <1>5, <1>6, <1>7 DEF AllocatorStep

BootInv == IInv /\ LoaderInv /\ ReadInv /\ LaterNull /\ FreedOffered

(***************************************************************************)
(* The whole invariant, kept by every step.                                *)
(***************************************************************************)
LEMMA BootInvariance == BootSpec => []BootInv
<1>1. BootInit => BootInv
  BY InitIInv, InitLoaderInv, InitReadInv, InitFreed DEF BootInv
<1>2. BootInv /\ [BootNext]_bootVars => FreedOffered'
  <2> SUFFICES ASSUME BootInv, [BootNext]_bootVars PROVE FreedOffered'
    OBVIOUS
  <2>1. CASE UNCHANGED bootVars
    <3>1. Loaded' = Loaded
      BY <2>1 DEF bootVars, multibootVars, Loaded
    <3>2. /\ Readable' <=> Readable
          /\ \A b : (Offered(b)' <=> Offered(b)) /\ (Freed(b)' <=> Freed(b))
      BY <2>1, <3>1
      DEF bootVars, earlyVars, multibootVars, Readable, OverwritesItself, M!Destination,
          OutOfReach, Extent, Offered, Freed
    <3> QED  BY <3>2 DEF BootInv, FreedOffered
  <2> QED
    BY <2>1, LoaderStepFreed, FreeNextFreed, AllocatorFreed DEF BootInv, BootNext
<1>3. BootInv /\ [BootNext]_bootVars => BootInv'
  BY <1>2, NextIInv, NextLoaderInv, NextReadInv, LaterNullKept DEF BootInv
<1> QED  BY <1>1, <1>3, PTL DEF BootSpec

(***************************************************************************)
(* free_region rounds base and length down.  Of a region that begins on a  *)
(* block boundary and lies below 4GB it frees the blocks that lie whole in *)
(* it, and only those.                                                     *)
(***************************************************************************)
LEMMA Scaling ==
    ASSUME NEW p \in Nat \ {0}, NEW x \in Nat, NEW y \in Nat
    PROVE  (x <= y <=> x * p <= y * p) /\ (x < y <=> x * p < y * p)
<1>1. ASSUME NEW u \in Nat, NEW v \in Nat, u < v
      PROVE  u * p < v * p
  <2>1. v - u \in Nat \ {0} /\ v = u + (v - u)
    BY <1>1
  <2>2. ASSUME NEW d \in Nat \ {0} PROVE (u + d) * p = u * p + d * p /\ d * p > 0
    BY SMTT(30)
  <2>3. v * p = u * p + (v - u) * p /\ (v - u) * p > 0
    BY <2>1, <2>2
  <2>4. u * p \in Int /\ (v - u) * p \in Int /\ v * p \in Int
    BY <2>1
  <2> QED  BY <2>3, <2>4
<1>2. x * p \in Int /\ y * p \in Int
  OBVIOUS
<1> QED  BY <1>1, <1>2

LEMMA RoundedDown ==
    ASSUME NEW p \in Nat \ {0}, NEW n \in Nat
    PROVE  /\ n \div p \in Nat /\ (n \div p) * p <= n /\ n < (n \div p) * p + p
           /\ n % p = 0 => n = (n \div p) * p
<1>1. n = p * (n \div p) + (n % p) /\ n % p \in 0..(p - 1) /\ n \div p \in Nat
  BY SMTT(30)
<1>2. p * (n \div p) = (n \div p) * p /\ (n \div p) * p \in Int
  BY <1>1
<1> QED  BY <1>1, <1>2

LEMMA BlocksWhole ==
    ASSUME NEW region \in Region, Fitting(region), NEW b \in Nat
    PROVE  b \in Blocks(region.base, region.length) <=>
               /\ region.base <= b * PageSize
               /\ b * PageSize + PageSize <= region.base + region.length
<1> DEFINE p == PageSize
           q == region.base \div p
           n == region.length \div p
<1>1. /\ p \in Nat \ {0} /\ AddrSpace \in Nat \ {0} /\ region.base \in Nat /\ region.length \in Nat
      /\ b * p \in Nat
  BY EarlyAssumption DEF Region
<1>2. region.base % p = 0 /\ region.length < AddrSpace /\ region.base + region.length <= AddrSpace
  BY DEF Fitting
<1>3. /\ q \in Nat /\ region.base = q * p
      /\ n \in Nat /\ n * p <= region.length /\ region.length < n * p + p
  BY <1>1, <1>2, RoundedDown
<1>4. region.length % AddrSpace = region.length
  BY <1>1, <1>2
<1> HIDE DEF p, q, n
<1>5. CASE region.base = AddrSpace
  <2>1. region.length = 0 /\ region.base % AddrSpace = 0
    BY <1>1, <1>2, <1>5
  <2>2. BlockCount(region.length) = 0
    BY <1>1, <1>4, <2>1 DEF BlockCount, p
  <2>3. (region.base % AddrSpace) \div PageSize = 0
    BY <1>1, <2>1 DEF p
  <2>4. Blocks(region.base, region.length) = {}
    BY <2>2, <2>3 DEF Blocks
  <2> QED  BY <1>1, <2>1, <2>4 DEF p
<1>6. CASE region.base # AddrSpace
  <2>1. region.base % AddrSpace = region.base
    <3>1. region.base \in 0..(AddrSpace - 1)
      BY <1>1, <1>2, <1>6
    <3> QED  BY <1>1, <3>1
  <2>2. Blocks(region.base, region.length) = q..(q + n - 1)
    BY <1>4, <2>1 DEF Blocks, BlockCount, p, q, n
  <2>3. q <= b <=> q * p <= b * p
    BY <1>1, <1>3, Scaling
  <2>4. b + 1 <= q + n <=> (b + 1) * p <= (q + n) * p
    <3>1. b + 1 \in Nat /\ q + n \in Nat
      BY <1>3
    <3> QED  BY <1>1, <3>1, Scaling
  <2>5. (b + 1) * p = b * p + p /\ (q + n) * p = q * p + n * p
    BY <1>1, <1>3
  <2>6. b + 1 < q + n + 1 <=> (b + 1) * p < (q + n + 1) * p
    <3>1. b + 1 \in Nat /\ q + n + 1 \in Nat
      BY <1>3
    <3> QED  BY <1>1, <3>1, Scaling
  <2>7. (q + n + 1) * p = q * p + n * p + p
    BY <1>1, <1>3
  <2>8. q * p \in Nat /\ n * p \in Nat
    BY <1>1, <1>3
  <2>9. b \in q..(q + n - 1) <=> q <= b /\ b + 1 <= q + n
    BY <1>3
  <2>10. b + 1 <= q + n <=> b + 1 < q + n + 1
    BY <1>3
  <2>11. ASSUME b \in q..(q + n - 1)
         PROVE  region.base <= b * p /\ b * p + p <= region.base + region.length
    BY <1>1, <1>3, <2>3, <2>4, <2>5, <2>8, <2>9, <2>11
  <2>12. ASSUME region.base <= b * p, b * p + p <= region.base + region.length
         PROVE  b \in q..(q + n - 1)
    <3>1. (b + 1) * p < (q + n + 1) * p
      BY <1>1, <1>3, <2>5, <2>7, <2>8, <2>12
    <3> QED  BY <1>3, <2>3, <2>6, <2>9, <2>10, <2>12, <3>1
  <2> QED  BY <2>2, <2>11, <2>12 DEF p
<1> QED  BY <1>5, <1>6

(***************************************************************************)
(* Only memory that the loader said is available is handed out ("free any  *)
(* blocks that are available", kmemlow.c:93), whether its regions overlap, *)
(* are out of order or end where memory does, if the structure is Readable.*)
(***************************************************************************)
THEOREM OnlyAvailableOffered == BootSpec => []OnlyAvailableFreed
<1>1. BootInv => OnlyAvailableFreed
  <2> SUFFICES ASSUME BootInv, Readable, SoundMap, NEW b \in Block, Offered(b)
               PROVE  Covered(b)
    BY DEF OnlyAvailableFreed, OnlyAvailable, Offered
  <2>1. PICK k \in 1..current_mmap_entry : Frees(mmap[k]) /\ b \in Blocks(mmap[k].base, mmap[k].length)
    BY DEF BootInv, FreedOffered, Freed
  <2>2. mmap \in [1..Entries -> Region] /\ current_mmap_entry \in 0..Entries /\ Entries \in Nat /\ b \in Nat
    BY LoaderAssumption, BallocAssumption DEF BootInv, LoaderInv, LoaderOK, InOrder, Block
  <2>3. k \in 1..Entries /\ Len(mmap) = Entries /\ mmap[k] \in Region
    BY <2>2
  <2>4. mmap[k].type = AVAILABLE /\ Fitting(mmap[k])
    BY <2>1, <2>3 DEF Frees, SoundMap
  <2>5. mmap[k].base <= b * PageSize /\ b * PageSize + PageSize <= mmap[k].base + mmap[k].length
    BY <2>1, <2>2, <2>3, <2>4, BlocksWhole
  <2>6. b * PageSize \in Nat /\ PageSize \in Nat /\ mmap[k].base \in Nat /\ mmap[k].length \in Nat
    BY <2>2, <2>3, EarlyAssumption DEF Region
  <2>7. ASSUME NEW a \in (b * PageSize)..(b * PageSize + PageSize - 1)
        PROVE  a \in mmap[k].base..(mmap[k].base + mmap[k].length - 1)
    BY <2>5, <2>6
  <2> QED  BY <2>3, <2>4, <2>7 DEF Covered
<1> QED  BY <1>1, BootInvariance, PTL

(***************************************************************************)
(* And no block of it is forgotten: after the boot, a block that an        *)
(* available region covers is the kernel's, free or a page structure's, if *)
(* the structure is Readable.                                              *)
(***************************************************************************)
THEOREM NoneLeftOut == BootSpec => []NoneForgottenFreed
<1>1. BootInv => NoneForgottenFreed
  <2> SUFFICES ASSUME BootInv, Readable, pc = "running", SoundMap,
                      NEW b \in KernelEnd..(TotalBlocks - 1), CoveredByOne(b)
               PROVE  b \notin mbmp \/ \E x \in Structure : got[x] = b
    BY DEF NoneForgottenFreed, NoneForgotten
  <2>1. mmap \in [1..Entries -> Region] /\ Entries \in Nat
    BY LoaderAssumption DEF BootInv, LoaderInv, LoaderOK
  <2>2. PICK k \in 1..Len(mmap) :
            /\ mmap[k].type = AVAILABLE
            /\ mmap[k].base <= b * PageSize
            /\ b * PageSize + PageSize <= mmap[k].base + mmap[k].length
    BY DEF CoveredByOne
  <2>3. k \in 1..Entries /\ mmap[k] \in Region
    BY <2>1
  <2>4. Fitting(mmap[k]) /\ Frees(mmap[k])
    BY <2>2 DEF SoundMap, Frees
  <2>5. b \in Block /\ b \in Nat /\ ~ (b < KernelEnd)
    BY EarlyAssumption, BallocAssumption DEF Block
  <2>6. b \in Blocks(mmap[k].base, mmap[k].length)
    BY <2>2, <2>3, <2>4, <2>5, BlocksWhole
  <2>7. current_mmap_entry = Entries
    <3>1. step = "done"
      BY DEF BootInv, LoaderInv, InOrder
    <3> QED  BY <3>1 DEF BootInv, ReadInv, ReadSoFar
  <2>8. Freed(b)
    BY <2>3, <2>4, <2>6, <2>7 DEF Freed
  <2>9. Offered(b)
    BY <2>5, <2>8 DEF BootInv, FreedOffered
  <2> QED  BY <2>9 DEF Offered
<1> QED  BY <1>1, BootInvariance, PTL

(***************************************************************************)
(* The state of the early allocator stays well formed: kmemlow's counter   *)
(* keeps its width, although it goes down for every block of a region,     *)
(* marked or not, and the loop frees no more regions than the map has.     *)
(***************************************************************************)
THEOREM TypeCorrect == BootSpec => []TypeOK
<1>1. IInv /\ LoaderInv => TypeOK
  <2> SUFFICES ASSUME IInv, LoaderInv PROVE TypeOK
    OBVIOUS
  <2>1. mmap \in [1..Entries -> Region] /\ Entries \in Nat
    BY LoaderAssumption DEF LoaderInv, LoaderOK
  <2>2. mmap \in Seq(Region) /\ Len(mmap) = Entries
    BY <2>1
  <2>3. entry \in 1..(Len(mmap) + 1)
    BY <2>1, <2>2 DEF LoaderInv, InOrder
  <2> QED  BY <2>2, <2>3 DEF TypeOK, IInv, BitmapOK, LoaderInv, NumbersOK
<1> QED  BY <1>1, Invariance, LoaderInvariance, PTL

===============================================================================
