----------------------------- MODULE Balloc_proofs -----------------------------
(***************************************************************************)
(* Proofs about the block allocator and its clients, for every size of     *)
(* memory, every bitmap handed over at boot and every set of clients.      *)
(***************************************************************************)
EXTENDS BallocClients, WellFoundedInduction, FiniteSetTheorems, TLAPS

(***************************************************************************)
(* Facts about the operators of Balloc: what first_free finds, and what an *)
(* allocation or a release does to the bitmap and the counter.             *)
(***************************************************************************)

(***************************************************************************)
(* A non-empty set of natural numbers has a least element: what first_free *)
(* finds is well defined.                                                  *)
(***************************************************************************)
LEMMA LeastElement ==
    ASSUME NEW S \in SUBSET Nat, S # {}
    PROVE  \E b \in S : \A c \in S : b <= c
<1> DEFINE Less == OpToRel(<, Nat)
<1>1. PICK b \in S : \A c \in S : ~ (<<c, b>> \in Less)
  <2>1. IsWellFoundedOn(Less, Nat)
    BY NatLessThanWellFounded
  <2> HIDE DEF Less
  <2> QED  BY <2>1, WFMin
<1>2. \A c \in S : ~ (c < b)
  BY <1>1 DEF OpToRel
<1> QED  BY <1>2

(***************************************************************************)
(* first_free returns NULL, or a block of memory whose bit is clear.       *)
(***************************************************************************)
LEMMA FirstFreeIsFree ==
    ASSUME NEW bitmap
    PROVE  FirstFree(bitmap) # NULL => FirstFree(bitmap) \in Block \ bitmap
<1>1. Scanned \subseteq Block /\ Block \subseteq Nat
  BY BallocAssumption DEF Scanned, Block
<1>2. CASE Scanned \subseteq bitmap
  BY <1>2 DEF FirstFree
<1>3. CASE ~ (Scanned \subseteq bitmap)
  <2>1. \E b \in Scanned \ bitmap : \A c \in Scanned \ bitmap : b <= c
    <3>1. Scanned \ bitmap \in SUBSET Nat /\ Scanned \ bitmap # {}
      BY <1>1, <1>3
    <3> QED  BY <3>1, LeastElement
  <2>2. FirstFree(bitmap) \in Scanned \ bitmap
    BY <1>3, <2>1 DEF FirstFree
  <2> QED  BY <1>1, <2>2
<1> QED  BY <1>2, <1>3

LEMMA CountersAreUInt ==
    ASSUME NEW n \in UInt
    PROVE  Incr(n) \in UInt /\ Decr(n) \in UInt
BY BallocAssumption DEF UInt, Incr, Decr

LEMMA CounterTypes ==
    ASSUME NEW bitmap, NEW used \in UInt, NEW block
    PROVE  /\ UsedAfterAllocate(bitmap, used) \in UInt
           /\ UsedAfterDeallocate(bitmap, used, block) \in UInt
BY CountersAreUInt DEF UsedAfterAllocate, UsedAfterDeallocate

(***************************************************************************)
(* The bitmap is finite.                                                   *)
(***************************************************************************)
LEMMA BitmapFinite ==
    ASSUME NEW bitmap \in SUBSET Bit
    PROVE  IsFiniteSet(bitmap) /\ Cardinality(bitmap) \in Nat
<1>1. IsFiniteSet(0..(TotalBlocks + UnitBits))
  BY BallocAssumption, FS_Interval
<1>2. Bit \subseteq 0..(TotalBlocks + UnitBits)
  BY BallocAssumption DEF Bit, Block
<1> QED  BY <1>1, <1>2, FS_Subset, FS_CardinalityType

(***************************************************************************)
(* An allocation, or a release, changes the counter and the number of      *)
(* marked blocks alike: both by one, up to the counter's width, or neither.*)
(***************************************************************************)
LEMMA AllocateCounts ==
    ASSUME NEW bitmap \in SUBSET Bit, NEW used \in UInt
    PROVE  \/ /\ UsedAfterAllocate(bitmap, used) = Incr(used)
              /\ Cardinality(BitmapAfterAllocate(bitmap)) = Cardinality(bitmap) + 1
           \/ /\ UsedAfterAllocate(bitmap, used) = used
              /\ BitmapAfterAllocate(bitmap) = bitmap
BY FirstFreeIsFree, BitmapFinite, FS_AddElement DEF UsedAfterAllocate, BitmapAfterAllocate

LEMMA DeallocateCounts ==
    ASSUME NEW bitmap \in SUBSET Bit, NEW used \in UInt, NEW block
    PROVE  \/ /\ UsedAfterDeallocate(bitmap, used, block) = Decr(used)
              /\ Cardinality(bitmap) = Cardinality(BitmapAfterDeallocate(bitmap, block)) + 1
           \/ /\ UsedAfterDeallocate(bitmap, used, block) = used
              /\ BitmapAfterDeallocate(bitmap, block) = bitmap
<1>1. CASE Releases(bitmap, block)
  <2>1. Cardinality(bitmap \ {block}) = Cardinality(bitmap) - 1
    BY <1>1, BitmapFinite, FS_RemoveElement DEF Releases
  <2>2. Cardinality(bitmap) \in Nat
    BY BitmapFinite
  <2>3. Cardinality(bitmap) = Cardinality(bitmap \ {block}) + 1
    BY <2>1, <2>2
  <2> QED  BY <1>1, <2>3 DEF UsedAfterDeallocate, BitmapAfterDeallocate
<1>2. CASE ~ Releases(bitmap, block)
  BY <1>2 DEF UsedAfterDeallocate, BitmapAfterDeallocate
<1> QED  BY <1>1, <1>2

LEMMA BitmapTypes ==
    ASSUME NEW bitmap \in SUBSET Bit, NEW block
    PROVE  /\ BitmapAfterAllocate(bitmap) \in SUBSET Bit
           /\ BitmapAfterDeallocate(bitmap, block) \in SUBSET Bit
BY FirstFreeIsFree DEF BitmapAfterAllocate, BitmapAfterDeallocate, Bit

-------------------------------------------------------------------------------
(***************************************************************************)
(* The inductive invariant.                                                *)
(***************************************************************************)
LEMMA InitIInv == Init => IInv
<1> SUFFICES ASSUME Init PROVE IInv
  OBVIOUS
<1>1. PICK bitmap \in SUBSET Bit, used \in InitUsed :
          HandedOver(bitmap) /\ BallocInit(bitmap, used)
  BY DEF Init
<1> QED
  BY <1>1, ClientsAssumption
  DEF Init, BallocInit, HandedOver, IInv, TypeOK, HeldExclusively, NullNeverHeld

LEMMA AllocateIInv ==
    ASSUME IInv, NEW c \in Client, Allocate(c)
    PROVE  IInv'
<1> DEFINE new == FirstFree(mbmp)
<1>1. used_blocks' \in UInt
  BY CounterTypes DEF IInv, TypeOK, Allocate, balloc_allocate_block
<1>2. CASE new = NULL
  BY <1>1, <1>2
  DEF IInv, TypeOK, HeldExclusively, NullNeverHeld, Allocate, balloc_allocate_block,
      BitmapAfterAllocate
<1>3. CASE new # NULL
  <2>1. new \in Block \ mbmp
    BY <1>3, FirstFreeIsFree
  <2>2. mbmp' = mbmp \cup {new} /\ held' = [held EXCEPT ![c] = held[c] \cup {new}]
    BY <1>3 DEF Allocate, balloc_allocate_block, BitmapAfterAllocate
  <2> HIDE DEF new
  <2>3. TypeOK'
    BY <1>1, <2>1, <2>2 DEF IInv, TypeOK, Bit
  <2>4. HeldExclusively'
    BY <2>1, <2>2 DEF IInv, TypeOK, HeldExclusively
  <2>5. NullNeverHeld'
    BY <1>3, <2>2 DEF IInv, TypeOK, NullNeverHeld
  <2> QED
    BY <2>2, <2>3, <2>4, <2>5 DEF IInv
<1> QED  BY <1>2, <1>3

LEMMA ReleaseIInv ==
    ASSUME IInv, NEW c \in Client, NEW b \in Block, Release(c, b)
    PROVE  IInv'
<1>1. used_blocks' \in UInt
  BY CounterTypes DEF IInv, TypeOK, Release, balloc_deallocate_block
<1>2. mbmp' = mbmp \ {b} /\ held' = [held EXCEPT ![c] = held[c] \ {b}] /\ b \in held[c]
  BY DEF IInv, HeldExclusively, Release, balloc_deallocate_block, BitmapAfterDeallocate, Releases
<1>3. b # 0
  BY <1>2 DEF IInv, NullNeverHeld, NULL
<1>4. TypeOK'
  BY <1>1, <1>2 DEF IInv, TypeOK
<1>5. HeldExclusively'
  BY <1>2 DEF IInv, TypeOK, HeldExclusively
<1>6. NullNeverHeld'
  BY <1>2 DEF IInv, TypeOK, NullNeverHeld
<1> QED
  BY <1>2, <1>3, <1>4, <1>5, <1>6 DEF IInv

LEMMA StrayReleaseIInv ==
    ASSUME IInv, NEW b, StrayRelease(b)
    PROVE  IInv' /\ UNCHANGED vars
BY DEF StrayRelease, balloc_deallocate_block, BitmapAfterDeallocate, UsedAfterDeallocate, Releases,
       vars, IInv, TypeOK, HeldExclusively, NullNeverHeld

LEMMA NextIInv == IInv /\ [Next]_vars => IInv'
<1> SUFFICES ASSUME IInv, [Next]_vars PROVE IInv'
  OBVIOUS
<1>1. ASSUME NEW c \in Client, Allocate(c) PROVE IInv'
  BY <1>1, AllocateIInv
<1>2. ASSUME NEW c \in Client, NEW b \in Block, Release(c, b) PROVE IInv'
  BY <1>2, ReleaseIInv
<1>3. ASSUME NEW b \in Bit \cup {FarBlock}, StrayRelease(b) PROVE IInv'
  BY <1>3, StrayReleaseIInv
<1>4. CASE UNCHANGED vars
  BY <1>4 DEF vars, IInv, TypeOK, HeldExclusively, NullNeverHeld
<1> QED  BY <1>1, <1>2, <1>3, <1>4 DEF Next

(***************************************************************************)
(* Every state satisfies the inductive invariant, so the state is always   *)
(* well formed and no block is held twice or held while its bit is clear   *)
(* (balloc_allocate_block, balloc_deallocate_block).                       *)
(***************************************************************************)
THEOREM Invariance == Spec => []IInv
BY InitIInv, NextIInv, PTL DEF Spec

THEOREM TypeCorrect == Spec => []TypeOK
<1>1. IInv => TypeOK
  BY DEF IInv
<1> QED  BY <1>1, Invariance, PTL

(***************************************************************************)
(* Two clients never hold the same block, and a held block is marked.      *)
(***************************************************************************)
THEOREM Exclusive == Spec => []HeldExclusively
<1>1. IInv => HeldExclusively
  BY DEF IInv
<1> QED  BY <1>1, Invariance, PTL

-------------------------------------------------------------------------------
(***************************************************************************)
(* A step that takes a block off the market gives it to a client.          *)
(***************************************************************************)
THEOREM NothingLost == Spec => NoBlockLost
<1> DEFINE Kept == \A b \in Block \ mbmp : b \in mbmp' => \E c \in Client : b \in held'[c]
<1>1. IInv /\ Next => Kept
  <2> SUFFICES ASSUME IInv, Next, NEW b \in Block \ mbmp, b \in mbmp'
               PROVE  \E c \in Client : b \in held'[c]
    OBVIOUS
  <2>1. CASE \E c \in Client : Allocate(c)
    <3>1. PICK c \in Client : Allocate(c)
      BY <2>1
    <3>2. FirstFree(mbmp) # NULL /\ b = FirstFree(mbmp)
      BY <3>1 DEF Allocate, balloc_allocate_block, BitmapAfterAllocate
    <3>3. b \in held'[c]
      BY <3>1, <3>2 DEF Allocate, IInv, TypeOK
    <3> QED  BY <3>3
  <2>2. CASE \E c \in Client, d \in Block : Release(c, d)
    BY <2>2 DEF Release, balloc_deallocate_block, BitmapAfterDeallocate
  <2>3. CASE \E d \in Bit \cup {FarBlock} : StrayRelease(d)
    BY <2>3 DEF StrayRelease, balloc_deallocate_block, BitmapAfterDeallocate
  <2> QED  BY <2>1, <2>2, <2>3 DEF Next
<1>2. IInv /\ [Next]_vars => [Kept]_vars
  BY <1>1
<1> QED  BY <1>2, Invariance, PTL DEF Spec, NoBlockLost

-------------------------------------------------------------------------------
(***************************************************************************)
(* One allocation or one release, counted in both places.                  *)
(***************************************************************************)
LEMMA CounterStep ==
    ASSUME NEW n \in UInt, NEW k \in Nat
    PROVE  /\ SameModulo(Incr(n) - n, (k + 1) - k)
           /\ SameModulo(Decr(n) - n, k - (k + 1))
           /\ SameModulo(n - n, k - k)
BY BallocAssumption DEF UInt, Incr, Decr, SameModulo

LEMMA AllocateCounted ==
    ASSUME IInv, balloc_allocate_block
    PROVE  SameModulo(used_blocks' - used_blocks, Cardinality(mbmp') - Cardinality(mbmp))
<1>1. mbmp \in SUBSET Bit /\ used_blocks \in UInt /\ Cardinality(mbmp) \in Nat
  BY BitmapFinite DEF IInv, TypeOK
<1>2. \/ used_blocks' = Incr(used_blocks) /\ Cardinality(mbmp') = Cardinality(mbmp) + 1
      \/ used_blocks' = used_blocks /\ mbmp' = mbmp
  BY <1>1, AllocateCounts DEF balloc_allocate_block
<1> QED  BY <1>1, <1>2, CounterStep

LEMMA DeallocateCounted ==
    ASSUME IInv, NEW block, balloc_deallocate_block(block)
    PROVE  SameModulo(used_blocks' - used_blocks, Cardinality(mbmp') - Cardinality(mbmp))
<1>1. mbmp \in SUBSET Bit /\ used_blocks \in UInt
  BY DEF IInv, TypeOK
<1>2. mbmp' \in SUBSET Bit
  BY <1>1, BitmapTypes DEF balloc_deallocate_block
<1>3. Cardinality(mbmp) \in Nat /\ Cardinality(mbmp') \in Nat
  BY <1>1, <1>2, BitmapFinite
<1>4. \/ used_blocks' = Decr(used_blocks) /\ Cardinality(mbmp) = Cardinality(mbmp') + 1
      \/ used_blocks' = used_blocks /\ mbmp' = mbmp
  BY <1>1, DeallocateCounts DEF balloc_deallocate_block
<1> QED  BY <1>1, <1>3, <1>4, CounterStep

(***************************************************************************)
(* _used_blocks moves with the bitmap, whatever is called in whatever      *)
(* order, and whatever value it was handed over with.                      *)
(***************************************************************************)
THEOREM CounterCorrect == Spec => CounterFollowsBitmap
<1> DEFINE Counts ==
        SameModulo(used_blocks' - used_blocks, Cardinality(mbmp') - Cardinality(mbmp))
<1>1. IInv /\ Next => Counts
  BY AllocateCounted, DeallocateCounted DEF Next, Allocate, Release, StrayRelease
<1>2. IInv /\ [Next]_vars => [Counts]_vars
  BY <1>1
<1> QED  BY <1>2, Invariance, PTL DEF Spec, CounterFollowsBitmap

-------------------------------------------------------------------------------
(***************************************************************************)
(* Implementation of the abstract pool.  With exclusive ownership the      *)
(* owner of a held block is the client that holds it.                      *)
(***************************************************************************)
LEMMA OwnerHolds ==
    ASSUME HeldExclusively, NEW c \in Client, NEW b \in held[c]
    PROVE  OwnerOf(b) = c
<1>1. \A d \in Client : b \in held[d] => d = c
  BY DEF HeldExclusively
<1> QED  BY <1>1 DEF OwnerOf

LEMMA OwnerNobody ==
    ASSUME HeldExclusively, NEW b, b \notin mbmp
    PROVE  OwnerOf(b) = Nobody
BY DEF HeldExclusively, OwnerOf

LEMMA OwnerUnchanged ==
    ASSUME NEW b, b \in mbmp <=> b \in mbmp',
           \A c \in Client : b \in held[c] <=> b \in held'[c]
    PROVE  OwnerOf(b)' = OwnerOf(b)
BY DEF OwnerOf

LEMMA InitOwner == Init => Pool!PoolInit
<1> SUFFICES ASSUME Init PROVE owner \in [Block -> {Nobody, System}]
  BY DEF Pool!PoolInit
<1>1. \A c \in Client : held[c] = {}
  BY DEF Init
<1>2. \A b \in Block : OwnerOf(b) \in {Nobody, System}
  BY <1>1 DEF OwnerOf
<1> QED  BY <1>2 DEF owner

LEMMA NextOwner ==
    ASSUME IInv, IInv', [Next]_vars
    PROVE  [Pool!PoolNext]_owner
<1>1. ASSUME NEW c \in Client, Allocate(c) PROVE [Pool!PoolNext]_owner
  <2> PICK new : new = FirstFree(mbmp)
    OBVIOUS
  <2>1. CASE new = NULL
    BY <1>1, <2>1
    DEF Allocate, balloc_allocate_block, BitmapAfterAllocate, owner, OwnerOf
  <2>2. CASE new # NULL
    <3>1. new \in Block \ mbmp
      BY <2>2, FirstFreeIsFree
    <3>2. mbmp' = mbmp \cup {new} /\ held' = [held EXCEPT ![c] = held[c] \cup {new}]
      BY <1>1, <2>2 DEF Allocate, balloc_allocate_block, BitmapAfterAllocate
    <3>3. OwnerOf(new) = Nobody
      BY <3>1, OwnerNobody DEF IInv
    <3>4. new \in held'[c] /\ HeldExclusively'
      BY <3>2 DEF IInv, TypeOK
    <3>5. OwnerOf(new)' = c
      BY <3>4 DEF OwnerOf, HeldExclusively
    <3>6. \A b \in Block : b # new => OwnerOf(b)' = OwnerOf(b)
      BY <3>2, OwnerUnchanged DEF IInv, TypeOK
    <3>7. Pool!Take(c, new)
      BY <3>1, <3>3, <3>5, <3>6 DEF Pool!Take, owner
    <3> QED  BY <3>1, <3>7 DEF Pool!PoolNext
  <2> QED  BY <2>1, <2>2
<1>2. ASSUME NEW c \in Client, NEW b \in Block, Release(c, b) PROVE [Pool!PoolNext]_owner
  <2>1. mbmp' = mbmp \ {b} /\ held' = [held EXCEPT ![c] = held[c] \ {b}] /\ b \in held[c]
    BY <1>2
    DEF IInv, HeldExclusively, Release, balloc_deallocate_block, BitmapAfterDeallocate, Releases
  <2>2. OwnerOf(b) = c
    BY <2>1, OwnerHolds DEF IInv
  <2>3. OwnerOf(b)' = Nobody
    BY <2>1 DEF IInv, HeldExclusively, OwnerOf
  <2>4. \A d \in Block : d # b => OwnerOf(d)' = OwnerOf(d)
    BY <2>1, OwnerUnchanged DEF IInv, TypeOK
  <2>5. Pool!GiveBack(c, b)
    BY <2>2, <2>3, <2>4 DEF Pool!GiveBack, owner
  <2> QED  BY <2>5 DEF Pool!PoolNext
<1>3. ASSUME NEW b, StrayRelease(b) PROVE [Pool!PoolNext]_owner
  BY <1>3, StrayReleaseIInv DEF vars, owner, OwnerOf
<1>4. CASE UNCHANGED vars
  BY <1>4 DEF vars, owner, OwnerOf
<1> QED  BY <1>1, <1>2, <1>3, <1>4 DEF Next

(***************************************************************************)
(* The allocator implements the abstract pool of blocks: to its clients,   *)
(* balloc.c is nothing but blocks that have one owner each.                *)
(***************************************************************************)
THEOREM Refinement == Spec => ImplementsPool
<1>1. IInv /\ IInv' /\ [Next]_vars => [Pool!PoolNext]_owner
  BY NextOwner
<1> QED  BY <1>1, InitOwner, Invariance, PTL DEF Spec, ImplementsPool, Pool!PoolSpec

-------------------------------------------------------------------------------
(***************************************************************************)
(* In a memory of whole words first_free (balloc.c:26-38) looks at every   *)
(* block, so balloc_allocate_block returns NULL only when none is left.    *)
(***************************************************************************)
LEMMA WordsScanned ==
    ASSUME WholeWords
    PROVE  Scanned = Block
<1> DEFINE words == TotalBlocks \div UnitBits
<1>1. words \in Nat /\ TotalBlocks = UnitBits * words
  BY BallocAssumption DEF WholeWords
<1>2. ASSUME NEW b \in Block PROVE b \div UnitBits < words
  <2>1. b \in Nat /\ b < TotalBlocks /\ UnitBits \in Nat \ {0}
    BY BallocAssumption DEF Block
  <2>2. PICK q : q = b \div UnitBits
    OBVIOUS
  <2>3. q \in Nat /\ UnitBits * q <= b
    BY <2>1, <2>2
  <2> HIDE DEF words
  <2>4. UnitBits * q < UnitBits * words
    BY <1>1, <2>1, <2>3
  <2>5. q < words
    BY <1>1, <2>1, <2>3, <2>4
  <2> QED  BY <2>2, <2>5
<1> QED  BY <1>2 DEF Scanned

THEOREM ExhaustedWhenNull ==
    ASSUME WholeWords
    PROVE  Spec => []NullMeansExhausted
<1>1. IInv => NullMeansExhausted
  <2> SUFFICES ASSUME IInv, FirstFree(mbmp) = NULL
               PROVE  Scanned \subseteq mbmp
    BY WordsScanned DEF NullMeansExhausted
  <2> SUFFICES ASSUME ~ (Scanned \subseteq mbmp) PROVE FALSE
    OBVIOUS
  <2>1. Scanned \ mbmp \in SUBSET Nat /\ Scanned \ mbmp # {}
    BY BallocAssumption DEF Scanned, Block
  <2>2. FirstFree(mbmp) \in Scanned \ mbmp
    BY <2>1, LeastElement DEF FirstFree
  <2> QED  BY <2>2 DEF IInv, NULL
<1> QED  BY <1>1, Invariance, PTL
===============================================================================
