-------------------------- MODULE KernelMalloc_proofs --------------------------
(***************************************************************************)
(* Proofs about malloc, calloc and free: as long as neither slip that      *)
(* "sound" watches for has happened, memory has one use, the list is in    *)
(* order and no word is lost, for every heap and every sequence of calls.  *)
(***************************************************************************)
EXTENDS KernelMalloc, WellFoundedInduction, TLAPS

(***************************************************************************)
(* A block is a header and the words its size covers.  The blocks of the   *)
(* heap are those on the list, those handed out, and the one that free is  *)
(* about to insert.                                                        *)
(***************************************************************************)
UsedHeaders == {p.ptr - Header : p \in Used}

Inserted == IF pc = "insert" THEN {call.block} ELSE {}

(***************************************************************************)
(* The list is a ring that goes up from the base through the headers F.    *)
(***************************************************************************)
Follows(F, h) ==
    \/ Next_(h) \in F /\ Next_(h) > h /\ \A g \in F : g <= h \/ g >= Next_(h)
    \/ Next_(h) = Base /\ \A g \in F : g <= h

Ring(F) == Size(Base) = 0 /\ \A h \in F \cup {Base} : Follows(F, h)

(***************************************************************************)
(* The blocks with the headers H tile the heap.                            *)
(***************************************************************************)
InHeap(h) ==
    /\ h \in HeapStart..(brk - 1) /\ Size(h) \in Nat
    /\ Size(h) >= Header /\ h + Size(h) <= brk

Apart(H) == \A g, h \in H : g < h => g + Size(g) <= h

Covers(h, a) == h <= a /\ a < h + Size(h)

Covered(H) == \A a \in HeapStart..(brk - 1) : \E h \in H : Covers(h, a)

Tiling(H) == (\A h \in H : InHeap(h)) /\ Apart(H) /\ Covered(H)

Blocks(F) == F \cup UsedHeaders \cup Inserted

(***************************************************************************)
(* A block has one use: its header is on the list, or belongs to one block *)
(* that was handed out, or is being inserted.                              *)
(***************************************************************************)
OneOwner(F) ==
    /\ F \cap UsedHeaders = {}
    /\ Inserted \cap (F \cup UsedHeaders) = {}
    /\ \A p, q \in Used : p.ptr = q.ptr => p = q
    /\ live \cap dropped = {}

SizesKept == \A p \in Used : Size(p.ptr - Header) = p.n + Header

(***************************************************************************)
(* The pointers of the call in progress are on the list.                   *)
(***************************************************************************)
CallOnRing(F) ==
    /\ pc # "idle" => call.fn \in {"malloc", "calloc"} \/ (pc = "insert" /\ call.fn = "free")
    /\ pc # "idle" /\ call.fn # "free" => call.n \in Requests /\ call.left \in 1..2
    /\ pc = "scan" => call.prev \in F \cup {Base} /\ call.header = Next_(call.prev)
    /\ pc = "insert" => call.header \in F \cup {Base}

WellFormed(F) ==
    /\ Ring(F)
    /\ Tiling(Blocks(F))
    /\ OneOwner(F)
    /\ SizesKept
    /\ next_free \in F \cup {Base}
    /\ CallOnRing(F)

Fresh == pc = "idle" /\ brk = HeapStart /\ Used = {}

HeapInv ==
    IF next_free = NULL THEN Fresh
    ELSE \E F \in SUBSET Word : WellFormed(F)

IInv == TypeOK /\ (sound => HeapInv)

-------------------------------------------------------------------------------
LEMMA Numbers ==
    /\ HeapWords \in Nat
    /\ Word = 1..(HeapWords + 3)
    /\ HeapStart = 4 /\ HeapEnd = HeapWords + 4
    /\ Header = 2 /\ Base = 1 /\ NULL = 0
BY MallocAssumption DEF Word, HeapStart, HeapEnd, Header, Base, NULL

LEMMA RequestsPositive == \A n \in Requests : n \in Nat /\ n > 0
BY MallocAssumption

(***************************************************************************)
(* The headers of blocks that tile the heap do not overlap one another or  *)
(* the static header.                                                      *)
(***************************************************************************)
LEMMA HeadersApart ==
    ASSUME TypeOK, NEW H, Tiling(H), NEW h \in H
    PROVE  /\ h \in Word /\ h + 1 \in Word /\ h \in Nat /\ h > Base + 1
           /\ \A g \in H : g # h + 1 /\ g + 1 # h /\ (g + 1 = h + 1 => g = h)
<1>1. /\ InHeap(h) /\ \A g \in H : InHeap(g)
      /\ \A g \in H : (g < h => g + Size(g) <= h) /\ (h < g => h + Size(h) <= g)
  BY DEF Tiling, Apart
<1>2. brk \in 4..(HeapWords + 4)
  BY Numbers DEF TypeOK
<1>3. h \in Nat /\ h >= 4 /\ h + 2 <= brk /\ \A g \in H : g \in Nat /\ Size(g) >= 2 /\ Size(g) \in Nat
  BY <1>1, <1>2, Numbers DEF InHeap
<1>4. h \in Word /\ h + 1 \in Word /\ h > Base + 1
  BY <1>2, <1>3, Numbers
<1> QED  BY <1>1, <1>3, <1>4

(***************************************************************************)
(* What a step must leave alone for the ring, the tiling and the sizes to  *)
(* stay.                                                                   *)
(***************************************************************************)
LEMMA RingStays ==
    ASSUME NEW F, Ring(F), \A h \in F \cup {Base} : mem'[h] = mem[h], mem'[Base + 1] = mem[Base + 1]
    PROVE  Ring(F)'
BY DEF Ring, Follows, Next_, Size

LEMMA TilingStays ==
    ASSUME NEW H, Tiling(H), \A h \in H : mem'[h + 1] = mem[h + 1], brk' = brk
    PROVE  Tiling(H)'
<1>1. \A h \in H : Size(h)' = Size(h)
  BY DEF Size
<1>2. (\A h \in H : InHeap(h)) => (\A h \in H : InHeap(h)')
  BY <1>1 DEF InHeap
<1>3. Apart(H) => Apart(H)'
  BY <1>1 DEF Apart
<1>4. Covered(H) => Covered(H)'
  BY <1>1 DEF Covered, Covers
<1> QED  BY <1>2, <1>3, <1>4 DEF Tiling

LEMMA TilingIs ==
    ASSUME NEW F, NEW H, (Blocks(F))' = H, (Tiling(H))'
    PROVE  (Tiling(Blocks(F)))'
BY DEF Tiling, InHeap, Apart, Covered, Covers

LEMMA Stays ==
    ASSUME NEW F, WellFormed(F), UNCHANGED <<mem, brk, live, dropped>>,
           Inserted' = Inserted,
           (next_free \in F \cup {Base})', CallOnRing(F)'
    PROVE  WellFormed(F)'
<1>1. Used' = Used /\ UsedHeaders' = UsedHeaders
  BY DEF Used, UsedHeaders
<1>2. Ring(F)'
  BY RingStays DEF WellFormed
<1>3. (Tiling(Blocks(F)))'
  <2>1. PICK H : H = Blocks(F)
    OBVIOUS
  <2>2. Tiling(H)
    BY <2>1 DEF WellFormed
  <2>3. Tiling(H)'
    BY <2>2, TilingStays
  <2>4. (Blocks(F))' = H
    BY <1>1, <2>1 DEF Blocks
  <2> QED  BY <2>3, <2>4, TilingIs
<1>4. OneOwner(F)' /\ SizesKept'
  BY <1>1 DEF WellFormed, OneOwner, SizesKept, Size
<1> QED  BY <1>2, <1>3, <1>4 DEF WellFormed

(***************************************************************************)
(* Once the list exists, a header on it leads to another.                  *)
(***************************************************************************)
LEMMA OnList ==
    ASSUME NEW F \in SUBSET Word, Ring(F), NEW h \in F \cup {Base}
    PROVE  Next_(h) \in F \cup {Base} /\ Next_(h) \in Word /\ h \in Word
<1>1. Base \in Word
  BY Numbers
<1>2. Next_(h) \in F \/ Next_(h) = Base
  BY DEF Ring, Follows
<1> QED  BY <1>1, <1>2

LEMMA Listed ==
    ASSUME IInv, sound, next_free # NULL
    PROVE  \E F \in SUBSET Word : WellFormed(F)
BY DEF IInv, HeapInv

LEMMA CallHasList ==
    ASSUME IInv, sound, pc # "idle"
    PROVE  next_free # NULL
BY DEF IInv, HeapInv, Fresh

LEMMA InvStays ==
    ASSUME NEW F \in SUBSET Word, TypeOK', WellFormed(F)', next_free' # NULL
    PROVE  IInv'
<1>1. (HeapInv)'
  BY DEF HeapInv
<1> QED  BY <1>1 DEF IInv

-------------------------------------------------------------------------------
THEOREM InitInv == Init => IInv
<1> SUFFICES ASSUME Init PROVE IInv
  OBVIOUS
<1>1. TypeOK
  BY Numbers DEF Init, TypeOK, Used, NoCall
<1>2. HeapInv
  BY DEF Init, HeapInv, Fresh, Used
<1> QED  BY <1>1, <1>2 DEF IInv

(***************************************************************************)
(* The first call of malloc makes a list of the base alone; any other call *)
(* finds the list as it was.                                               *)
(***************************************************************************)
LEMMA EnterKeeps ==
    ASSUME IInv, sound, NEW fn \in {"malloc", "calloc"}, NEW n \in Requests, NEW left \in 1..2,
           EnterMalloc(fn, n, left), UNCHANGED heapVars, pc \in {"idle", "again"}
    PROVE  IInv'
<1>1. Inserted = {} /\ Inserted' = {} /\ pc' = "scan"
  BY DEF Inserted, EnterMalloc
<1>2. TypeOK /\ mem \in [Word -> Nat] /\ Base \in Word /\ Base + 1 \in Word
  BY Numbers DEF IInv, TypeOK
<1>3. CASE next_free = NULL
  <2>1. /\ mem' = [mem EXCEPT ![Base] = Base, ![Base + 1] = 0] /\ next_free' = Base
        /\ brk' = brk /\ live' = live /\ dropped' = dropped /\ sound' = sound
    BY <1>3 DEF EnterMalloc, heapVars
  <2>2. mem' \in [Word -> Nat] /\ mem'[Base] = Base /\ mem'[Base + 1] = 0
    BY <1>2, <2>1, Numbers
  <2>3. call' = [fn |-> fn, n |-> n, left |-> left, block |-> NULL, prev |-> Base, header |-> Base]
    BY <2>1, <2>2 DEF EnterMalloc
  <2>4. TypeOK'
    BY <1>1, <1>2, <2>1, <2>2, <2>3, Numbers DEF TypeOK, Used
  <2>5. brk = HeapStart /\ Used = {} /\ Used' = {}
    BY <1>3, <2>1 DEF IInv, HeapInv, Fresh, Used
  <2>6. (Tiling(Blocks({})))'
    <3>1. (Blocks({}))' = {}
      BY <1>1, <2>5 DEF Blocks, UsedHeaders
    <3>2. (Tiling({}))'
      BY <2>1, <2>5, Numbers DEF Tiling, Apart, Covered
    <3> QED  BY <3>1, <3>2, TilingIs
  <2>7. (Ring({}))'
    BY <2>2, Numbers DEF Ring, Follows, Next_, Size
  <2>8. (CallOnRing({}))'
    BY <1>1, <2>2, <2>3 DEF CallOnRing, Next_
  <2>9. (OneOwner({}))' /\ SizesKept'
    BY <1>1, <2>5, <2>1 DEF OneOwner, SizesKept, UsedHeaders, Used
  <2>10. (WellFormed({}))'
    BY <2>1, <2>6, <2>7, <2>8, <2>9 DEF WellFormed
  <2> QED  BY <2>1, <2>4, <2>10, InvStays, Numbers
<1>4. CASE next_free # NULL
  <2>1. PICK F \in SUBSET Word : WellFormed(F)
    BY <1>4, Listed
  <2>2. /\ mem' = mem /\ next_free' = next_free
        /\ brk' = brk /\ live' = live /\ dropped' = dropped /\ sound' = sound
    BY <1>4 DEF EnterMalloc, heapVars
  <2>3. call' = [fn |-> fn, n |-> n, left |-> left, block |-> NULL,
                 prev |-> next_free, header |-> mem[next_free]]
    BY <2>2 DEF EnterMalloc
  <2>4. next_free \in F \cup {Base} /\ mem[next_free] \in Word
    BY <2>1, OnList DEF WellFormed, Next_
  <2>5. TypeOK'
    BY <1>1, <1>2, <2>2, <2>3, <2>4, Numbers DEF TypeOK, Used
  <2>6. (CallOnRing(F))'
    BY <1>1, <2>2, <2>3, <2>4 DEF CallOnRing, Next_
  <2>7. (WellFormed(F))'
    BY <1>1, <2>1, <2>2, <2>4, <2>6, Stays
  <2> QED  BY <1>4, <2>2, <2>5, <2>7, InvStays
<1> QED  BY <1>3, <1>4

LEMMA LookKeeps ==
    ASSUME IInv, sound, Look
    PROVE  IInv'
<1>1. next_free # NULL /\ TypeOK
  BY CallHasList DEF Look, IInv
<1>2. PICK F \in SUBSET Word : WellFormed(F)
  BY <1>1, Listed
<1>3. /\ pc = "scan" /\ UNCHANGED <<mem, next_free, brk, live, dropped, sound, pc>>
      /\ call' = [call EXCEPT !.prev = call.header, !.header = Next_(call.header)]
  BY DEF Look, heapVars, Advance
<1>4. call.header \in F \cup {Base} /\ call.header \in Word /\ Next_(call.header) \in Word
  BY <1>2, <1>3, OnList DEF WellFormed, CallOnRing
<1>5. TypeOK'
  BY <1>1, <1>3, <1>4 DEF TypeOK, Used
<1>6. (CallOnRing(F))' /\ Inserted' = Inserted /\ (next_free \in F \cup {Base})'
  <2>1. /\ call'.fn = call.fn /\ call'.n = call.n /\ call'.left = call.left
        /\ call'.prev = call.header /\ call'.header = Next_(call.header)
    BY <1>1, <1>3 DEF TypeOK
  <2> QED  BY <1>2, <1>3, <1>4, <2>1 DEF WellFormed, CallOnRing, Inserted, Next_
<1>7. (WellFormed(F))'
  BY <1>2, <1>3, <1>6, Stays
<1> QED  BY <1>1, <1>3, <1>5, <1>7, InvStays

LEMMA SearchKeeps ==
    ASSUME IInv, sound, Search
    PROVE  IInv'
<1>1. next_free # NULL /\ TypeOK
  BY CallHasList DEF Search, IInv
<1>2. PICK F \in SUBSET Word : WellFormed(F)
  BY <1>1, Listed
<1>3. /\ pc = "insert" /\ UNCHANGED <<mem, next_free, brk, live, dropped, sound, pc>>
      /\ call' = [call EXCEPT !.header = Next_(call.header)]
  BY DEF Search, heapVars
<1>4. Next_(call.header) \in F \cup {Base} /\ Next_(call.header) \in Word
  BY <1>2, <1>3, OnList DEF WellFormed, CallOnRing
<1>5. TypeOK'
  BY <1>1, <1>3, <1>4 DEF TypeOK, Used
<1>6. (CallOnRing(F))' /\ Inserted' = Inserted /\ (next_free \in F \cup {Base})'
  <2>1. /\ call'.fn = call.fn /\ call'.n = call.n /\ call'.left = call.left
        /\ call'.block = call.block /\ call'.header = Next_(call.header)
    BY <1>1, <1>3 DEF TypeOK
  <2> QED  BY <1>2, <1>3, <1>4, <2>1 DEF WellFormed, CallOnRing, Inserted
<1>7. (WellFormed(F))'
  BY <1>2, <1>3, <1>6, Stays
<1> QED  BY <1>1, <1>3, <1>5, <1>7, InvStays

LEMMA NoCoreKeeps ==
    ASSUME IInv, sound, NoCore
    PROVE  IInv'
<1>1. next_free # NULL /\ TypeOK
  BY CallHasList DEF NoCore, MustAsk, IInv
<1>2. PICK F \in SUBSET Word : WellFormed(F)
  BY <1>1, Listed
<1>3. pc = "scan" /\ UNCHANGED <<mem, next_free, brk, live, dropped, sound>>
  BY DEF NoCore, MustAsk, heapVars
<1>4. call.fn \in {"malloc", "calloc"} /\ call.n \in Requests /\ call.left \in 1..2
  BY <1>2, <1>3 DEF WellFormed, CallOnRing
<1>5. \/ pc' = "idle" /\ call' = NoCall
      \/ pc' = "again" /\ call' = [call EXCEPT !.left = call.left - 1] /\ call.left = 2
  BY <1>4 DEF NoCore, Return
<1>6. TypeOK'
  BY <1>1, <1>3, <1>4, <1>5 DEF TypeOK, Used, NoCall
<1>7. (CallOnRing(F))' /\ Inserted' = Inserted /\ (next_free \in F \cup {Base})'
  BY <1>1, <1>2, <1>3, <1>4, <1>5 DEF WellFormed, CallOnRing, Inserted, TypeOK
<1>8. (WellFormed(F))'
  BY <1>2, <1>3, <1>7, Stays
<1> QED  BY <1>1, <1>3, <1>6, <1>8, InvStays

(***************************************************************************)
(* morecore lengthens the heap by a block, which free is to insert.        *)
(***************************************************************************)
LEMMA MoreCoreKeeps ==
    ASSUME IInv, sound, MoreCore
    PROVE  IInv'
<1>1. next_free # NULL /\ TypeOK
  BY CallHasList DEF MoreCore, MustAsk, IInv
<1>2. PICK F \in SUBSET Word : WellFormed(F)
  BY <1>1, Listed
<1>3. /\ pc = "scan" /\ pc' = "insert"
      /\ UNCHANGED <<next_free, live, dropped, sound>>
      /\ brk' = brk + Room /\ brk + Room <= HeapEnd
      /\ mem' = [mem EXCEPT ![brk + 1] = Room]
      /\ call' = [call EXCEPT !.block = brk, !.header = next_free]
  BY DEF MoreCore, MustAsk, heapVars
<1>4. call.fn \in {"malloc", "calloc"} /\ call.n \in Requests /\ call.left \in 1..2
  BY <1>2, <1>3 DEF WellFormed, CallOnRing
<1>5. Room \in Nat /\ Room >= 4 /\ Room > Header
  <2>1. call.n \in Nat /\ MinRequest \in Nat
    BY <1>4, RequestsPositive, MallocAssumption
  <2> QED  BY <2>1, <1>4, RequestsPositive, Numbers DEF Room, AllocationSize
<1>6. brk \in Nat /\ brk >= HeapStart /\ brk \in Word /\ brk + 1 \in Word /\ brk' \in HeapStart..HeapEnd
  BY <1>1, <1>3, <1>5, Numbers DEF TypeOK
<1>7. next_free \in F \cup {Base} /\ next_free \in Word
  BY <1>2, OnList DEF WellFormed
<1>8. TypeOK'
  BY <1>1, <1>3, <1>5, <1>6, <1>7 DEF TypeOK, Used
<1>9. (CallOnRing(F))' /\ Inserted = {} /\ Inserted' = {brk} /\ (next_free \in F \cup {Base})'
  <2>1. /\ call'.fn = call.fn /\ call'.n = call.n /\ call'.left = call.left
        /\ call'.block = brk /\ call'.header = next_free
    BY <1>1, <1>3 DEF TypeOK
  <2> QED  BY <1>3, <1>4, <1>7, <2>1 DEF CallOnRing, Inserted
<1>10. PICK H : H = Blocks(F)
  OBVIOUS
<1>11. Tiling(H) /\ H = F \cup UsedHeaders
  BY <1>2, <1>9, <1>10 DEF WellFormed, Blocks
<1>12. mem \in [Word -> Nat] /\ mem'[brk + 1] = Room /\ \A a \in Word : a # brk + 1 => mem'[a] = mem[a]
  BY <1>1, <1>3, <1>6 DEF TypeOK
<1>13. \A h \in H : h \in Nat /\ h < brk /\ h + Size(h) <= brk /\ mem'[h + 1] = mem[h + 1] /\ mem'[h] = mem[h]
  <2> SUFFICES ASSUME NEW h \in H
               PROVE  h \in Nat /\ h < brk /\ h + Size(h) <= brk /\ mem'[h + 1] = mem[h + 1] /\ mem'[h] = mem[h]
    OBVIOUS
  <2>1. h \in Nat /\ h < brk /\ h + Size(h) <= brk
    BY <1>6, <1>11, Numbers DEF Tiling, InHeap
  <2>2. h \in Word /\ h + 1 \in Word
    BY <1>1, <1>11, HeadersApart
  <2> QED  BY <1>6, <1>12, <2>1, <2>2
<1>14. mem'[Base] = mem[Base] /\ mem'[Base + 1] = mem[Base + 1]
  BY <1>6, <1>12, Numbers
<1>15. Used' = Used /\ UsedHeaders' = UsedHeaders
  BY <1>3 DEF Used, UsedHeaders
<1>16. Ring(F)'
  <2>1. \A h \in F \cup {Base} : mem'[h] = mem[h]
    BY <1>11, <1>13, <1>14
  <2> QED  BY <1>2, <1>14, <2>1, RingStays DEF WellFormed
<1>17. (Tiling(Blocks(F)))'
  <2> PICK b : b = brk
    OBVIOUS
  <2>1. PICK K : K = H \cup {b}
    OBVIOUS
  <2>2. (Blocks(F))' = K
    BY <1>9, <1>11, <1>15, <2>1 DEF Blocks
  <2>3. (\A h \in H : Size(h)' = Size(h)) /\ Size(b)' = Room
    BY <1>12, <1>13 DEF Size
  <2>4. \A h \in K : InHeap(h)'
    <3>1. ASSUME NEW h \in H PROVE InHeap(h)'
      <4>1. InHeap(h)
        BY <1>11 DEF Tiling
      <4> QED  BY <1>3, <1>5, <1>6, <2>3, <4>1, Numbers DEF InHeap
    <3>2. InHeap(b)'
      BY <1>3, <1>5, <1>6, <2>3, Numbers DEF InHeap
    <3> QED  BY <2>1, <3>1, <3>2
  <2>5. Apart(K)'
    BY <1>11, <1>6, <1>13, <2>1, <2>3 DEF Apart, Tiling
  <2>6. Covered(K)'
    <3> SUFFICES ASSUME NEW a \in HeapStart..(brk' - 1)
                 PROVE  \E h \in K : h <= a /\ a < h + Size(h)'
      BY DEF Covered, Covers
    <3>1. CASE a < brk
      <4>1. a \in HeapStart..(brk - 1)
        BY <1>6, <3>1, Numbers
      <4>2. PICK h \in H : h <= a /\ a < h + Size(h)
        BY <1>11, <4>1 DEF Tiling, Covered, Covers
      <4> QED  BY <2>1, <2>3, <4>2
    <3>2. CASE ~ (a < brk)
      BY <1>3, <1>5, <1>6, <2>1, <2>3, <3>2, Numbers
    <3> QED  BY <3>1, <3>2
  <2>7. (Tiling(K))'
    BY <2>4, <2>5, <2>6 DEF Tiling
  <2> QED  BY <2>2, <2>7, TilingIs
<1>18. OneOwner(F)'
  BY <1>2, <1>3, <1>9, <1>11, <1>13, <1>15 DEF WellFormed, OneOwner
<1>19. SizesKept'
  <2> SUFFICES ASSUME NEW p \in Used PROVE mem'[p.ptr - Header + 1] = p.n + Header
    BY <1>15 DEF SizesKept, Size
  <2>1. p.ptr - Header \in H
    BY <1>11 DEF UsedHeaders
  <2> QED  BY <1>2, <1>13, <2>1 DEF WellFormed, SizesKept, Size
<1>20. (WellFormed(F))'
  BY <1>9, <1>16, <1>17, <1>18, <1>19 DEF WellFormed
<1> QED  BY <1>1, <1>3, <1>8, <1>20, InvStays

(***************************************************************************)
(* A block given back is no longer in use, and is to be inserted.          *)
(***************************************************************************)
LEMMA FreeKeeps ==
    ASSUME IInv, NEW p \in live, Free(p)
    PROVE  IInv'
<1>1. /\ pc = "idle" /\ sound /\ pc' = "insert" /\ live' = live \ {p}
      /\ call' = [NoCall EXCEPT !.fn = "free", !.block = p.ptr - Header, !.header = next_free]
      /\ UNCHANGED <<mem, next_free, brk, dropped, sound>>
  BY DEF Free
<1>2. next_free # NULL /\ TypeOK /\ p \in Used
  BY <1>1 DEF IInv, HeapInv, Fresh, Used
<1>3. PICK F \in SUBSET Word : WellFormed(F)
  BY <1>1, <1>2, Listed
<1>4. PICK b : b = p.ptr - Header
  OBVIOUS
<1>5. /\ Inserted = {} /\ Inserted' = {b}
      /\ call'.fn = "free" /\ call'.block = b /\ call'.header = next_free
      /\ call' = [fn |-> "free", n |-> 0, left |-> 0, prev |-> NULL, header |-> next_free, block |-> b]
  BY <1>1, <1>4 DEF Inserted, NoCall
<1>6. PICK H : H = Blocks(F)
  OBVIOUS
<1>7. Tiling(H) /\ H = F \cup UsedHeaders /\ b \in UsedHeaders
  BY <1>2, <1>3, <1>4, <1>5, <1>6 DEF WellFormed, Blocks, UsedHeaders
<1>8. b \in Word
  BY <1>2, <1>7, HeadersApart
<1>9. next_free \in F \cup {Base} /\ next_free \in Word
  BY <1>3, OnList DEF WellFormed
<1>10. TypeOK'
  BY <1>1, <1>2, <1>5, <1>8, <1>9, Numbers DEF TypeOK, Used
<1>11. (CallOnRing(F))'
  BY <1>1, <1>5, <1>9 DEF CallOnRing
<1>12. Used' = Used \ {p} /\ live \cap dropped = {}
  BY <1>1, <1>3 DEF Used, WellFormed, OneOwner
<1>13. UsedHeaders' = UsedHeaders \ {b}
  <2>1. \A q \in Used : q.ptr - Header = b => q = p
    <3> SUFFICES ASSUME NEW q \in Used, q.ptr - Header = b PROVE q = p
      OBVIOUS
    <3>1. q.ptr \in Nat /\ p.ptr \in Nat
      BY <1>2, Numbers DEF TypeOK
    <3>2. q.ptr = p.ptr
      BY <3>1, <1>4, Numbers
    <3> QED  BY <1>2, <1>3, <3>2 DEF WellFormed, OneOwner
  <2> QED  BY <1>4, <1>12, <2>1 DEF UsedHeaders
<1>14. Ring(F)'
  BY <1>1, <1>3, RingStays DEF WellFormed
<1>15. (Tiling(Blocks(F)))'
  <2>1. (Blocks(F))' = H
    BY <1>3, <1>5, <1>7, <1>13 DEF Blocks
  <2>2. Tiling(H)'
    BY <1>1, <1>7, TilingStays
  <2> QED  BY <2>1, <2>2, TilingIs
<1>16. OneOwner(F)' /\ SizesKept'
  BY <1>1, <1>3, <1>5, <1>7, <1>12, <1>13 DEF WellFormed, OneOwner, SizesKept, Size
<1>17. (WellFormed(F))'
  BY <1>1, <1>9, <1>11, <1>14, <1>15, <1>16 DEF WellFormed
<1> QED  BY <1>1, <1>2, <1>10, <1>17, InvStays

-------------------------------------------------------------------------------
(***************************************************************************)
(* The header that malloc takes: it is on the list, and not the base,      *)
(* whose size is zero.                                                     *)
(***************************************************************************)
LEMMA TakenHeader ==
    ASSUME TypeOK, NEW F \in SUBSET Word, WellFormed(F), pc = "scan", Fits(call.header)
    PROVE  /\ call.prev \in F \cup {Base} /\ call.header = Next_(call.prev)
           /\ call.header \in F /\ call.header # call.prev
           /\ call.n \in Requests /\ call.n \in Nat /\ call.n > 0 /\ call.left \in 1..2
           /\ call.fn \in {"malloc", "calloc"}
           /\ Size(call.header) \in Nat /\ Size(call.header) >= call.n + 2
           /\ call.header \in Nat /\ call.header >= 4 /\ call.header + Size(call.header) <= brk
           /\ Inserted = {}
<1>1. /\ call.prev \in F \cup {Base} /\ call.header = Next_(call.prev)
      /\ call.n \in Requests /\ call.left \in 1..2 /\ call.fn \in {"malloc", "calloc"}
      /\ Ring(F) /\ Tiling(Blocks(F)) /\ Inserted = {}
  BY DEF WellFormed, CallOnRing, Inserted
<1>2. call.n \in Nat /\ call.n > 0
  BY <1>1, RequestsPositive
<1>3. call.header \in F \cup {Base}
  BY <1>1, OnList
<1>4. call.header # Base /\ Size(call.header) >= call.n + 2
  BY <1>1, <1>2, Numbers DEF Fits, AllocationSize, Ring
<1>5. call.header \in F /\ call.header # call.prev
  <2>1. call.header \in F
    BY <1>3, <1>4
  <2>2. Follows(F, call.prev)
    BY <1>1 DEF Ring
  <2>3. call.prev \in Nat /\ call.header \in Nat
    <3>1. Word \subseteq Nat /\ Base \in Nat
      BY Numbers
    <3> QED  BY <1>1, <2>1, <3>1
  <2> QED  BY <1>1, <1>4, <2>1, <2>2, <2>3 DEF Follows
<1>6. InHeap(call.header)
  BY <1>1, <1>5 DEF Tiling, Blocks
<1>7. Size(call.header) \in Nat /\ call.header \in Nat /\ call.header >= 4
      /\ call.header + Size(call.header) <= brk
  BY <1>6, Numbers DEF InHeap, TypeOK
<1> QED  BY <1>1, <1>2, <1>4, <1>5, <1>7

(***************************************************************************)
(* Clearing a payload leaves every header: the block it belongs to has a   *)
(* header of its own in front, and no other block reaches into it.         *)
(***************************************************************************)
LEMMA ClearedKeeps ==
    ASSUME NEW m \in [Word -> Nat], NEW t \in Word, call.n \in Nat
    PROVE  /\ Cleared(m, t) \in [Word -> Nat]
           /\ \A a \in Word : a < t + 2 \/ a >= t + 2 + call.n => Cleared(m, t)[a] = m[a]
<1>1. CASE call.fn = "calloc"
  <2>1. Cleared(m, t) = [a \in Word |->
            IF a \in (t + Header)..(t + Header + call.n - 1) THEN 0 ELSE m[a]]
    BY <1>1 DEF Cleared
  <2>2. \A a \in Word : a < t + 2 \/ a >= t + 2 + call.n =>
            a \notin (t + Header)..(t + Header + call.n - 1)
    BY Numbers
  <2> QED  BY <2>1, <2>2
<1>2. CASE call.fn # "calloc"
  BY <1>2 DEF Cleared
<1> QED  BY <1>1, <1>2

(***************************************************************************)
(* What a turn of malloc that takes a block leaves: memory as the list     *)
(* operation made it but for the payload, and one block more in use.       *)
(***************************************************************************)
LEMMA TakeLeaves ==
    ASSUME TypeOK, NEW F \in SUBSET Word, WellFormed(F), Take,
           NEW t \in Word, t = Taken(call.header), t + 1 \in Word, t + 2 \in Word,
           t \notin UsedHeaders, Unlinked(call.header) \in [Word -> Nat],
           (next_free \in Word)'
    PROVE  /\ mem' \in [Word -> Nat]
           /\ \A a \in Word : a < t + 2 \/ a >= t + 2 + call.n =>
                  mem'[a] = Unlinked(call.header)[a]
           /\ UsedHeaders' = UsedHeaders \cup {t} /\ Inserted' = {}
           /\ pc' \in {"idle", "again"}
           /\ \A G : CallOnRing(G)'
           /\ \E block : /\ Used' = Used \cup {block} /\ block \notin Used
                         /\ block.ptr = t + 2 /\ block.n = call.n
           /\ (live \cap dropped = {})'
           /\ TypeOK'
<1> DEFINE h == call.header
           block == [ptr |-> t + 2, n |-> call.n]
           m == Unlinked(h)
<1>1. /\ call.left \in 1..2 /\ call.n \in Nat /\ call.n \in Requests /\ call.fn \in {"malloc", "calloc"}
      /\ pc = "scan"
  BY TakenHeader DEF Take
<1>2. /\ \/ /\ mem' = Cleared(m, t) /\ live' = live \cup {block} /\ dropped' = dropped
            /\ pc' = "idle" /\ call' = NoCall
         \/ /\ mem' = m /\ dropped' = dropped \cup {block} /\ live' = live
            /\ pc' = "again" /\ call' = [call EXCEPT !.left = call.left - 1] /\ call.left = 2
      /\ brk' = brk /\ sound' \in BOOLEAN
  BY <1>1, Numbers DEF Take, Return
<1>3. /\ mem' \in [Word -> Nat]
      /\ \A a \in Word : a < t + 2 \/ a >= t + 2 + call.n => mem'[a] = m[a]
  <2> HIDE DEF m
  <2>1. m \in [Word -> Nat]
    BY DEF m
  <2> QED  BY <1>1, <1>2, <2>1, ClearedKeeps
<1>4. Used' = Used \cup {block}
  BY <1>2 DEF Used
<1>5. UsedHeaders' = UsedHeaders \cup {t}
  <2>1. block.ptr - Header = t
    BY Numbers
  <2> HIDE DEF block
  <2> QED  BY <1>4, <2>1 DEF UsedHeaders
<1>6. block \notin Used
  <2>1. block.ptr - Header = t
    BY Numbers
  <2> QED  BY <2>1 DEF UsedHeaders
<1>7. (live \cap dropped = {})'
  <2>1. live \cap dropped = {}
    BY DEF WellFormed, OneOwner
  <2> QED  BY <1>2, <1>6, <2>1 DEF Used
<1>8. pc' \in {"idle", "again"} /\ Inserted' = {}
  BY <1>2 DEF Inserted
<1>9. \A G : CallOnRing(G)'
  <2>1. pc' = "again" => call'.fn = call.fn /\ call'.n = call.n /\ call'.left = 1
    BY <1>1, <1>2 DEF TypeOK
  <2> QED  BY <1>1, <1>8, <2>1 DEF CallOnRing
<1>10. TypeOK'
  <2>1. block \in [ptr : Word, n : Requests]
    BY <1>1
  <2>2. (Used \subseteq [ptr : Word, n : Requests])'
    BY <1>4, <2>1 DEF TypeOK
  <2>3. (call \in [fn : {"none", "malloc", "calloc", "free"}, n : Requests \cup {0}, left : 0..2,
                   prev : {NULL} \cup Word, header : {NULL} \cup Word, block : {NULL} \cup Word])'
    BY <1>1, <1>2 DEF TypeOK, NoCall
  <2> QED  BY <1>2, <1>3, <1>8, <2>2, <2>3 DEF TypeOK
<1> QED  BY <1>3, <1>4, <1>5, <1>6, <1>7, <1>8, <1>9, <1>10

(***************************************************************************)
(* A header leaves the ring, or joins it, as lists do.                     *)
(***************************************************************************)
LEMMA RingRemove ==
    ASSUME NEW F \in SUBSET Nat, \A g \in F : g > Base, Ring(F),
           NEW prev \in F \cup {Base}, NEW h \in F, h = Next_(prev), h # prev,
           mem'[prev] = mem[h], mem'[Base + 1] = mem[Base + 1],
           \A g \in F \cup {Base} : g # prev /\ g # h => mem'[g] = mem[g]
    PROVE  (Ring(F \ {h}))'
<1> DEFINE G == F \ {h}
<1>1. Base = 1 /\ Base \in Nat /\ prev \in Nat /\ h \in Nat
  BY DEF Base
<1>2. \A g \in F \cup {Base} : Follows(F, g)
  BY DEF Ring
<1>3. h > prev /\ \A g \in F : g <= prev \/ g >= h
  BY <1>1, <1>2 DEF Follows
<1>4. ASSUME NEW g \in G \cup {Base}
      PROVE  Follows(G, g)'
  <2>1. g \in F \cup {Base} /\ g # h /\ g \in Nat
    BY <1>1
  <2>2. CASE g = prev
    <3>1. mem'[g] = mem[h] /\ Follows(F, h)
      BY <1>2, <2>2
    <3>2. CASE mem[h] = Base
      BY <1>1, <1>3, <2>2, <3>1, <3>2 DEF Follows, Next_
    <3>3. CASE mem[h] # Base
      <4>1. mem[h] \in F /\ mem[h] > h /\ \A k \in F : k <= h \/ k >= mem[h]
        BY <3>1, <3>3 DEF Follows, Next_
      <4>2. mem[h] \in G /\ mem[h] > g
        <5>1. mem[h] \in Nat /\ mem[h] > g
          <6>1. mem[h] \in Nat /\ mem[h] > h
            BY <4>1
          <6> QED  BY <1>1, <1>3, <2>2, <6>1
        <5> QED  BY <1>1, <4>1, <5>1
      <4>3. \A k \in G : k <= g \/ k >= mem[h]
        BY <1>1, <1>3, <2>2, <4>1
      <4> QED  BY <3>1, <4>2, <4>3 DEF Follows, Next_
    <3> QED  BY <3>2, <3>3
  <2>3. CASE g # prev
    <3>1. mem'[g] = mem[g] /\ Follows(F, g)
      BY <1>2, <2>1, <2>3
    <3>2. mem[g] # h
      <4> SUFFICES ASSUME mem[g] = h PROVE FALSE
        OBVIOUS
      <4>1. g < h /\ \A k \in F : k <= g \/ k >= h
        BY <1>1, <3>1 DEF Follows, Next_
      <4> QED  BY <1>1, <1>3, <2>1, <2>3, <4>1
    <3> QED  BY <3>1, <3>2 DEF Follows, Next_
  <2> QED  BY <2>2, <2>3
<1>5. Size(Base)' = 0
  BY DEF Ring, Size
<1> QED  BY <1>4, <1>5 DEF Ring

LEMMA RingAdd ==
    ASSUME NEW F \in SUBSET Nat, \A g \in F : g > Base, Ring(F),
           NEW h \in F \cup {Base}, NEW b \in Nat, b \notin F, b > Base, h < b,
           Next_(h) = Base \/ b < Next_(h),
           mem'[h] = b, mem'[b] = mem[h], mem'[Base + 1] = mem[Base + 1],
           \A g \in F \cup {Base} : g # h => mem'[g] = mem[g]
    PROVE  (Ring(F \cup {b}))'
<1> DEFINE G == F \cup {b}
<1>1. Base = 1 /\ Base \in Nat /\ h \in Nat
  BY DEF Base
<1>2. \A g \in F \cup {Base} : Follows(F, g)
  BY DEF Ring
<1>3. \A k \in F : k <= h \/ k > b
  <2>1. Follows(F, h)
    BY <1>2
  <2>2. CASE Next_(h) = Base
    BY <1>1, <2>1, <2>2 DEF Follows
  <2>3. CASE Next_(h) # Base
    <3>1. Next_(h) \in F /\ \A k \in F : k <= h \/ k >= Next_(h)
      BY <2>1, <2>3 DEF Follows
    <3>2. Next_(h) \in Nat /\ b < Next_(h)
      BY <2>3, <3>1
    <3> QED  BY <1>1, <3>1, <3>2
  <2> QED  BY <2>2, <2>3
<1>4. ASSUME NEW g \in G \cup {Base}
      PROVE  Follows(G, g)'
  <2>1. CASE g = b
    <3>1. mem'[b] = mem[h] /\ Follows(F, h)
      BY <1>2
    <3>2. CASE mem[h] = Base
      BY <1>1, <2>1, <3>1, <3>2 DEF Follows, Next_
    <3>3. CASE mem[h] # Base
      <4>1. mem[h] \in F /\ mem[h] > b /\ \A k \in F : k <= h \/ k >= mem[h]
        BY <3>1, <3>3 DEF Follows, Next_
      <4> QED  BY <1>1, <2>1, <3>1, <4>1 DEF Follows, Next_
    <3> QED  BY <3>2, <3>3
  <2>2. CASE g = h
    <3>1. mem'[g] = b /\ b \in G /\ b > g
      BY <2>2
    <3>2. \A k \in G : k <= g \/ k >= b
      BY <1>1, <1>3, <2>2
    <3> QED  BY <3>1, <3>2 DEF Follows, Next_
  <2>3. CASE g # b /\ g # h
    <3>1. mem'[g] = mem[g] /\ Follows(F, g) /\ g \in F \cup {Base} /\ g \in Nat
      BY <1>1, <1>2, <2>3
    <3>2. CASE mem[g] = Base
      <4>1. \A k \in F : k <= g
        <5>1. mem[g] > g => FALSE
          BY <1>1, <3>1, <3>2
        <5> QED  BY <3>1, <5>1 DEF Follows, Next_
      <4>2. g # Base
        BY <1>1, <2>3, <4>1
      <4>3. g > h
        BY <1>1, <2>3, <3>1, <4>1, <4>2
      <4>4. b <= g
        BY <1>1, <1>3, <3>1, <4>2, <4>3
      <4> QED  BY <3>1, <3>2, <4>1, <4>4 DEF Follows, Next_
    <3>3. CASE mem[g] # Base
      <4>1. mem[g] \in F /\ mem[g] > g /\ \A k \in F : k <= g \/ k >= mem[g]
        BY <3>1, <3>3 DEF Follows, Next_
      <4>2. b <= g \/ b >= mem[g]
        <5>1. h \in F => h <= g \/ h >= mem[g]
          BY <4>1
        <5>2. h <= g \/ h >= mem[g]
          BY <1>1, <3>1, <5>1
        <5>3. mem[g] \in Nat
          BY <4>1
        <5>4. CASE h >= mem[g]
          BY <1>1, <5>3, <5>4
        <5>5. CASE h <= g
          <6>1. g > h /\ g \in F
            BY <1>1, <2>3, <3>1, <5>5
          <6> QED  BY <1>1, <1>3, <3>1, <6>1
        <5> QED  BY <5>2, <5>4, <5>5
      <4> QED  BY <3>1, <4>1, <4>2 DEF Follows, Next_
    <3> QED  BY <3>2, <3>3
  <2> QED  BY <2>1, <2>2, <2>3
<1>5. Size(Base)' = 0
  BY DEF Ring, Size
<1> QED  BY <1>4, <1>5 DEF Ring

(***************************************************************************)
(* A block that is cut in two is two blocks.                               *)
(***************************************************************************)
LEMMA TilingSplit ==
    ASSUME NEW H, Tiling(H), NEW h \in H, NEW t \in Nat, brk \in Nat, brk' = brk,
           t - h >= 2, h + Size(h) - t >= 2,
           Size(h)' = t - h, Size(t)' = h + Size(h) - t,
           \A g \in H : g # h => Size(g)' = Size(g)
    PROVE  (Tiling(H \cup {t}))'
<1>1. \A g \in H : InHeap(g) /\ g \in Nat /\ Size(g) \in Nat
  BY DEF Tiling, InHeap, HeapStart
<1>2. \A g \in H : (g < h => g + Size(g) <= h) /\ (h < g => h + Size(h) <= g)
  BY DEF Tiling, Apart
<1>3. \A g \in H \cup {t} : InHeap(g)'
  BY <1>1 DEF InHeap, Header, HeapStart
<1>4. Apart(H \cup {t})'
  <2> SUFFICES ASSUME NEW f \in H \cup {t}, NEW g \in H \cup {t}, f < g
               PROVE  f + Size(f)' <= g
    BY DEF Apart
  <2>1. CASE f = t
    BY <1>1, <1>2, <2>1
  <2>2. CASE f # t /\ g = t
    BY <1>1, <1>2, <2>2
  <2>3. CASE f # t /\ g # t
    <3>1. f \in H /\ g \in H /\ f + Size(f) <= g
      BY <2>3 DEF Tiling, Apart
    <3> QED  BY <1>1, <3>1
  <2> QED  BY <2>1, <2>2, <2>3
<1>5. Covered(H \cup {t})'
  <2> SUFFICES ASSUME NEW a \in HeapStart..(brk - 1)
               PROVE  \E g \in H \cup {t} : g <= a /\ a < g + Size(g)'
    BY DEF Covered, Covers
  <2>1. PICK g \in H : g <= a /\ a < g + Size(g)
    BY DEF Tiling, Covered, Covers
  <2>2. a \in Nat
    BY DEF HeapStart
  <2>3. CASE g = h
    BY <1>1, <2>1, <2>2, <2>3
  <2>4. CASE g # h
    BY <2>1, <2>4
  <2> QED  BY <2>3, <2>4
<1> QED  BY <1>3, <1>4, <1>5 DEF Tiling

(***************************************************************************)
(* malloc takes the whole block, and its header leaves the list ...        *)
(***************************************************************************)
LEMMA TakeWhole ==
    ASSUME IInv, sound, Take, Exact(call.header)
    PROVE  IInv'
<1>1. next_free # NULL /\ TypeOK /\ pc = "scan" /\ Fits(call.header)
  BY CallHasList DEF Take, IInv
<1>2. PICK F \in SUBSET Word : WellFormed(F)
  BY <1>1, Listed
<1>3. PICK h, prev, n : h = call.header /\ prev = call.prev /\ n = call.n
  OBVIOUS
<1>4. /\ prev \in F \cup {Base} /\ h = Next_(prev) /\ h \in F /\ h # prev
      /\ n \in Nat /\ n > 0 /\ n \in Requests
      /\ h \in Nat /\ h >= 4 /\ h + Size(h) <= brk
      /\ Inserted = {}
  BY <1>1, <1>2, <1>3, TakenHeader
<1>5. PICK H : H = Blocks(F)
  OBVIOUS
<1>6. Tiling(H) /\ H = F \cup UsedHeaders
  BY <1>2, <1>4, <1>5 DEF WellFormed, Blocks
<1>7. Size(h) = n + 2
  BY <1>3, Numbers DEF Exact, AllocationSize
<1>8. /\ h \in Word /\ h + 1 \in Word /\ h + 2 \in Word
  <2>1. brk \in Nat /\ brk <= HeapWords + 4
    BY <1>1, Numbers DEF TypeOK
  <2> QED  BY <1>4, <1>7, <2>1, Numbers
<1>9. Taken(h) = h /\ Unlinked(h) = [mem EXCEPT ![prev] = Next_(h)]
  BY <1>3 DEF Taken, Unlinked
<1>10. prev \in Word /\ Next_(h) \in Word /\ Word \subseteq Nat
  BY <1>2, <1>4, OnList, Numbers DEF WellFormed
<1>11. h \notin UsedHeaders
  BY <1>2, <1>4 DEF WellFormed, OneOwner
<1>12. /\ Unlinked(h) \in [Word -> Nat] /\ Unlinked(h)[prev] = Next_(h)
       /\ \A a \in Word : a # prev => Unlinked(h)[a] = mem[a]
  BY <1>1, <1>9, <1>10 DEF TypeOK
<1>13. next_free' = prev /\ next_free' # NULL /\ brk' = brk
  BY <1>3, <1>10, Numbers DEF Take
<1>14. /\ mem' \in [Word -> Nat]
       /\ \A a \in Word : a < h + 2 \/ a >= h + 2 + n => mem'[a] = Unlinked(h)[a]
       /\ UsedHeaders' = UsedHeaders \cup {h} /\ Inserted' = {}
       /\ \A G : CallOnRing(G)'
       /\ \E block : /\ Used' = Used \cup {block} /\ block \notin Used
                     /\ block.ptr = h + 2 /\ block.n = n
       /\ (live \cap dropped = {})'
       /\ TypeOK'
  <2>1. (next_free \in Word)'
    BY <1>10, <1>13
  <2> QED  BY <1>1, <1>2, <1>3, <1>8, <1>9, <1>11, <1>12, <2>1, TakeLeaves
<1>15. \A g \in H : /\ g \in Word /\ g + 1 \in Word /\ g \in Nat /\ g > Base + 1
                    /\ g + 1 # prev
                    /\ mem'[g + 1] = mem[g + 1]
                    /\ g # h /\ g # prev => mem'[g] = mem[g]
  <2> SUFFICES ASSUME NEW g \in H
               PROVE  /\ g \in Word /\ g + 1 \in Word /\ g \in Nat /\ g > Base + 1
                      /\ g + 1 # prev
                      /\ mem'[g + 1] = mem[g + 1]
                      /\ g # h /\ g # prev => mem'[g] = mem[g]
    OBVIOUS
  <2>1. g \in Word /\ g + 1 \in Word /\ g \in Nat /\ g > Base + 1
    BY <1>1, <1>6, HeadersApart
  <2>2. g + 1 # prev
    <3>1. CASE prev \in F
      BY <1>1, <1>6, <3>1, HeadersApart
    <3>2. CASE prev = Base
      BY <2>1, <3>2, Numbers
    <3> QED  BY <1>4, <3>1, <3>2
  <2>3. g # h => g + 1 < h \/ g >= h + 2 + n
    <3>1. (g < h => g + Size(g) <= h) /\ (h < g => h + Size(h) <= g)
      BY <1>4, <1>6 DEF Tiling, Apart
    <3>2. Size(g) \in Nat /\ Size(g) >= 2
      BY <1>6, Numbers DEF Tiling, InHeap
    <3> QED  BY <1>4, <1>7, <2>1, <3>1, <3>2
  <2>4. /\ g + 1 < h + 2 \/ g + 1 >= h + 2 + n
        /\ g < h + 2 \/ g >= h + 2 + n
    BY <1>4, <2>1, <2>3
  <2> QED  BY <1>12, <1>14, <2>1, <2>2, <2>4
<1>16. /\ mem'[prev] = mem[h] /\ mem'[Base + 1] = mem[Base + 1]
       /\ \A g \in F \cup {Base} : g # prev /\ g # h => mem'[g] = mem[g]
  <2>1. prev < h + 2 \/ prev >= h + 2 + n
    <3>1. CASE prev = Base
      BY <1>4, <3>1, Numbers
    <3>2. CASE prev \in F
      <4>1. (prev < h => prev + Size(prev) <= h) /\ (h < prev => h + Size(h) <= prev)
        BY <1>4, <1>6, <3>2 DEF Tiling, Apart
      <4> QED  BY <1>4, <1>7, <1>10, <4>1
    <3> QED  BY <1>4, <3>1, <3>2
  <2>2. mem'[prev] = mem[h]
    BY <1>10, <1>12, <1>14, <2>1 DEF Next_
  <2>3. Base \in Word /\ Base + 1 \in Word /\ Base + 1 < h + 2 /\ Base < h + 2 /\ Base + 1 # prev
    <3>1. prev \in F => prev > Base + 1
      BY <1>6, <1>15
    <3> QED  BY <1>4, <3>1, Numbers
  <2>4. mem'[Base + 1] = mem[Base + 1] /\ (Base # prev => mem'[Base] = mem[Base])
    BY <1>12, <1>14, <2>3
  <2> QED  BY <1>6, <1>15, <2>2, <2>4
<1>17. (Ring(F \ {h}))'
  <2>1. F \in SUBSET Nat /\ (\A g \in F : g > Base) /\ Ring(F)
    BY <1>2, <1>6, <1>10, <1>15, Numbers DEF WellFormed
  <2> QED  BY <1>4, <1>16, <2>1, RingRemove
<1>18. (Tiling(Blocks(F \ {h})))'
  <2>1. (Blocks(F \ {h}))' = H
    BY <1>4, <1>6, <1>14 DEF Blocks
  <2>2. Tiling(H)'
    BY <1>6, <1>13, <1>15, TilingStays
  <2> QED  BY <2>1, <2>2, TilingIs
<1>19. PICK block : /\ Used' = Used \cup {block} /\ block \notin Used
                    /\ block.ptr = h + 2 /\ block.n = n
  BY <1>14
<1>20. OneOwner(F \ {h})'
  <2>1. \A p \in Used : p.ptr # h + 2
    BY <1>4, <1>11, Numbers DEF UsedHeaders
  <2>2. \A p, q \in Used' : p.ptr = q.ptr => p = q
    BY <1>2, <1>19, <2>1 DEF WellFormed, OneOwner
  <2>3. (F \ {h}) \cap UsedHeaders' = {}
    BY <1>2, <1>14 DEF WellFormed, OneOwner
  <2> QED  BY <1>14, <2>2, <2>3 DEF OneOwner
<1>21. SizesKept'
  <2> SUFFICES ASSUME NEW p \in Used' PROVE mem'[p.ptr - Header + 1] = p.n + Header
    BY DEF SizesKept, Size
  <2>1. CASE p = block
    <3>1. p.ptr - Header + 1 = h + 1 /\ p.n = n
      BY <1>4, <1>19, <2>1, Numbers
    <3> QED  BY <1>4, <1>6, <1>7, <1>15, <3>1, Numbers DEF Size
  <2>2. CASE p \in Used
    <3>1. p.ptr - Header \in H
      BY <1>6, <2>2 DEF UsedHeaders
    <3> QED  BY <1>2, <1>15, <2>2, <3>1 DEF WellFormed, SizesKept, Size
  <2> QED  BY <1>19, <2>1, <2>2
<1>22. (next_free \in (F \ {h}) \cup {Base})'
  BY <1>4, <1>13
<1>23. (WellFormed(F \ {h}))'
  BY <1>14, <1>17, <1>18, <1>20, <1>21, <1>22 DEF WellFormed
<1> QED  BY <1>13, <1>14, <1>23, InvStays

(***************************************************************************)
(* ... or its tail, and the header keeps the rest, which sound says has    *)
(* room for a header.                                                      *)
(***************************************************************************)
LEMMA TakePart ==
    ASSUME IInv, sound, Take, ~ Exact(call.header)
    PROVE  IInv'
<1>1. next_free # NULL /\ TypeOK /\ pc = "scan" /\ Fits(call.header)
  BY CallHasList DEF Take, IInv
<1>2. PICK F \in SUBSET Word : WellFormed(F)
  BY <1>1, Listed
<1>3. PICK h, prev, n : h = call.header /\ prev = call.prev /\ n = call.n
  OBVIOUS
<1>4. /\ prev \in F \cup {Base} /\ h \in F
      /\ n \in Nat /\ n > 0 /\ n \in Requests
      /\ h \in Nat /\ h >= 4 /\ h + Size(h) <= brk
      /\ Size(h) \in Nat /\ Size(h) >= n + 2
      /\ Inserted = {}
  BY <1>1, <1>2, <1>3, TakenHeader
<1>5. PICK H : H = Blocks(F)
  OBVIOUS
<1>6. Tiling(H) /\ H = F \cup UsedHeaders /\ h \in H
  BY <1>2, <1>4, <1>5 DEF WellFormed, Blocks
<1>7. PICK rest : rest = Remainder(h)
  OBVIOUS
<1>8. rest = Size(h) - (n + 2) /\ rest \in Nat /\ rest > 0
  <2>1. Size(h) # n + 2
    BY <1>3, Numbers DEF Exact, AllocationSize
  <2> QED  BY <1>3, <1>4, <1>7, <2>1, Numbers DEF Remainder, AllocationSize
<1>9. PICK t : t = h + rest
  OBVIOUS
<1>10. brk \in Nat /\ brk <= HeapWords + 4
  BY <1>1, Numbers DEF TypeOK
<1>11. /\ t \in Nat /\ h < t /\ t + n + 2 = h + Size(h)
       /\ t \in Word /\ t + 1 \in Word /\ t + 2 \in Word /\ h + 1 \in Word
  <2>1. t \in Nat /\ h < t /\ t + n + 2 = h + Size(h)
    BY <1>4, <1>8, <1>9
  <2>2. t + 2 <= HeapWords + 3 /\ h + 1 <= HeapWords + 3
    BY <1>4, <1>10, <2>1, Numbers
  <2> QED  BY <1>4, <2>1, <2>2, Numbers
<1>12. Taken(h) = t /\ Unlinked(h) = [mem EXCEPT ![h + 1] = rest, ![t + 1] = n + 2]
  BY <1>3, <1>7, <1>9, Numbers DEF Taken, Unlinked, AllocationSize
<1>13. /\ Unlinked(h) \in [Word -> Nat] /\ Unlinked(h)[h + 1] = rest /\ Unlinked(h)[t + 1] = n + 2
       /\ \A a \in Word : a # h + 1 /\ a # t + 1 => Unlinked(h)[a] = mem[a]
  BY <1>1, <1>4, <1>8, <1>11, <1>12 DEF TypeOK
<1>14. \A g \in H : /\ g \in Word /\ g + 1 \in Word /\ g \in Nat /\ g > Base + 1
                    /\ g # h => g + 1 < h \/ g >= t + n + 2
  <2> SUFFICES ASSUME NEW g \in H
               PROVE  /\ g \in Word /\ g + 1 \in Word /\ g \in Nat /\ g > Base + 1
                      /\ g # h => g + 1 < h \/ g >= t + n + 2
    OBVIOUS
  <2>1. g \in Word /\ g + 1 \in Word /\ g \in Nat /\ g > Base + 1
    BY <1>1, <1>6, HeadersApart
  <2>2. (g < h => g + Size(g) <= h) /\ (h < g => h + Size(h) <= g)
    BY <1>4, <1>6 DEF Tiling, Apart
  <2>3. Size(g) \in Nat /\ Size(g) >= 2
    BY <1>6, Numbers DEF Tiling, InHeap
  <2> QED  BY <1>4, <1>11, <2>1, <2>2, <2>3
<1>15. t \notin H
  BY <1>4, <1>11, <1>14
<1>16. next_free' = prev /\ prev \in Word /\ prev # NULL /\ brk' = brk
  <2>1. Base \in Word /\ \A a \in Word : a # NULL
    BY Numbers
  <2>2. prev \in Word
    BY <1>4, <2>1
  <2> QED  BY <1>3, <2>1, <2>2 DEF Take
<1>17. /\ mem' \in [Word -> Nat]
       /\ \A a \in Word : a < t + 2 \/ a >= t + 2 + n => mem'[a] = Unlinked(h)[a]
       /\ UsedHeaders' = UsedHeaders \cup {t} /\ Inserted' = {}
       /\ \A G : CallOnRing(G)'
       /\ \E block : /\ Used' = Used \cup {block} /\ block \notin Used
                     /\ block.ptr = t + 2 /\ block.n = n
       /\ (live \cap dropped = {})'
       /\ TypeOK'
  <2>1. (next_free \in Word)' /\ t \notin UsedHeaders
    BY <1>6, <1>15, <1>16
  <2> QED  BY <1>1, <1>2, <1>3, <1>11, <1>12, <1>13, <2>1, TakeLeaves
<1>18. CASE ~ sound'
  BY <1>17, <1>18 DEF IInv
<1>19. CASE sound'
  <2>1. rest >= 2
    BY <1>3, <1>7, <1>19, Numbers DEF Take
  <2>2. /\ mem'[h + 1] = rest /\ mem'[t + 1] = n + 2
        /\ \A g \in H : mem'[g] = mem[g] /\ (g # h => mem'[g + 1] = mem[g + 1])
    <3>1. mem'[h + 1] = rest /\ mem'[t + 1] = n + 2
      BY <1>4, <1>11, <1>13, <1>17
    <3>2. ASSUME NEW g \in H PROVE mem'[g] = mem[g]
      <4>1. CASE g = h
        BY <1>4, <1>9, <1>11, <1>13, <1>14, <1>17, <2>1, <4>1
      <4>2. CASE g # h
        <5>1. g \in Word /\ g \in Nat /\ (g + 1 < h \/ g >= t + n + 2)
          BY <1>14, <4>2
        <5>2. g # h + 1 /\ g # t + 1 /\ (g < t + 2 \/ g >= t + 2 + n)
          BY <1>4, <1>11, <5>1
        <5> QED  BY <1>13, <1>17, <5>1, <5>2
      <4> QED  BY <4>1, <4>2
    <3>3. ASSUME NEW g \in H, g # h PROVE mem'[g + 1] = mem[g + 1]
      <4>1. g + 1 \in Word /\ g \in Nat /\ (g + 1 < h \/ g >= t + n + 2)
        BY <1>14, <3>3
      <4>2. g + 1 # h + 1 /\ g + 1 # t + 1 /\ (g + 1 < t + 2 \/ g + 1 >= t + 2 + n)
        BY <1>4, <1>11, <4>1
      <4> QED  BY <1>13, <1>17, <4>1, <4>2
    <3> QED  BY <3>1, <3>2, <3>3
  <2>3. mem'[Base] = mem[Base] /\ mem'[Base + 1] = mem[Base + 1]
    <3>1. /\ Base \in Word /\ Base + 1 \in Word /\ Base < t + 2 /\ Base + 1 < t + 2
          /\ Base # h + 1 /\ Base # t + 1 /\ Base + 1 # h + 1 /\ Base + 1 # t + 1
      BY <1>4, <1>11, Numbers
    <3> QED  BY <1>13, <1>17, <3>1
  <2>4. Ring(F)'
    <3>1. \A g \in F \cup {Base} : mem'[g] = mem[g]
      BY <1>6, <2>2, <2>3
    <3> QED  BY <1>2, <2>3, <3>1, RingStays DEF WellFormed
  <2>5. (Tiling(Blocks(F)))'
    <3>1. PICK K : K = H \cup {t}
      OBVIOUS
    <3>2. (Blocks(F))' = K
      BY <1>6, <1>17, <3>1 DEF Blocks
    <3>3. Size(h)' = t - h /\ Size(t)' = h + Size(h) - t
      BY <1>4, <1>8, <1>9, <1>11, <2>2 DEF Size
    <3>4. t - h >= 2 /\ h + Size(h) - t >= 2
      BY <1>4, <1>8, <1>9, <2>1
    <3>5. \A g \in H : g # h => Size(g)' = Size(g)
      BY <2>2 DEF Size
    <3>6. Tiling(K)'
      BY <1>6, <1>10, <1>11, <1>16, <3>1, <3>3, <3>4, <3>5, TilingSplit
    <3> QED  BY <3>2, <3>6, TilingIs
  <2>6. PICK block : /\ Used' = Used \cup {block} /\ block \notin Used
                     /\ block.ptr = t + 2 /\ block.n = n
    BY <1>17
  <2>7. OneOwner(F)'
    <3>1. \A p \in Used : p.ptr # t + 2
      BY <1>6, <1>11, <1>15, Numbers DEF UsedHeaders
    <3>2. \A p, q \in Used' : p.ptr = q.ptr => p = q
      BY <1>2, <2>6, <3>1 DEF WellFormed, OneOwner
    <3>3. F \cap UsedHeaders' = {}
      BY <1>2, <1>6, <1>15, <1>17 DEF WellFormed, OneOwner
    <3> QED  BY <1>17, <3>2, <3>3 DEF OneOwner
  <2>8. SizesKept'
    <3> SUFFICES ASSUME NEW p \in Used' PROVE mem'[p.ptr - Header + 1] = p.n + Header
      BY DEF SizesKept, Size
    <3>1. CASE p = block
      <4>1. p.ptr - Header + 1 = t + 1 /\ p.n = n
        BY <1>11, <2>6, <3>1, Numbers
      <4> QED  BY <2>2, <4>1, Numbers
    <3>2. CASE p \in Used
      <4>1. p.ptr - Header \in H
        BY <1>6, <3>2 DEF UsedHeaders
      <4>2. p.ptr - Header # h
        BY <1>2, <1>4, <3>2 DEF WellFormed, OneOwner, UsedHeaders
      <4> QED  BY <1>2, <2>2, <3>2, <4>1, <4>2 DEF WellFormed, SizesKept, Size
    <3> QED  BY <2>6, <3>1, <3>2
  <2>9. (next_free \in F \cup {Base})'
    BY <1>4, <1>16
  <2>10. (WellFormed(F))'
    BY <1>17, <2>4, <2>5, <2>7, <2>8, <2>9 DEF WellFormed
  <2> QED  BY <1>16, <1>17, <2>10, InvStays
<1> QED  BY <1>18, <1>19

-------------------------------------------------------------------------------
(***************************************************************************)
(* A header is longer than a byte, so a pointer moved by the size of a     *)
(* block never stops where the block ends: a step that stays sound merges  *)
(* nothing.                                                                *)
(***************************************************************************)
LEMMA StrideMisses ==
    ASSUME NEW low \in Nat, NEW size \in Nat, size > 0
    PROVE  low + Stride * size # low + size
<1>1. Stride \in Nat /\ Stride >= 2
  BY MallocAssumption
<1>2. Stride = (Stride - 2) + 2 /\ Stride - 2 \in Nat
  BY <1>1
<1>3. PICK k \in Nat : Stride = k + 2
  BY <1>2
<1>4. Stride * size = k * size + 2 * size /\ k * size \in Nat
  BY <1>3
<1> QED  BY <1>4

(***************************************************************************)
(* Where free puts the block: above a header on the list, below the next   *)
(* one, or at the end of the list.                                         *)
(***************************************************************************)
LEMMA InsertPlace ==
    ASSUME TypeOK, NEW F \in SUBSET Word, WellFormed(F), pc = "insert",
           Place(call.block, call.header)
    PROVE  /\ call.header \in F \cup {Base} /\ call.header < call.block
           /\ Next_(call.header) = Base \/ call.block < Next_(call.header)
           /\ Next_(call.header) \in F \cup {Base}
           /\ call.block \notin F \cup UsedHeaders
           /\ Inserted = {call.block} /\ call.block \in Blocks(F)
<1>1. /\ call.header \in F \cup {Base} /\ Inserted = {call.block}
      /\ Ring(F) /\ Tiling(Blocks(F)) /\ call.block \in Blocks(F)
      /\ call.block \notin F \cup UsedHeaders
  BY DEF WellFormed, CallOnRing, Inserted, OneOwner, Blocks
<1>2. Next_(call.header) \in F \cup {Base}
  BY <1>1, OnList
<1>3. call.block \in Nat /\ call.block > Base
  BY <1>1, HeadersApart, Numbers
<1>4. Word \subseteq Nat /\ Base \in Nat /\ \A g \in F : g \in Nat /\ g > Base
  <2>1. \A g \in F : g > Base + 1
    BY <1>1, HeadersApart DEF Blocks
  <2> QED  BY <2>1, Numbers
<1>5. call.header \in Nat /\ Next_(call.header) \in Nat
  BY <1>1, <1>2, <1>4
<1>6. CASE call.block > call.header /\ call.block < Next_(call.header)
  BY <1>1, <1>2, <1>3, <1>5, <1>6
<1>7. CASE /\ call.header >= Next_(call.header)
           /\ call.block > call.header \/ call.block < Next_(call.header)
  <2>1. Next_(call.header) = Base
    <3>1. Follows(F, call.header)
      BY <1>1 DEF Ring
    <3> QED  BY <1>5, <1>7, <3>1 DEF Follows
  <2>2. call.block > call.header
    BY <1>3, <1>4, <1>7, <2>1
  <2> QED  BY <1>1, <1>2, <1>3, <1>5, <2>1, <2>2
<1> QED  BY <1>6, <1>7 DEF Place

LEMMA InsertKeeps ==
    ASSUME IInv, sound, Insert
    PROVE  IInv'
<1>1. /\ next_free # NULL /\ TypeOK /\ pc = "insert" /\ Place(call.block, call.header)
      /\ UNCHANGED <<brk, live, dropped>>
  BY CallHasList DEF Insert, IInv
<1>2. PICK F \in SUBSET Word : WellFormed(F)
  BY <1>1, Listed
<1>3. PICK h, b, next : h = call.header /\ b = call.block /\ next = Next_(h)
  OBVIOUS
<1>4. /\ h \in F \cup {Base} /\ h < b /\ (next = Base \/ b < next)
      /\ next \in F \cup {Base} /\ b \notin F \cup UsedHeaders
      /\ Inserted = {b} /\ b \in Blocks(F)
  BY <1>1, <1>2, <1>3, InsertPlace
<1>5. PICK H : H = Blocks(F)
  OBVIOUS
<1>6. Tiling(H) /\ H = F \cup UsedHeaders \cup {b} /\ b \in H
  BY <1>2, <1>4, <1>5 DEF WellFormed, Blocks
<1>7. \A g \in H : /\ g \in Word /\ g + 1 \in Word /\ g \in Nat /\ g > Base + 1
                   /\ \A k \in H : g # k + 1
  BY <1>1, <1>6, HeadersApart
<1>8. /\ Base = 1 /\ Base \in Word /\ Base + 1 \in Word
      /\ \A g \in F \cup {Base} : g \in Word /\ g + 1 \in Word /\ g \in Nat /\ g # b /\ g # b + 1 /\ b # g + 1
  <2>1. Base = 1 /\ Base \in Word /\ Base + 1 \in Word
    BY Numbers
  <2>2. Base # b /\ Base # b + 1 /\ b # Base + 1
    BY <1>6, <1>7, <2>1
  <2> QED  BY <1>4, <1>6, <1>7, <2>1, <2>2
<1>9. mem \in [Word -> Nat]
  BY <1>1 DEF TypeOK
<1>10. PICK m : m = MergeUp(mem, b, h)
  OBVIOUS
<1>11. mem' = MergeDown(m, b, h)
  BY <1>3, <1>10 DEF Insert
<1>12. m \in [Word -> Nat] /\ m[b] \in F \cup {Base}
  <2>1. mem[h] = next
    BY <1>3 DEF Next_
  <2>2. next \in Word /\ next + 1 \in Word /\ b \in Word /\ b + 1 \in Word
    BY <1>4, <1>6, <1>7, <1>8
  <2>3. mem[next] \in F \cup {Base} /\ mem[next] \in Word /\ mem[next + 1] \in Nat /\ mem[b + 1] \in Nat
    BY <1>2, <1>4, <1>9, <2>2, OnList DEF WellFormed, Next_
  <2>4. Word \subseteq Nat /\ next \in Nat /\ mem[next] \in Nat
    BY <2>2, <2>3, Numbers
  <2>5. CASE m = [mem EXCEPT ![b + 1] = mem[b + 1] + mem[next + 1], ![b] = mem[next]]
    BY <1>9, <2>2, <2>3, <2>4, <2>5
  <2>6. CASE m = [mem EXCEPT ![b] = next]
    BY <1>4, <1>9, <2>2, <2>4, <2>6
  <2> QED  BY <1>10, <2>1, <2>5, <2>6 DEF MergeUp
<1>13. mem' \in [Word -> Nat] /\ mem'[b] \in F \cup {Base}
  <2>1. h \in Word /\ h + 1 \in Word /\ b \in Word /\ b + 1 \in Word /\ b # h /\ b # h + 1 /\ b \in Nat
    BY <1>4, <1>6, <1>7, <1>8
  <2>2. m[h + 1] \in Nat /\ m[b + 1] \in Nat /\ m[b] \in Nat
    BY <1>12, <2>1
  <2>3. CASE mem' = [m EXCEPT ![h + 1] = m[h + 1] + m[b + 1], ![h] = m[b]]
    BY <1>12, <2>1, <2>2, <2>3
  <2>4. CASE mem' = [m EXCEPT ![h] = b]
    BY <1>12, <2>1, <2>4
  <2> QED  BY <1>11, <2>3, <2>4 DEF MergeDown
<1>14. next_free' = h /\ h \in Word /\ next_free' # NULL
  <2>1. h \in Word
    BY <1>4, <1>8
  <2> QED  BY <1>3, <2>1, Numbers DEF Insert
<1>15. /\ \/ pc' = "idle" /\ call' = NoCall
          \/ /\ pc' = "scan" /\ call.fn # "free"
             /\ call' = [call EXCEPT !.prev = b, !.header = mem'[b], !.block = NULL]
       /\ sound' \in BOOLEAN
  BY <1>3 DEF Insert, Return
<1>16. pc' = "scan" => /\ call'.fn = call.fn /\ call'.n = call.n /\ call'.left = call.left
                       /\ call'.prev = b /\ call'.header = mem'[b]
                       /\ call.fn \in {"malloc", "calloc"} /\ call.n \in Requests /\ call.left \in 1..2
  <2>1. call.fn # "free" =>
            call.n \in Requests /\ call.left \in 1..2 /\ call.fn \in {"malloc", "calloc"}
    BY <1>1, <1>2 DEF WellFormed, CallOnRing
  <2> QED  BY <1>1, <1>15, <2>1 DEF TypeOK
<1>17. TypeOK'
  <2>1. b \in Word /\ mem'[b] \in Word
    BY <1>6, <1>7, <1>8, <1>13
  <2>2. (call \in [fn : {"none", "malloc", "calloc", "free"}, n : Requests \cup {0}, left : 0..2,
                   prev : {NULL} \cup Word, header : {NULL} \cup Word, block : {NULL} \cup Word])'
    <3>1. CASE call' = NoCall
      BY <3>1 DEF NoCall
    <3>2. CASE call' = [call EXCEPT !.prev = b, !.header = mem'[b], !.block = NULL]
      BY <1>1, <2>1, <3>2 DEF TypeOK
    <3> QED  BY <1>15, <3>1, <3>2
  <2> QED  BY <1>1, <1>13, <1>14, <1>15, <2>2 DEF TypeOK, Used
<1>18. CASE ~ sound'
  BY <1>17, <1>18 DEF IInv
<1>19. CASE sound'
  <2>1. Size(b) \in Nat /\ Size(b) > 0 /\ b \in Nat
    BY <1>6, <1>7, Numbers DEF Tiling, InHeap
  <2>2. ~ Meets(mem, b, next)
    <3> SUFFICES ASSUME Meets(mem, b, next) PROVE FALSE
      OBVIOUS
    <3>1. b + Size(b) = next /\ b + Stride * Size(b) = next
      BY <1>3, <1>19 DEF Insert, Meets, Size
    <3> QED  BY <2>1, <3>1, StrideMisses
  <2>3. ~ Meets(mem, h, b)
    <3> SUFFICES ASSUME Meets(mem, h, b) PROVE FALSE
      OBVIOUS
    <3>1. h + Size(h) = b /\ h + Stride * Size(h) = b
      BY <1>3, <1>19 DEF Insert, Meets, Size
    <3>2. CASE h = Base
      <4>1. Size(h) = 0
        BY <1>2, <3>2 DEF WellFormed, Ring
      <4> QED  BY <1>4, <1>8, <2>1, <3>1, <3>2, <4>1
    <3>3. CASE h \in F
      <4>1. Size(h) \in Nat /\ Size(h) > 0 /\ h \in Nat
        BY <1>6, <1>7, <3>3, Numbers DEF Tiling, InHeap
      <4> QED  BY <3>1, <4>1, StrideMisses
    <3> QED  BY <1>4, <3>2, <3>3
  <2>4. m = [mem EXCEPT ![b] = next]
    BY <1>3, <1>10, <2>2 DEF MergeUp, Next_
  <2>5. m[h + 1] = mem[h + 1]
    BY <1>4, <1>8, <1>9, <2>4
  <2>6. mem' = [m EXCEPT ![h] = b]
    BY <1>11, <2>3, <2>5 DEF MergeDown, Meets
  <2>7. /\ mem'[h] = b /\ mem'[b] = next
        /\ \A a \in Word : a # h /\ a # b => mem'[a] = mem[a]
    <3>1. h \in Word /\ b \in Word /\ h # b
      BY <1>4, <1>6, <1>7, <1>8
    <3> QED  BY <1>9, <1>12, <2>4, <2>6, <3>1
  <2>8. Used' = Used /\ UsedHeaders' = UsedHeaders /\ Inserted' = {}
    BY <1>1, <1>15 DEF Used, UsedHeaders, Inserted
  <2>9. mem'[Base + 1] = mem[Base + 1] /\ \A g \in H : mem'[g + 1] = mem[g + 1]
    <3>1. Base + 1 # h /\ Base + 1 # b
      BY <1>4, <1>6, <1>7, <1>8
    <3>2. ASSUME NEW g \in H PROVE g + 1 \in Word /\ g + 1 # b /\ g + 1 # h
      <4>1. g + 1 # Base
        BY <1>7, <1>8
      <4> QED  BY <1>4, <1>6, <1>7, <4>1
    <3> QED  BY <1>8, <2>7, <3>1, <3>2
  <2>10. (Ring(F \cup {b}))'
    <3>1. F \in SUBSET Nat /\ (\A g \in F : g > Base) /\ Ring(F)
      BY <1>2, <1>6, <1>7, <1>8 DEF WellFormed
    <3>2. b > Base
      BY <1>6, <1>7, <1>8
    <3>3. \A g \in F \cup {Base} : g # h => mem'[g] = mem[g]
      BY <1>8, <2>7
    <3> QED  BY <1>3, <1>4, <2>1, <2>7, <2>9, <3>1, <3>2, <3>3, RingAdd DEF Next_
  <2>11. (Tiling(Blocks(F \cup {b})))'
    <3>1. (Blocks(F \cup {b}))' = H
      BY <1>6, <2>8 DEF Blocks
    <3>2. Tiling(H)'
      BY <1>1, <1>6, <2>9, TilingStays
    <3> QED  BY <3>1, <3>2, TilingIs
  <2>12. OneOwner(F \cup {b})'
    BY <1>1, <1>2, <1>4, <2>8 DEF WellFormed, OneOwner
  <2>13. SizesKept'
    <3> SUFFICES ASSUME NEW p \in Used PROVE mem'[p.ptr - Header + 1] = p.n + Header
      BY <2>8 DEF SizesKept, Size
    <3>1. p.ptr - Header \in H
      BY <1>6 DEF UsedHeaders
    <3> QED  BY <1>2, <2>9, <3>1 DEF WellFormed, SizesKept, Size
  <2>14. (CallOnRing(F \cup {b}))'
    BY <1>15, <1>16 DEF CallOnRing, Next_, NoCall
  <2>15. (WellFormed(F \cup {b}))'
    BY <1>4, <1>14, <2>10, <2>11, <2>12, <2>13, <2>14 DEF WellFormed
  <2>16. (F \cup {b}) \in SUBSET Word
    BY <1>6, <1>7
  <2> QED  BY <1>14, <1>17, <2>15, <2>16, InvStays
<1> QED  BY <1>18, <1>19

-------------------------------------------------------------------------------
(***************************************************************************)
(* Every step of malloc, calloc and free keeps the heap well formed, until *)
(* one of the two slips.                                                   *)
(***************************************************************************)
THEOREM Invariance == Spec => []IInv
<1>1. Init => IInv
  BY InitInv
<1>2. IInv /\ [Next]_vars => IInv'
  <2> SUFFICES ASSUME IInv, [Next]_vars PROVE IInv'
    OBVIOUS
  <2>1. CASE UNCHANGED vars
    BY <2>1 DEF vars, IInv, TypeOK, HeapInv, Fresh, Used, WellFormed, Ring, Follows, Next_, Size,
                Tiling, InHeap, Apart, Covered, Covers, Blocks, UsedHeaders, Inserted, OneOwner,
                SizesKept, CallOnRing
  <2>2. ASSUME NEW n \in Requests, Malloc(n) \/ Calloc(n) PROVE IInv'
    <3>1. 1 \in 1..2 /\ 2 \in 1..2
      OBVIOUS
    <3> QED  BY <2>2, <3>1, EnterKeeps DEF Malloc, Calloc
  <2>3. ASSUME NEW p \in live, Free(p) PROVE IInv'
    BY <2>3, FreeKeeps
  <2>4. ASSUME sound, Again PROVE IInv'
    <3>1. PICK F \in SUBSET Word : WellFormed(F)
      BY <2>4, CallHasList, Listed DEF Again
    <3>2. call.fn \in {"malloc", "calloc"} /\ call.n \in Requests /\ call.left \in 1..2
      BY <2>4, <3>1 DEF Again, WellFormed, CallOnRing
    <3> QED  BY <2>4, <3>2, EnterKeeps DEF Again
  <2>5. CASE Step
    BY <2>4, <2>5, TakeWhole, TakePart, LookKeeps, MoreCoreKeeps, NoCoreKeeps, SearchKeeps, InsertKeeps
    DEF Step
  <2> QED  BY <2>1, <2>2, <2>3, <2>5 DEF Next
<1> QED  BY <1>1, <1>2, PTL DEF Spec

-------------------------------------------------------------------------------
(***************************************************************************)
(* A non-empty set of natural numbers has a least element.                 *)
(***************************************************************************)
LEMMA LeastElement ==
    ASSUME NEW S \in SUBSET Nat, S # {}
    PROVE  \E b \in S : \A c \in S : b <= c
<1> DEFINE Less == OpToRel(<, Nat)
<1>1. PICK b \in S : \A c \in S : ~ (<<c, b>> \in Less)
  <2>1. IsWellFoundedOn(Less, Nat)
    BY NatLessThanWellFounded
  <2> HIDE DEF Less
  <2> QED  BY <2>1, WFMin
<1>2. \A c \in S : ~ (c < b)
  BY <1>1 DEF OpToRel
<1> QED  BY <1>2

(***************************************************************************)
(* The walk over the list that FreeList is defined by exists.              *)
(***************************************************************************)
Further(near) == near \cup {Next_(a) : a \in near \cap Word}

Walks(r, N) == r = [k \in 0..N |-> IF k = 0 THEN {Base} ELSE Further(r[k - 1])]

LEMMA WalkExists ==
    ASSUME NEW N \in Nat
    PROVE  \E r : Walks(r, N)
<1> DEFINE Bad == {n \in Nat : ~ \E r : Walks(r, n)}
<1> SUFFICES ASSUME Bad # {} PROVE FALSE
  OBVIOUS
<1>1. PICK n \in Bad : \A k \in Bad : n <= k
  <2>1. Bad \in SUBSET Nat
    OBVIOUS
  <2> HIDE DEF Bad
  <2> QED  BY <2>1, LeastElement
<1>2. CASE n = 0
  <2> DEFINE r == [k \in 0..0 |-> {Base}]
  <2>1. r = [k \in 0..0 |-> IF k = 0 THEN {Base} ELSE Further(r[k - 1])]
    OBVIOUS
  <2> QED  BY <1>2, <2>1 DEF Walks
<1>3. CASE n # 0
  <2>1. n \in Nat /\ n - 1 \in Nat /\ n - 1 \notin Bad
    <3>1. n \in Nat /\ n - 1 \in Nat /\ ~ (n <= n - 1)
      BY <1>3
    <3> HIDE DEF Bad
    <3> QED  BY <1>1, <3>1
  <2>2. PICK r : Walks(r, n - 1)
    BY <2>1
  <2> DEFINE v == [k \in 0..n |-> IF k < n THEN r[k] ELSE Further(r[n - 1])]
  <2>3. ASSUME NEW k \in 0..n
        PROVE  v[k] = IF k = 0 THEN {Base} ELSE Further(v[k - 1])
    <3>1. CASE k = 0
      BY <1>3, <2>1, <2>2, <3>1 DEF Walks
    <3>2. CASE k # 0 /\ k < n
      <4>1. k \in 0..(n - 1) /\ k - 1 \in 0..(n - 1) /\ k - 1 < n /\ k - 1 \in 0..n
        BY <2>1, <3>2
      <4>2. r[k] = Further(r[k - 1])
        BY <2>2, <3>2, <4>1 DEF Walks
      <4> QED  BY <3>2, <4>1, <4>2
    <3>3. CASE k = n
      <4>1. n - 1 < n /\ n - 1 \in 0..n /\ n # 0 /\ ~ (n < n)
        BY <1>3, <2>1
      <4> QED  BY <3>3, <4>1
    <3> QED  BY <2>1, <3>1, <3>2, <3>3
  <2>4. v = [k \in 0..n |-> IF k = 0 THEN {Base} ELSE Further(v[k - 1])]
    BY <2>3
  <2>5. Walks(v, n)
    <3> HIDE DEF v
    <3> QED  BY <2>4 DEF Walks
  <2> QED  BY <2>5
<1> QED  BY <1>2, <1>3

LEMMA HeadersNumber == Headers \in Nat /\ HeapWords < 2 * Headers + 2
BY Numbers DEF Headers

LEMMA ReachStep ==
    /\ Reach[0] = {Base}
    /\ \A k \in 1..Headers : Reach[k] = Further(Reach[k - 1])
<1>1. PICK r : Walks(r, Headers)
  BY HeadersNumber, WalkExists
<1>2. r = [k \in 0..Headers |-> IF k = 0 THEN {Base}
                                ELSE LET nearer == r[k - 1]
                                     IN  nearer \cup {Next_(a) : a \in nearer \cap Word}]
  BY <1>1 DEF Walks, Further
<1>3. Reach = [k \in 0..Headers |-> IF k = 0 THEN {Base}
                                    ELSE LET nearer == Reach[k - 1]
                                         IN  nearer \cup {Next_(a) : a \in nearer \cap Word}]
  BY <1>2, Zenon DEF Reach
<1>4. \A k \in 0..Headers : Reach[k] = IF k = 0 THEN {Base} ELSE Further(Reach[k - 1])
  <2> SUFFICES ASSUME NEW k \in 0..Headers
               PROVE  Reach[k] = IF k = 0 THEN {Base} ELSE Further(Reach[k - 1])
    OBVIOUS
  <2> QED  BY <1>3, Zenon DEF Further
<1> QED  BY <1>4, HeadersNumber

(***************************************************************************)
(* Every free header but the base has one before it on the list.           *)
(***************************************************************************)
LEMMA Before ==
    ASSUME NEW F \in SUBSET Nat, \A g \in F : g > Base, Ring(F), NEW h \in F
    PROVE  \E g \in F \cup {Base} : g < h /\ Next_(g) = h
<1> DEFINE Gaps == {h - g : g \in {g \in F \cup {Base} : g < h}}
<1>1. Base = 1 /\ Base \in Nat /\ h \in Nat
  BY DEF Base
<1>2. PICK d \in Gaps : \A e \in Gaps : d <= e
  <2>1. Gaps \in SUBSET Nat
    BY <1>1
  <2>2. h - Base \in Gaps
    BY <1>1
  <2> HIDE DEF Gaps
  <2> QED  BY <2>1, <2>2, LeastElement
<1>3. PICK g \in F \cup {Base} : g < h /\ d = h - g
  BY <1>2
<1>4. \A k \in F : k <= g \/ k >= h
  <2> SUFFICES ASSUME NEW k \in F, k < h PROVE k <= g
    BY <1>1
  <2>1. h - k \in Gaps
    OBVIOUS
  <2>2. h - g <= h - k
    BY <1>2, <1>3, <2>1
  <2> QED  BY <1>1, <1>3, <2>2
<1>5. Follows(F, g) /\ g \in Nat
  BY <1>1 DEF Ring
<1>6. Next_(g) = h
  <2>1. Next_(g) \in F /\ Next_(g) > g /\ \A k \in F : k <= g \/ k >= Next_(g)
    BY <1>1, <1>3, <1>5 DEF Follows
  <2>2. Next_(g) \in Nat /\ (h <= g \/ h >= Next_(g)) /\ (Next_(g) <= g \/ Next_(g) >= h)
    BY <1>4, <2>1
  <2> QED  BY <1>1, <1>3, <1>5, <2>1, <2>2
<1> QED  BY <1>3, <1>6

(***************************************************************************)
(* The walk stays on the list, and in k turns reaches every header below   *)
(* the k-th that the heap has room for.                                    *)
(***************************************************************************)
LEMMA WalkOnList ==
    ASSUME TypeOK, NEW F \in SUBSET Word, WellFormed(F)
    PROVE  \A k \in 0..Headers : Base \in Reach[k] /\ Reach[k] \subseteq F \cup {Base}
<1> DEFINE Good(k) == Base \in Reach[k] /\ Reach[k] \subseteq F \cup {Base}
           Bad == {k \in 0..Headers : ~ Good(k)}
<1> SUFFICES ASSUME Bad # {} PROVE FALSE
  OBVIOUS
<1>1. PICK k \in Bad : \A j \in Bad : k <= j
  <2>1. Bad \in SUBSET Nat
    BY HeadersNumber
  <2> HIDE DEF Bad
  <2> QED  BY <2>1, LeastElement
<1>2. k \in 0..Headers /\ ~ Good(k) /\ \A j \in 0..Headers : j < k => Good(j)
  BY <1>1, HeadersNumber
<1> HIDE DEF Bad
<1>3. CASE k = 0
  BY <1>2, <1>3, ReachStep
<1>4. CASE k # 0
  <2>1. k \in 1..Headers /\ k - 1 \in 0..Headers /\ k - 1 < k
    BY <1>2, <1>4, HeadersNumber
  <2>2. Good(k - 1) /\ Reach[k] = Further(Reach[k - 1])
    BY <1>2, <2>1, ReachStep
  <2>3. \A a \in F \cup {Base} : Next_(a) \in F \cup {Base}
    BY OnList DEF WellFormed
  <2> QED  BY <1>2, <2>2, <2>3 DEF Further
<1> QED  BY <1>3, <1>4

LEMMA ListReached ==
    ASSUME TypeOK, NEW F \in SUBSET Word, WellFormed(F)
    PROVE  \A k \in 0..Headers : \A h \in F : h < HeapStart + 2 * k => h \in Reach[k]
<1> DEFINE Good(k) == \A h \in F : h < HeapStart + 2 * k => h \in Reach[k]
           Bad == {k \in 0..Headers : ~ Good(k)}
<1> SUFFICES ASSUME Bad # {} PROVE FALSE
  OBVIOUS
<1>1. PICK k \in Bad : \A j \in Bad : k <= j
  <2>1. Bad \in SUBSET Nat
    BY HeadersNumber
  <2> HIDE DEF Bad
  <2> QED  BY <2>1, LeastElement
<1>2. k \in 0..Headers /\ ~ Good(k) /\ \A j \in 0..Headers : j < k => Good(j)
  BY <1>1, HeadersNumber
<1> HIDE DEF Bad
<1>3. PICK h \in F : h < HeapStart + 2 * k /\ h \notin Reach[k]
  BY <1>2
<1>4. Tiling(Blocks(F)) /\ F \subseteq Blocks(F) /\ Ring(F)
  BY DEF WellFormed, Blocks
<1>5. \A g \in F : g \in Nat /\ g >= HeapStart /\ g > Base /\ Size(g) \in Nat /\ Size(g) >= 2
  BY <1>4, Numbers DEF Tiling, InHeap
<1>6. k \in 1..Headers /\ k - 1 \in 0..Headers /\ k - 1 < k /\ k \in Nat
  BY <1>2, <1>3, <1>5, HeadersNumber, Numbers
<1>7. PICK g \in F \cup {Base} : g < h /\ Next_(g) = h
  <2>1. F \in SUBSET Nat
    BY <1>5
  <2> QED  BY <1>4, <1>5, <2>1, Before
<1>8. g \in Reach[k - 1]
  <2>1. CASE g = Base
    BY <1>6, <2>1, WalkOnList
  <2>2. CASE g \in F
    <3>1. g + Size(g) <= h
      BY <1>4, <1>7, <2>2 DEF Tiling, Apart
    <3>2. g < HeapStart + 2 * (k - 1)
      BY <1>3, <1>5, <1>6, <2>2, <3>1, Numbers
    <3> QED  BY <1>2, <1>6, <2>2, <3>2
  <2> QED  BY <1>7, <2>1, <2>2
<1>9. h \in Further(Reach[k - 1])
  <2>1. g \in Word
    BY <1>7, Numbers
  <2> QED  BY <1>7, <1>8, <2>1 DEF Further
<1> QED  BY <1>3, <1>6, <1>9, ReachStep

LEMMA FreeListIs ==
    ASSUME TypeOK, next_free # NULL, NEW F \in SUBSET Word, WellFormed(F)
    PROVE  FreeList = F
<1>1. Tiling(Blocks(F)) /\ F \subseteq Blocks(F)
  BY DEF WellFormed, Blocks
<1>2. \A h \in F : h # Base /\ h < HeapStart + 2 * Headers
  <2> SUFFICES ASSUME NEW h \in F PROVE h # Base /\ h < HeapStart + 2 * Headers
    OBVIOUS
  <2>1. h \in Nat /\ h >= HeapStart /\ h + 2 <= brk
    BY <1>1, Numbers DEF Tiling, InHeap, TypeOK
  <2>2. brk <= HeapWords + 4 /\ brk \in Nat
    BY Numbers DEF TypeOK
  <2> QED  BY <2>1, <2>2, HeadersNumber, Numbers
<1>3. Headers \in 0..Headers
  BY HeadersNumber
<1>4. F \subseteq Reach[Headers]
  BY <1>2, <1>3, ListReached
<1>5. Reach[Headers] \subseteq F \cup {Base}
  BY <1>3, WalkOnList
<1> QED  BY <1>2, <1>4, <1>5 DEF FreeList

(***************************************************************************)
(* The words of a block are those that its header's size covers, and two   *)
(* blocks share none.                                                      *)
(***************************************************************************)
Words(h) == h..(h + Size(h) - 1)

LEMMA WordsOfBlocks ==
    ASSUME TypeOK, next_free # NULL, NEW F \in SUBSET Word, WellFormed(F)
    PROVE  /\ \A h \in F : BlockWords(h) = Words(h)
           /\ \A p \in Used : /\ p.ptr - Header \in UsedHeaders
                              /\ UsedWords(p) = Words(p.ptr - Header)
           /\ \A h \in Blocks(F) : Words(h) \subseteq HeapStart..(brk - 1)
           /\ \A g, h \in Blocks(F) : g # h => Words(g) \cap Words(h) = {}
<1>1. /\ \A h \in Blocks(F) : h \in Nat /\ h >= HeapStart /\ Size(h) \in Nat /\ Size(h) >= 2 /\ h + Size(h) <= brk
      /\ brk \in Nat
  BY Numbers DEF WellFormed, Tiling, InHeap, TypeOK
<1>2. ASSUME NEW h \in F PROVE BlockWords(h) = Words(h)
  <2>1. ~ (Size(h) < Header)
    BY <1>1, Numbers DEF Blocks
  <2> QED  BY <2>1 DEF BlockWords, Words
<1>3. ASSUME NEW p \in Used
      PROVE  p.ptr - Header \in UsedHeaders /\ UsedWords(p) = Words(p.ptr - Header)
  <2>1. p.ptr - Header \in UsedHeaders
    BY DEF UsedHeaders
  <2>2. Size(p.ptr - Header) = p.n + Header
    BY DEF WellFormed, SizesKept
  <2>3. p.ptr \in Nat /\ p.n \in Nat
    BY RequestsPositive, Numbers DEF TypeOK
  <2>4. (p.ptr - Header) + (p.n + Header) - 1 = p.ptr + p.n - 1
    BY <2>3 DEF Header
  <2> QED  BY <2>1, <2>2, <2>4 DEF UsedWords, Words
<1>4. ASSUME NEW h \in Blocks(F) PROVE Words(h) \subseteq HeapStart..(brk - 1)
  BY <1>1, Numbers DEF Words
<1>5. ASSUME NEW g \in Blocks(F), NEW h \in Blocks(F), g # h
      PROVE  Words(g) \cap Words(h) = {}
  <2>1. g + Size(g) <= h \/ h + Size(h) <= g
    BY <1>1, <1>5 DEF WellFormed, Tiling, Apart
  <2> QED  BY <1>1, <2>1 DEF Words
<1> QED  BY <1>2, <1>3, <1>4, <1>5

(***************************************************************************)
(* Memory has one use: as long as neither slip has happened, between calls *)
(* no word belongs to two blocks, whatever the heap's size, the requests   *)
(* and the failures of sbrk.                                               *)
(***************************************************************************)
THEOREM OneUseOfMemory == Spec => []SoundMeansOneUse
<1>1. IInv => SoundMeansOneUse
  <2> SUFFICES ASSUME IInv, sound, Idle PROVE OneUse
    BY DEF SoundMeansOneUse, OneUse
  <2>1. CASE next_free = NULL
    BY <2>1 DEF IInv, HeapInv, Fresh, FreeList, OneUse
  <2>2. CASE next_free # NULL
    <3>1. PICK F \in SUBSET Word : WellFormed(F)
      BY <2>2, Listed
    <3>2. FreeList = F /\ TypeOK
      BY <2>2, <3>1, FreeListIs DEF IInv
    <3>3. F \subseteq Blocks(F) /\ UsedHeaders \subseteq Blocks(F) /\ F \cap UsedHeaders = {}
      BY <3>1 DEF Blocks, WellFormed, OneOwner
    <3>4. \A p, q \in Used : p # q => p.ptr - Header # q.ptr - Header
      <4> SUFFICES ASSUME NEW p \in Used, NEW q \in Used, p.ptr - Header = q.ptr - Header
                   PROVE  p = q
        OBVIOUS
      <4>1. p.ptr \in Nat /\ q.ptr \in Nat
        BY <3>2, Numbers DEF TypeOK
      <4>2. p.ptr = q.ptr
        BY <4>1, Numbers
      <4> QED  BY <3>1, <4>2 DEF WellFormed, OneOwner
    <3>5. \A h \in F : BlockWords(h) = Words(h)
      BY <2>2, <3>1, <3>2, WordsOfBlocks
    <3>6. \A p \in Used : p.ptr - Header \in UsedHeaders /\ UsedWords(p) = Words(p.ptr - Header)
      BY <2>2, <3>1, <3>2, WordsOfBlocks
    <3>7. \A h \in Blocks(F) : Words(h) \subseteq HeapStart..(brk - 1)
      BY <2>2, <3>1, <3>2, WordsOfBlocks
    <3>8. \A g, h \in Blocks(F) : g # h => Words(g) \cap Words(h) = {}
      BY <2>2, <3>1, <3>2, WordsOfBlocks
    <3>9. \A p \in Used : UsedWords(p) \subseteq HeapStart..(brk - 1)
      BY <3>3, <3>6, <3>7
    <3>10. \A h \in FreeList : BlockWords(h) \subseteq HeapStart..(brk - 1)
      BY <3>2, <3>3, <3>5, <3>7
    <3>11. \A p, q \in Used : p # q => UsedWords(p) \cap UsedWords(q) = {}
      BY <3>3, <3>4, <3>6, <3>8
    <3>12. \A g, h \in FreeList : g # h => BlockWords(g) \cap BlockWords(h) = {}
      BY <3>2, <3>3, <3>5, <3>8
    <3>13. \A p \in Used, h \in FreeList : UsedWords(p) \cap BlockWords(h) = {}
      BY <3>2, <3>3, <3>5, <3>6, <3>8
    <3> QED  BY <3>9, <3>10, <3>11, <3>12, <3>13 DEF OneUse
  <2> QED  BY <2>1, <2>2
<1> QED  BY <1>1, Invariance, PTL

(***************************************************************************)
(* The list is in address order between calls, and _next_free is on it.    *)
(***************************************************************************)
THEOREM ListOrdered == Spec => []ListInOrder
<1>1. IInv => ListInOrder
  <2> SUFFICES ASSUME IInv, sound, next_free # NULL
               PROVE  /\ next_free \in FreeList \cup {Base}
                      /\ \A h \in FreeList \cup {Base} :
                             LET above == {g \in FreeList : g > h}
                             IN  IF above = {} THEN Next_(h) = Base
                                 ELSE Next_(h) \in above /\ \A g \in above : Next_(h) <= g
    BY DEF ListInOrder
  <2>1. PICK F \in SUBSET Word : WellFormed(F)
    BY Listed
  <2>2. FreeList = F /\ next_free \in F \cup {Base}
    BY <2>1, FreeListIs DEF IInv, WellFormed
  <2>3. \A g \in F \cup {Base} : g \in Nat
    BY Numbers
  <2>4. ASSUME NEW h \in F \cup {Base}
        PROVE  LET above == {g \in F : g > h}
               IN  IF above = {} THEN Next_(h) = Base
                   ELSE Next_(h) \in above /\ \A g \in above : Next_(h) <= g
    <3>1. Follows(F, h)
      BY <2>1 DEF WellFormed, Ring
    <3>2. CASE Next_(h) \in F /\ Next_(h) > h /\ \A g \in F : g <= h \/ g >= Next_(h)
      BY <2>3, <3>2
    <3>3. CASE Next_(h) = Base /\ \A g \in F : g <= h
      BY <2>3, <3>3
    <3> QED  BY <3>1, <3>2, <3>3 DEF Follows
  <2> QED  BY <2>2, <2>4
<1> QED  BY <1>1, Invariance, PTL

(***************************************************************************)
(* Between calls every word of the heap is in a free block, in one handed  *)
(* out, or in one that calloc dropped.                                     *)
(***************************************************************************)
THEOREM EveryWordKept == Spec => []NoWordLost
<1>1. IInv => NoWordLost
  <2> SUFFICES ASSUME IInv, sound, Idle, NEW a \in HeapStart..(brk - 1)
               PROVE  \/ \E p \in Used : a \in UsedWords(p)
                      \/ \E h \in FreeList : a \in BlockWords(h)
    BY DEF NoWordLost
  <2>1. next_free # NULL
    <3>1. brk = HeapStart => FALSE
      BY Numbers
    <3> QED  BY <3>1 DEF IInv, HeapInv, Fresh
  <2>2. PICK F \in SUBSET Word : WellFormed(F)
    BY <2>1, Listed
  <2>3. FreeList = F /\ TypeOK
    BY <2>1, <2>2, FreeListIs DEF IInv
  <2>4. PICK h \in F \cup UsedHeaders : h <= a /\ a < h + Size(h)
    <3>1. Inserted = {}
      BY DEF Idle, Inserted
    <3>2. \E h \in Blocks(F) : Covers(h, a)
      BY <2>2 DEF WellFormed, Tiling, Covered
    <3> QED  BY <3>1, <3>2 DEF Blocks, Covers
  <2>5. a \in Words(h)
    <3>1. h \in Nat /\ Size(h) \in Nat /\ a \in Nat
      BY <2>2, <2>4, Numbers DEF WellFormed, Tiling, InHeap, Blocks
    <3> QED  BY <2>4, <3>1 DEF Words
  <2>6. CASE h \in F
    BY <2>1, <2>2, <2>3, <2>5, <2>6, WordsOfBlocks
  <2>7. CASE h \in UsedHeaders
    <3>1. PICK p \in Used : h = p.ptr - Header
      BY <2>7 DEF UsedHeaders
    <3>2. UsedWords(p) = Words(p.ptr - Header)
      BY <2>1, <2>2, <2>3, WordsOfBlocks
    <3> QED  BY <2>5, <3>1, <3>2
  <2> QED  BY <2>4, <2>6, <2>7
<1> QED  BY <1>1, Invariance, PTL

===============================================================================
