------------------------------ MODULE KernelMalloc ------------------------------
(***************************************************************************)
(* malloc, calloc and free (src/libc/stdlib/malloc.c): one circular list   *)
(* of free blocks in memory they get from sbrk.                            *)
(*                                                                         *)
(* Memory is a function from word addresses to words, so that a header     *)
(* written over another shows.  A header is two words, the pointer to the  *)
(* next free block and the size of the block, header included.  The sizes  *)
(* are byte counts in the code and word counts here; a pointer plus a      *)
(* size, though, moves by a header (eight bytes) for each byte, so by      *)
(* Stride = 8 words for each word of size.                                 *)
(*                                                                         *)
(* Each turn of the loops in malloc and free is a step.  sbrk behaves as   *)
(* KernelHeap says, or fails; the errno that morecore sets then, which     *)
(* nothing in the kernel reads, is left out.                               *)
(*                                                                         *)
(* Two things the code does set headers over other memory: it leaves a     *)
(* remnant too small for its header, and it merges blocks that do not      *)
(* meet.  "sound" says that neither has happened; what the code does       *)
(* afterwards is not modelled.                                             *)
(***************************************************************************)
EXTENDS Integers, FiniteSets

CONSTANTS
    MinRequest,     \* MALLOC_MIN_SBRK_REQUEST, in words
    Stride,         \* words that a pointer moves for a word of size
    HeapWords,      \* bound: the heap never grows past this
    Requests,       \* the payload sizes asked for, in words
    MayFail         \* may sbrk fail before the bound?

Header == 2
NULL == 0
Base == 1                      \* &_base: the static header lies below the heap
HeapStart == 4
HeapEnd == HeapStart + HeapWords
Word == Base..(HeapEnd - 1)

ASSUME MallocAssumption ==
    /\ MinRequest \in Nat \ {0}
    /\ Stride \in Nat \ {0, 1}      \* a header is longer than a byte
    /\ HeapWords \in Nat
    /\ Requests \subseteq Nat \ {0}
    /\ MayFail \in BOOLEAN

VARIABLES
    mem,            \* the words
    next_free,      \* _next_free
    brk,            \* the end of the heap
    live,           \* the blocks handed out: where the payload is, and its size
    dropped,        \* the blocks calloc got and returned to nobody
    sound,
    pc,             \* where the call in progress is
    call            \* its variables

vars == <<mem, next_free, brk, live, dropped, sound, pc, call>>
heapVars == <<live, dropped, sound>>

\* the fields of the header at address a
Next_(a) == mem[a]
Size(a) == mem[a + 1]

(***************************************************************************)
(* The variables of a call: the function called, the payload it wants, the *)
(* two pointers of the loop of malloc, and the block free is to insert.    *)
(* "left" counts the calls of malloc still to make: calloc makes two.      *)
(***************************************************************************)
NoCall == [fn |-> "none", n |-> 0, left |-> 0, prev |-> NULL, header |-> NULL, block |-> NULL]

Init ==
    /\ mem = [a \in Word |-> 0]
    /\ next_free = NULL
    /\ brk = HeapStart
    /\ live = {} /\ dropped = {}
    /\ sound = TRUE
    /\ pc = "idle"
    /\ call = NoCall

-------------------------------------------------------------------------------
(***************************************************************************)
(* malloc(n), up to its loop.  The first call starts the list.  The        *)
(* requests are small: of one within a header of the largest size_t the    *)
(* sum below wraps in the code (malloc.c:45), and of calloc n is count *   *)
(* size as it comes out of the multiplication (malloc.c:119).              *)
(***************************************************************************)
AllocationSize(n) == n + Header

EnterMalloc(fn, n, left) ==
    /\ pc' = "scan"
    /\ mem' = IF next_free = NULL THEN [mem EXCEPT ![Base] = Base, ![Base + 1] = 0] ELSE mem
    /\ next_free' = IF next_free = NULL THEN Base ELSE next_free
    /\ call' = [fn |-> fn, n |-> n, left |-> left, block |-> NULL,
                prev |-> next_free', header |-> mem'[next_free']]
    /\ UNCHANGED brk

Malloc(n) ==
    /\ pc = "idle" /\ sound
    /\ EnterMalloc("malloc", n, 1)
    /\ UNCHANGED heapVars

Calloc(n) ==
    /\ pc = "idle" /\ sound
    /\ EnterMalloc("calloc", n, 2)
    /\ UNCHANGED heapVars

(***************************************************************************)
(* A header that is big enough: an exact match leaves the list, a bigger   *)
(* block gives its tail.  calloc ignores what its first malloc returned    *)
(* and clears the payload of the second.                                   *)
(***************************************************************************)

Fits(h) == Size(h) >= AllocationSize(call.n)

Exact_Always_Mutant(h) == TRUE

Exact(h) == Size(h) = AllocationSize(call.n)

Remainder_NoHeader_Mutant(h) == Size(h) - call.n

Remainder(h) == Size(h) - AllocationSize(call.n)

Taken(h) == IF Exact(h) THEN h ELSE h + Remainder(h)

Unlinked(h) ==
    IF Exact(h)
      THEN [mem EXCEPT ![call.prev] = Next_(h)]
      ELSE [mem EXCEPT ![h + 1] = Remainder(h), ![Taken(h) + 1] = AllocationSize(call.n)]

Cleared(m, h) ==
    IF call.fn = "calloc"
      THEN [a \in Word |-> IF a \in (h + Header)..(h + Header + call.n - 1) THEN 0 ELSE m[a]]
      ELSE m

Return ==
    /\ pc' = "idle"
    /\ call' = NoCall

Take ==
    LET h == call.header
        block == [ptr |-> Taken(h) + Header, n |-> call.n]
    IN  /\ pc = "scan" /\ Fits(h)
        /\ next_free' = call.prev
        /\ sound' = (Exact(h) \/ Remainder(h) >= Header)
        /\ UNCHANGED brk
        /\ IF call.left = 1
             THEN /\ mem' = Cleared(Unlinked(h), Taken(h))
                  /\ live' = live \cup {block}
                  /\ Return
                  /\ UNCHANGED dropped
             ELSE /\ mem' = Unlinked(h)
                  /\ dropped' = dropped \cup {block}
                  /\ pc' = "again"
                  /\ call' = [call EXCEPT !.left = @ - 1]
                  /\ UNCHANGED live

\* calloc calls malloc a second time
Again ==
    /\ pc = "again"
    /\ EnterMalloc(call.fn, call.n, call.left)
    /\ UNCHANGED heapVars

Wrapped_Prev_Mutant(h) == h = call.prev /\ h # Base

Wrapped(h) == h = next_free

Advance(h) == [call EXCEPT !.prev = h, !.header = Next_(h)]

Look ==
    /\ pc = "scan" /\ ~ Fits(call.header) /\ ~ Wrapped(call.header)
    /\ call' = Advance(call.header)
    /\ UNCHANGED <<mem, next_free, brk, heapVars, pc>>

(***************************************************************************)
(* The list wrapped: morecore asks sbrk, and hands what it gets to free.   *)
(***************************************************************************)
Room == LET size == AllocationSize(call.n) + Header
        IN  IF size < MinRequest THEN MinRequest ELSE size

MustAsk == pc = "scan" /\ ~ Fits(call.header) /\ Wrapped(call.header)

MoreCore ==
    /\ MustAsk
    /\ brk + Room <= HeapEnd
    /\ brk' = brk + Room
    /\ mem' = [mem EXCEPT ![brk + 1] = Room]
    /\ pc' = "insert"
    /\ call' = [call EXCEPT !.block = brk, !.header = next_free]
    /\ UNCHANGED <<next_free, heapVars>>

\* the first malloc of calloc returns NULL and calloc goes on to the second
NoCore ==
    /\ MustAsk
    /\ MayFail \/ brk + Room > HeapEnd
    /\ IF call.left = 1
         THEN Return
         ELSE pc' = "again" /\ call' = [call EXCEPT !.left = @ - 1]
    /\ UNCHANGED <<mem, next_free, brk, heapVars>>

-------------------------------------------------------------------------------
(***************************************************************************)
(* free(p): the place of the block is after the last header below it; then *)
(* it is linked in, or merged with a neighbour where the pointer           *)
(* arithmetic says that the two meet.                                      *)
(***************************************************************************)
Free(p) ==
    /\ pc = "idle" /\ sound
    /\ p \in live
    /\ live' = live \ {p}
    /\ pc' = "insert"
    /\ call' = [NoCall EXCEPT !.fn = "free", !.block = p.ptr - Header, !.header = next_free]
    /\ UNCHANGED <<mem, next_free, brk, dropped, sound>>

Place_Above_Mutant(b, h) == b > h

Place(b, h) ==
    \/ b > h /\ b < Next_(h)
    \/ h >= Next_(h) /\ (b > h \/ b < Next_(h))

Search ==
    /\ pc = "insert" /\ ~ Place(call.block, call.header)
    /\ call' = [call EXCEPT !.header = Next_(@)]
    /\ UNCHANGED <<mem, next_free, brk, heapVars, pc>>

Meets(m, low, high) == low + Stride * m[low + 1] = high

MergeUp(m, b, h) ==
    IF Meets(m, b, m[h])
      THEN [m EXCEPT ![b + 1] = m[b + 1] + m[m[h] + 1], ![b] = m[m[h]]]
      ELSE [m EXCEPT ![b] = m[h]]

MergeDown(m, b, h) ==
    IF Meets(m, h, b)
      THEN [m EXCEPT ![h + 1] = m[h + 1] + m[b + 1], ![h] = m[b]]
      ELSE [m EXCEPT ![h] = b]

\* morecore returns the new block to the loop of malloc, which steps past it
Insert ==
    /\ pc = "insert" /\ Place(call.block, call.header)
    /\ mem' = MergeDown(MergeUp(mem, call.block, call.header), call.block, call.header)
    /\ sound' = \A pair \in {<<call.block, Next_(call.header)>>, <<call.header, call.block>>} :
                   Meets(mem, pair[1], pair[2]) => pair[1] + Size(pair[1]) = pair[2]
    /\ next_free' = call.header
    /\ IF call.fn = "free"
         THEN Return
         ELSE /\ pc' = "scan"
              /\ call' = [call EXCEPT !.prev = call.block, !.header = mem'[call.block],
                                      !.block = NULL]
    /\ UNCHANGED <<brk, live, dropped>>

Step ==
    /\ sound
    /\ Take \/ Again \/ Look \/ MoreCore \/ NoCore \/ Search \/ Insert

Next ==
    \/ \E n \in Requests : Malloc(n) \/ Calloc(n)
    \/ \E p \in live : Free(p)
    \/ Step

Spec == Init /\ [][Next]_vars /\ WF_vars(Step)

-------------------------------------------------------------------------------
Idle == pc = "idle"

\* the free blocks: what the list reaches, in as many steps as there is room for headers
Headers == HeapWords \div Header

Reach[k \in 0..Headers] ==
    IF k = 0 THEN {Base}
    ELSE LET nearer == Reach[k - 1]
         IN  nearer \cup {Next_(a) : a \in nearer \cap Word}

FreeList == IF next_free = NULL THEN {} ELSE Reach[Headers] \ {Base}

\* the words of a free block, room for its header included, and of one handed out
BlockWords(h) == h..(h + (IF Size(h) < Header THEN Header ELSE Size(h)) - 1)
UsedWords(p) == (p.ptr - Header)..(p.ptr + p.n - 1)
Used == live \cup dropped

(***************************************************************************)
(* The state is well formed.                                               *)
(***************************************************************************)
TypeOK ==
    /\ mem \in [Word -> Nat]
    /\ next_free \in {NULL} \cup Word
    /\ brk \in HeapStart..HeapEnd
    /\ Used \subseteq [ptr : Word, n : Requests]
    /\ sound \in BOOLEAN
    /\ pc \in {"idle", "scan", "again", "insert"}
    /\ call \in [fn : {"none", "malloc", "calloc", "free"}, n : Requests \cup {0}, left : 0..2,
                 prev : {NULL} \cup Word, header : {NULL} \cup Word, block : {NULL} \cup Word]

(***************************************************************************)
(* malloc "allocate[s] n bytes of memory from the kernel heap and          *)
(* return[s] the allocated address" (malloc.c:41): between calls, no word  *)
(* belongs to two blocks that were handed out, to two free blocks, or to a *)
(* free block and one that was handed out, and every block lies in the     *)
(* heap.                                                                   *)
(***************************************************************************)
OneUse ==
    Idle =>
        /\ \A p \in Used : UsedWords(p) \subseteq HeapStart..(brk - 1)
        /\ \A h \in FreeList : BlockWords(h) \subseteq HeapStart..(brk - 1)
        /\ \A p, q \in Used : p # q => UsedWords(p) \cap UsedWords(q) = {}
        /\ \A g, h \in FreeList : g # h => BlockWords(g) \cap BlockWords(h) = {}
        /\ \A p \in Used, h \in FreeList : UsedWords(p) \cap BlockWords(h) = {}

(***************************************************************************)
(* The two slips that "sound" rules out are all that can go wrong with     *)
(* the use of memory: any other sequence of calls, with sbrk failing or    *)
(* not, keeps the blocks apart.                                            *)
(***************************************************************************)
SoundMeansOneUse == sound => OneUse

(***************************************************************************)
(* The list is in address order, which free relies on to find the place of *)
(* a block, and _next_free is on it.                                       *)
(***************************************************************************)
ListInOrder ==
    Idle /\ sound /\ next_free # NULL =>
        /\ next_free \in FreeList \cup {Base}
        /\ \A h \in FreeList \cup {Base} :
               LET above == {g \in FreeList : g > h}
               IN  IF above = {} THEN Next_(h) = Base
                   ELSE Next_(h) \in above /\ \A g \in above : Next_(h) <= g

(***************************************************************************)
(* No word is lost but those calloc drops (it calls malloc twice and       *)
(* forgets the first block, malloc.c:119-120): between calls every word of *)
(* the heap is in a free block, in one handed out or in a dropped one.     *)
(***************************************************************************)
NoWordLost ==
    Idle /\ sound => \A a \in HeapStart..(brk - 1) :
                         \/ \E p \in Used : a \in UsedWords(p)
                         \/ \E h \in FreeList : a \in BlockWords(h)

(***************************************************************************)
(* Every call returns: the loops over the list end.                        *)
(***************************************************************************)
CallsReturn == ~ Idle ~> (Idle \/ ~ sound)

===============================================================================
