-------------------------------- MODULE Strings --------------------------------
(***************************************************************************)
(* The memory and string functions of the C library (src/libc/string):     *)
(* movecopy.c, compare.c and other.c.  A call works on a small memory of   *)
(* signed chars, 0 being the terminator, a turn of its loop a step.        *)
(***************************************************************************)
EXTENDS Integers, FiniteSets

CONSTANTS
    MemorySize,     \* bound: cells of memory
    Chars           \* values of a char

ASSUME StringsAssumption ==
    MemorySize \in Nat \ {0} /\ Chars \subseteq Int /\ 0 \in Chars

VARIABLES
    mem, before,    \* the memory, and what it was when the call was made
    call,           \* the function, its pointers a and b, length n, character c
    done,           \* turns of the loop so far
    outcome,        \* "none", then "returned", or "astray": it left the memory
    result          \* what it returned

stringVars == <<mem, before, call, done, outcome, result>>

Cell == 0..(MemorySize - 1)

Ranges == {r \in Cell \X (0..MemorySize) : r[1] + r[2] <= MemorySize}

\* what the functions are called with: the caller's blocks are in memory,
\* strings may be anywhere in it
Call(fn, a, b, n, c) == [fn |-> fn, a |-> a, b |-> b, n |-> n, c |-> c]

Calls ==
    {Call(fn, d[1], s, d[2], 0) :
        fn \in {"memcpy", "strncpy", "memcmp", "strncmp"}, d \in Ranges, s \in Cell}
    \cup {Call("memset", d[1], 0, d[2], c) : d \in Ranges, c \in Chars}
    \cup {Call(fn, a, b, 0, 0) : fn \in {"strcpy", "strcmp"}, a \in Cell, b \in Cell}
    \cup {Call("strlen", a, 0, 0, 0) : a \in Cell}

StringsInit ==
    /\ mem \in [Cell -> Chars] /\ before = mem
    /\ call \in {k \in Calls : k.b + k.n <= MemorySize}
    /\ done = 0 /\ outcome = "none" /\ result = 0

Running(names) == outcome = "none" /\ call.fn \in names

To == call.a + done
From == call.b + done
Left == call.n - done

Turn == done' = done + 1 /\ UNCHANGED <<before, call, outcome, result>>

\* the next character is behind the memory the strings are in
Leave == outcome' = "astray" /\ UNCHANGED <<mem, before, call, done, result>>

Returns(value) == /\ outcome' = "returned" /\ result' = value
                  /\ UNCHANGED <<mem, before, call, done>>

\* strcpy copies up to the terminator, and not the terminator itself
CopyGoesOn_NulEnds_Mutant ==
    (call.fn # "strcpy" => Left > 0) /\ mem[From] # 0

CopyGoesOn == IF call.fn = "strcpy" THEN mem[From] # 0 ELSE Left > 0

Copy ==
    /\ Running({"memcpy", "strcpy", "strncpy"})
    /\ IF call.fn = "strcpy" /\ (From \in Cell => mem[From] # 0 /\ To \notin Cell) THEN Leave
       ELSE IF CopyGoesOn THEN mem' = [mem EXCEPT ![To] = mem[From]] /\ Turn
       ELSE Returns(call.a)

memset ==
    /\ Running({"memset"})
    /\ IF Left > 0 THEN mem' = [mem EXCEPT ![To] = call.c] /\ Turn ELSE Returns(call.a)

strlen ==
    /\ Running({"strlen"})
    /\ IF To \notin Cell THEN Leave
       ELSE IF mem[To] # 0 THEN Turn /\ UNCHANGED mem
       ELSE Returns(done)

\* memcmp's loop looks at its length but never counts it down
ComparisonGoesOn ==
    CASE call.fn = "memcmp"  -> call.n > 0
      [] call.fn = "strcmp"  -> mem[To] # 0 /\ mem[From] # 0
      [] call.fn = "strncmp" -> mem[To] # 0 /\ mem[From] # 0 /\ Left > 0

Compare ==
    /\ Running({"memcmp", "strcmp", "strncmp"})
    /\ IF {From, To} \ Cell # {} THEN Leave
       ELSE IF ComparisonGoesOn /\ mem[To] = mem[From] THEN Turn /\ UNCHANGED mem
       ELSE Returns(mem[To] - mem[From])

StringStep == Copy \/ memset \/ strlen \/ Compare

-------------------------------------------------------------------------------
Zeros(a) == {i \in 0..(MemorySize - 1 - a) : before[a + i] = 0}
IsString(a) == Zeros(a) # {}
Length(a) == CHOOSE i \in Zeros(a) : \A j \in Zeros(a) : i <= j

Copied == IF call.fn = "strcpy" THEN Length(call.b) ELSE call.n
Forward == call.a > call.b   \* the destination lies behind the source

\* strcpy needs a string that its copy does not overwrite the end of, and
\* room for the terminator
MayCopy ==
    call.fn = "strcpy" => /\ IsString(call.b)
                          /\ call.a + Copied < MemorySize
                          /\ Forward => call.b + Copied < call.a

\* which character of the source stands at i of the destination
Source(i) == IF Forward THEN i % (call.a - call.b) ELSE i
SourceChar(i) == before[call.b + Source(i)]

\* a string is owed up to its terminator, and memcpy's block as a whole
Owed(i) ==
    /\ i \in 0..(Copied - 1)
    /\ call.fn = "strncpy" => \A j \in 0..(i - 1) : SourceChar(j) # 0

\* where the copy may write: strcpy also a terminator
Room == IF call.fn = "strcpy" THEN 0..Copied ELSE 0..(Copied - 1)

(***************************************************************************)
(* memcpy, strncpy and strcpy return, with the destination, give it the    *)
(* characters the source held when the call was made, and leave all other  *)
(* memory alone, also when the blocks overlap with the destination in      *)
(* front; with the destination behind, what lies in front of it is         *)
(* repeated.                                                               *)
(*                                                                         *)
(* Nothing is asked of the terminator of a copied string, which strcpy     *)
(* does not copy (movecopy.c:28), though string.h:20 has it as done; nor   *)
(* of what strncpy makes of its block behind a terminator.                 *)
(***************************************************************************)
CopiesRight ==
    call.fn \in {"memcpy", "strncpy", "strcpy"} /\ outcome # "none" /\ MayCopy =>
        /\ outcome = "returned" /\ result = call.a
        /\ \A i \in Cell : /\ Owed(i - call.a) => mem[i] = SourceChar(i - call.a)
                           /\ i - call.a \notin Room => mem[i] = before[i]

(***************************************************************************)
(* A comparison finds the first two characters that differ within its      *)
(* length, or a terminator both have, and gives their difference, so that  *)
(* it tells unequal blocks apart, in order, and reads behind its blocks    *)
(* only if they are equal; strlen gives the place of the first terminator. *)
(*                                                                         *)
(* Nothing is asked of blocks that are equal over the whole length: memcmp *)
(* is to compare "for equality" (compare.c:9) and never counts its length  *)
(* down (compare.c:14-19), so it goes on behind them until something       *)
(* differs; and strncmp gives the difference of the characters behind      *)
(* (compare.c:49).                                                         *)
(***************************************************************************)
Decides(i) ==
    \/ before[call.a + i] # before[call.b + i]
    \/ call.fn # "memcmp" /\ before[call.a + i] = 0

Compared == IF call.fn = "strcmp" THEN 0..(MemorySize - 1) ELSE 0..(call.n - 1)

ComparesRight ==
    /\ call.fn \in {"memcmp", "strcmp", "strncmp"} /\ outcome # "none" =>
         \A i \in Compared :
            (/\ {call.a + i, call.b + i} \subseteq Cell
             /\ Decides(i) /\ \A j \in 0..(i - 1) : ~ Decides(j))
            => outcome = "returned" /\ result = before[call.a + i] - before[call.b + i]
    /\ call.fn = "strlen" /\ outcome # "none" /\ IsString(call.a) =>
         outcome = "returned" /\ result = Length(call.a)
    /\ call.fn \in {"memcmp", "strcmp", "strncmp", "strlen"} => mem = before

(***************************************************************************)
(* What the functions of movecopy.c, compare.c and other.c do right.       *)
(***************************************************************************)
CopiedAndFound == CopiesRight /\ ComparesRight

===============================================================================
